-------------------------- MODULE ModelArraysProofs ---------------------------
EXTENDS ModelStoreProps, SequenceTheorems, FiniteSetTheorems,
        WellFoundedInduction, TLAPS

\* The arrays of a jaos_model through every call of the public interface, for
\* any number of columns and rows and any calls: they keep the lengths that
\* the code reads them with, nothing in them refers to what is gone, what is
\* kept beside them fits, and together they are the model that docs/api.md
\* describes.  Sound is the inductive invariant: the shape of the arrays
\* (Shape) and what hangs on them (Attached).  An edit is followed through its
\* loops in two steps: first what the arrays become, member by member
\* (ColsLonger, RowsLonger, ColsShorter, RowsShorter), then what that means.

-----------------------------------------------------------------------------
\* What a call leaves of the model, the answer and the parked walk.

\* The answer and the parked walk are of this model; the members of m are
\* those of jaos_model, whatever they hold.
Current ==
    /\ DOMAIN m = Fields
    /\ AnswerIsOfThisModel
    /\ WalkIsOfThisModel

USE DEF Current, AnswerIsOfThisModel, WalkIsOfThisModel

LEMMA RefusedKeepsCurrent ==
  ASSUME Current, NEW code, Refuse(code) PROVE Current'
BY DEF Refuse, Returns, attached, results, D

LEMMA StaleKeepsCurrent ==
  ASSUME AnswerIsStale, DOMAIN m' = Fields PROVE Current'
BY DEF AnswerIsStale

LEMMA EditsKeepCurrent ==
  ASSUME NEW new, Edits(new), DOMAIN new = Fields PROVE Current'
BY StaleKeepsCurrent DEF Edits

\* Arrays that are allocated and hold nothing yet say what their absence says.
LEMMA NamesSayNothing ==
  ASSUME DOMAIN m = Fields, NEW side, NEW names,
         m' = [m EXCEPT !.name[side] = names]
  PROVE  D' = D /\ DOMAIN m' = Fields
<1>1. \A f \in Fields \ {"name"} : m'[f] = m[f]
  OBVIOUS
<1>2. /\ m'.col = m.col /\ m'.row = m.row /\ m'.a = m.a
      /\ m'.cost = m.cost /\ m'.bound = m.bound /\ m'.sense = m.sense
      /\ m'.integer = m.integer /\ m'.semi = m.semi /\ m'.quad = m.quad
      /\ m'.q = m.q /\ m'.ind = m.ind /\ m'.sos = m.sos
      /\ m'.cone = m.cone /\ m'.rq = m.rq
  BY <1>1 DEF Fields
<1> QED
  BY <1>2 DEF D, Relations, EntriesOf, AlteredOf, Holders, PairsOf, IndOf,
     Members, RowQuadOf

LEMMA BlankSaysNothing ==
  ASSUME NEW mm, NEW n
  PROVE  Holders(mm, Blank(n)) = {} /\ Holders(mm, NULL) = {}
BY DEF Holders, Blank

SemisFor(on) == IF m.semi = NULL /\ on THEN Blank(NumCol) ELSE m.semi
IntegersFor(on) ==
    IF m.integer = NULL /\ on THEN Blank(NumCol) ELSE m.integer
MarksMade(on) ==
    {[m EXCEPT !.semi = SemisFor(on), !.integer = IntegersFor(on)],
     [m EXCEPT !.semi = SemisFor(on)]}

\* The marks that jaos_set_col_semicontinuous makes before it sets one, or
\* before it fails.
LEMMA MarksSayNothing ==
  ASSUME DOMAIN m = Fields, NEW on, NEW mm \in MarksMade(on)
  PROVE  DOMAIN mm = Fields /\ mm.name = m.name /\ Relations(mm) = Relations(m)
<1> DEFINE semis == SemisFor(on)
           integers == IntegersFor(on)
<1>1. /\ DOMAIN mm = Fields
      /\ \A f \in Fields \ {"semi", "integer"} : mm[f] = m[f]
      /\ mm.semi = semis /\ mm.integer \in {integers, m.integer}
  BY DEF Fields, MarksMade
<1>2. /\ mm.col = m.col /\ mm.row = m.row /\ mm.a = m.a
      /\ mm.cost = m.cost /\ mm.bound = m.bound /\ mm.sense = m.sense
      /\ mm.quad = m.quad /\ mm.q = m.q /\ mm.ind = m.ind
      /\ mm.sos = m.sos /\ mm.cone = m.cone /\ mm.rq = m.rq
      /\ mm.name = m.name
  BY <1>1 DEF Fields
<1>3. Holders(mm, mm.semi) = Holders(m, m.semi)
  <2>1. CASE semis = m.semi
    BY <2>1, <1>1, <1>2 DEF Holders
  <2>2. CASE semis # m.semi
    <3>1. semis = Blank(NumCol) /\ m.semi = NULL
      BY <2>2 DEF SemisFor
    <3> QED
      BY <3>1, <1>1, BlankSaysNothing
  <2> QED
    BY <2>1, <2>2
<1>4. Holders(mm, mm.integer) = Holders(m, m.integer)
  <2>1. CASE mm.integer = m.integer
    BY <2>1, <1>2 DEF Holders
  <2>2. CASE mm.integer # m.integer
    <3>1. mm.integer = Blank(NumCol) /\ m.integer = NULL
      BY <2>2, <1>1 DEF IntegersFor
    <3> QED
      BY <3>1, BlankSaysNothing
  <2> QED
    BY <2>1, <2>2
<1>5. Holders(mm, mm.quad) = Holders(m, m.quad)
        /\ AlteredOf(mm) = AlteredOf(m)
  BY <1>2 DEF Holders, AlteredOf
<1>6. /\ EntriesOf(mm) = EntriesOf(m) /\ PairsOf(mm) = PairsOf(m)
      /\ IndOf(mm) = IndOf(m) /\ RowQuadOf(mm) = RowQuadOf(m)
      /\ Members(mm, mm.sos) = Members(m, m.sos)
      /\ Members(mm, mm.cone) = Members(m, m.cone)
  BY <1>2 DEF EntriesOf, PairsOf, IndOf, RowQuadOf, Members
<1>7. Relations(mm) = Relations(m)
  BY <1>2, <1>3, <1>4, <1>5, <1>6 DEF Relations
<1> QED
  BY <1>1, <1>2, <1>7

\* What a call of SetSemi is.
LEMMA SemiIs ==
  ASSUME NEW j, NEW on, SetSemi(j, on)
  PROVE  \/ OutOfMemory
         \/ m' \in MarksMade(on) /\ UNCHANGED <<attached, results, cfg, fresh>>
         \/ /\ Edits([[m EXCEPT !.semi = SemisFor(on),
                               !.integer = IntegersFor(on)]
                       EXCEPT !.semi[j] = on])
BY DEF SetSemi, MarksMade, SemisFor, IntegersFor

LEMMA SetSemiKeepsCurrent ==
  ASSUME Current, NEW j, NEW on, SetSemi(j, on) PROVE Current'
<1> DEFINE made == [m EXCEPT !.semi = SemisFor(on),
                             !.integer = IntegersFor(on)]
<1>1. CASE OutOfMemory
  BY <1>1, RefusedKeepsCurrent DEF OutOfMemory
<1>2. CASE m' \in MarksMade(on) /\ UNCHANGED <<attached, results, cfg, fresh>>
  <2>1. DOMAIN m' = Fields /\ Relations(m') = Relations(m)
    BY <1>2, MarksSayNothing
  <2> QED
    BY <1>2, <2>1 DEF attached, results, D
<1>3. CASE Edits([made EXCEPT !.semi[j] = on])
  <2>1. DOMAIN [made EXCEPT !.semi[j] = on] = Fields
    OBVIOUS
  <2> QED
    BY <1>3, <2>1, EditsKeepCurrent
<1> QED
  BY <1>1, <1>2, <1>3, SemiIs

PartsMade == [m EXCEPT !.rq = IF @ = NULL THEN [r \in Rows |-> {}] ELSE @]

\* The quadratic parts that jaos_set_row_quadratic makes before it sets one,
\* or before it fails.
LEMMA PartsSayNothing ==
  ASSUME DOMAIN m = Fields
  PROVE  /\ DOMAIN PartsMade = Fields /\ PartsMade.name = m.name
         /\ Relations(PartsMade) = Relations(m)
<1> DEFINE blank == [r \in Rows |-> {}]
           part == PartsMade
<1>1. /\ DOMAIN part = Fields
      /\ \A f \in Fields \ {"rq"} : part[f] = m[f]
      /\ part.rq = IF m.rq = NULL THEN blank ELSE m.rq
  BY DEF Fields, PartsMade
<1>2. /\ part.col = m.col /\ part.row = m.row /\ part.a = m.a
      /\ part.cost = m.cost /\ part.bound = m.bound /\ part.sense = m.sense
      /\ part.integer = m.integer /\ part.semi = m.semi
      /\ part.quad = m.quad /\ part.q = m.q /\ part.ind = m.ind
      /\ part.sos = m.sos /\ part.cone = m.cone /\ part.name = m.name
  BY <1>1 DEF Fields
<1> HIDE DEF part
<1>3. RowQuadOf(part) = RowQuadOf(m)
  <2>1. CASE m.rq # NULL
    BY <2>1, <1>1, <1>2 DEF RowQuadOf
  <2>2. CASE m.rq = NULL
    <3>1. part.rq = blank
      BY <2>2, <1>1
    <3> QED
      BY <3>1, <2>2 DEF RowQuadOf
  <2> QED
    BY <2>1, <2>2
<1>4. Relations(part) = Relations(m)
  BY <1>2, <1>3 DEF Relations, EntriesOf, AlteredOf, Holders, PairsOf, IndOf,
     Members
<1> QED
  BY <1>1, <1>2, <1>4 DEF part

LEMMA SetRowQuadraticKeepsCurrent ==
  ASSUME Current, NEW i, NEW terms, SetRowQuadratic(i, terms) PROVE Current'
<1>1. CASE Invalid \/ OutOfMemory
  BY <1>1, RefusedKeepsCurrent DEF Invalid, OutOfMemory
<1>2. CASE m' = PartsMade /\ UNCHANGED <<attached, results, cfg>>
  BY <1>2, PartsSayNothing DEF attached, results, D
<1>3. CASE Edits([m EXCEPT !.rq = [(IF @ = NULL THEN [r \in Rows |-> {}]
                                    ELSE @) EXCEPT ![i] = terms]])
  BY <1>3, EditsKeepCurrent
<1> QED
  BY <1>1, <1>2, <1>3 DEF SetRowQuadratic, PartsMade

LEMMA AttributesKeepCurrent == Current /\ Attributes => Current'
<1> SUFFICES ASSUME Current, Attributes PROVE Current'
  OBVIOUS
<1>1. ASSUME NEW code, Refuse(code) PROVE Current'
  BY <1>1, RefusedKeepsCurrent
<1>2. ASSUME NEW j, SetColNumbers(j) PROVE Current'
  BY <1>2, EditsKeepCurrent DEF SetColNumbers
<1>3. ASSUME NEW i, SetRowBounds(i) PROVE Current'
  BY <1>3, EditsKeepCurrent DEF SetRowBounds
<1>4. CASE SetObjective
  BY <1>4, EditsKeepCurrent DEF SetObjective
<1>5. ASSUME NEW i, NEW j, NEW zero, SetCoefficient(i, j, zero)
      PROVE  Current'
  BY <1>1, <1>5, StaleKeepsCurrent
     DEF SetCoefficient, Nothing, OutOfMemory, MatrixIsStale
<1>6. ASSUME NEW j, NEW on, SetInteger(j, on) PROVE Current'
  BY <1>1, <1>6, EditsKeepCurrent DEF SetInteger, Nothing, OutOfMemory, Invalid
<1>7. ASSUME NEW j, NEW on, SetColQuadratic(j, on) PROVE Current'
  BY <1>1, <1>7, EditsKeepCurrent DEF SetColQuadratic, Nothing, OutOfMemory
<1>8. ASSUME NEW terms, SetQuadratic(terms) PROVE Current'
  BY <1>1, <1>8, EditsKeepCurrent DEF SetQuadratic, Invalid, OutOfMemory
<1> QED
  BY <1>2, <1>3, <1>4, <1>5, <1>6, <1>7, <1>8, SetSemiKeepsCurrent
     DEF Attributes

LEMMA StructureKeepsCurrent == Current /\ Structure => Current'
<1> SUFFICES ASSUME Current, Structure PROVE Current'
  OBVIOUS
<1>1. ASSUME NEW code, Refuse(code) PROVE Current'
  BY <1>1, RefusedKeepsCurrent
<1>2. ASSUME NEW col, AddSos(col) PROVE Current'
  BY <1>1, <1>2, StaleKeepsCurrent DEF AddSos, WithTag, Invalid, OutOfMemory
<1>3. ASSUME NEW col, AddCone(col) PROVE Current'
  BY <1>1, <1>3, StaleKeepsCurrent DEF AddCone, WithTag, Invalid, OutOfMemory
<1>4. ASSUME NEW i, NEW j, SetIndicator(i, j, 1) PROVE Current'
  BY <1>1, <1>4, EditsKeepCurrent
     DEF SetIndicator, Nothing, Invalid, OutOfMemory
<1>5. ASSUME NEW gone, DeleteCones(gone) PROVE Current'
  BY <1>1, <1>5, EditsKeepCurrent DEF DeleteCones, OutOfMemory
<1> QED
  BY <1>2, <1>3, <1>4, <1>5, SetRowQuadraticKeepsCurrent DEF Structure

LEMMA EditKeepsCurrent == Current /\ Edit => Current'
<1> SUFFICES ASSUME Current, Edit PROVE Current'
  OBVIOUS
<1>1. ASSUME NEW code, Refuse(code) PROVE Current'
  BY <1>1, RefusedKeepsCurrent
<1>2. ASSUME NEW new, AddCols(new) PROVE Current'
  <2>1. CASE ColsCannotGrow(new)
    BY <2>1 DEF ColsCannotGrow, D
  <2>2. CASE MatrixIsStale /\ m' = ColsGrown(new)
    BY <2>2, StaleKeepsCurrent DEF MatrixIsStale, ColsGrown
  <2> QED
    BY <1>1, <1>2, <2>1, <2>2 DEF AddCols, Invalid, OutOfMemory
<1>3. ASSUME NEW new, AddRows(new) PROVE Current'
  <2>1. DOMAIN RowsGrown(new) = Fields
          /\ DOMAIN [RowsGrown(new) EXCEPT !.ind = NULL] = Fields
    BY DEF RowsGrown
  <2> QED
    BY <1>1, <1>3, <2>1, StaleKeepsCurrent
       DEF AddRows, MatrixIsStale, Invalid, OutOfMemory
<1>4. ASSUME NEW gone, DeleteCols(gone) PROVE Current'
  <2>1. ASSUME NEW kept PROVE DOMAIN ColsWithout(kept) = Fields
    BY DEF ColsWithout
  <2> QED
    BY <1>1, <1>4, <2>1, StaleKeepsCurrent
       DEF DeleteCols, MatrixIsStale, Invalid, OutOfMemory
<1>5. ASSUME NEW gone, DeleteRows(gone) PROVE Current'
  <2>1. ASSUME NEW kept PROVE DOMAIN RowsWithout(kept) = Fields
    BY DEF RowsWithout
  <2> QED
    BY <1>1, <1>5, <2>1, StaleKeepsCurrent
       DEF DeleteRows, MatrixIsStale, OutOfMemory
<1>6. ASSUME NEW a, NEW nrow, Load(a, nrow) PROVE Current'
  <2>1. ASSUME NEW col, NEW row PROVE DOMAIN Bare(col, row, a) = Fields
    BY DEF Bare, Fields
  <2> QED
    BY <1>1, <1>6, <2>1, StaleKeepsCurrent DEF Load, Invalid, OutOfMemory
<1> QED
  BY <1>2, <1>3, <1>4, <1>5, <1>6 DEF Edit

LEMMA AttachKeepsCurrent == Current /\ Attach => Current'
<1> SUFFICES ASSUME Current, Attach PROVE Current'
  OBVIOUS
<1>1. ASSUME NEW code, Refuse(code) PROVE Current'
  BY <1>1, RefusedKeepsCurrent
<1>2. CASE SetBasis \/ ClearBasis \/ SetOptions
  BY <1>2 DEF SetBasis, ClearBasis, SetOptions, D
<1>3. CASE SetMipStart
  BY <1>3 DEF SetMipStart, results, D
<1>4. ASSUME NEW side, NEW k, NEW name, SetName(side, k, name)
      PROVE  Current'
  <2>1. CASE UNCHANGED <<start, results, cfg>> /\
             \E names : m' = [m EXCEPT !.name[side] = names]
    BY <2>1, NamesSayNothing DEF results
  <2> QED
    BY <1>1, <1>4, <2>1 DEF SetName, Nothing, OutOfMemory
<1>5. CASE FindByName \/ EnsureRowwise
  BY <1>1, <1>5 DEF FindByName, EnsureRowwise, OutOfMemory, results, D
<1>6. CASE Copy
  BY <1>1, <1>6, StaleKeepsCurrent DEF Copy, OutOfMemory
<1>7. CASE Solve
  BY <1>1, <1>7 DEF Solve, Invalid, attached, D
<1> QED
  BY <1>2, <1>3, <1>4, <1>5, <1>6, <1>7 DEF Attach

LEMMA StepKeepsCurrent == Current /\ [Next]_vars => Current'
<1>1. CASE UNCHANGED vars
  BY <1>1 DEF vars, results, attached, D
<1> QED
  BY <1>1, AttributesKeepCurrent, StructureKeepsCurrent, EditKeepsCurrent,
     AttachKeepsCurrent DEF Next, Call

\* Whatever is done to a model, of any size and in any order, an answer it
\* still gives and a walk it would resume are of the model as it is now, the
\* walk also of its basis and options.
THEOREM NothingStale == Spec => []KeptIsOfThisModel
<1>1. Init => Current
  BY ModelStoreAssumption DEF Init, Shape
<1>2. Current /\ [Next]_vars => Current'
  BY StepKeepsCurrent
<1>3. Current => KeptIsOfThisModel
  BY DEF KeptIsOfThisModel
<1> QED
  BY <1>1, <1>2, <1>3, PTL DEF Spec

\* What a call that fails leaves: what the model says, the answer and names.
Silent == ret' # "OK" => UNCHANGED <<D, answer, m.name>>

LEMMA RefusedIsSilent ==
  ASSUME NEW code, Refuse(code) PROVE Silent
BY DEF Silent, Refuse, results, D

LEMMA SucceedsIsSilent ==
  ASSUME Returns("OK") PROVE Silent
BY DEF Silent, Returns

LEMMA AttributesAreSilent == Current /\ Attributes => Silent
<1> SUFFICES ASSUME Current, Attributes PROVE Silent
  OBVIOUS
<1>1. CASE Nothing \/ Invalid \/ OutOfMemory
  BY <1>1, RefusedIsSilent DEF Nothing, Invalid, OutOfMemory
<1>2. ASSUME NEW new, Edits(new) PROVE Silent
  BY <1>2, SucceedsIsSilent DEF Edits
<1>3. ASSUME NEW i, NEW j, NEW zero, SetCoefficient(i, j, zero)
      PROVE  Silent
  BY <1>1, <1>3, SucceedsIsSilent DEF SetCoefficient
<1>4. ASSUME NEW j, NEW on, SetInteger(j, on) \/ SetColQuadratic(j, on)
      PROVE  Silent
  BY <1>1, <1>2, <1>4 DEF SetInteger, SetColQuadratic
<1>5. ASSUME NEW j, NEW on, SetSemi(j, on) PROVE Silent
  <2>1. CASE m' \in MarksMade(on) /\ UNCHANGED results
    <3>1. Relations(m') = Relations(m) /\ m'.name = m.name
      BY <2>1, MarksSayNothing
    <3> QED
      BY <2>1, <3>1 DEF Silent, results, D
  <2> QED
    BY <1>1, <1>2, <1>5, <2>1, SemiIs
<1>6. ASSUME NEW terms, SetQuadratic(terms) PROVE Silent
  BY <1>1, <1>2, <1>6 DEF SetQuadratic
<1> QED
  BY <1>2, <1>3, <1>4, <1>5, <1>6
     DEF Attributes, SetColNumbers, SetRowBounds, SetObjective

LEMMA StructureIsSilent == Current /\ Structure => Silent
<1> SUFFICES ASSUME Current, Structure PROVE Silent
  OBVIOUS
<1>1. CASE Nothing \/ Invalid \/ OutOfMemory
  BY <1>1, RefusedIsSilent DEF Nothing, Invalid, OutOfMemory
<1>2. ASSUME NEW new, Edits(new) \/ WithTag(new) PROVE Silent
  BY <1>2, SucceedsIsSilent DEF Edits, WithTag
<1>3. ASSUME NEW col, AddSos(col) \/ AddCone(col) PROVE Silent
  BY <1>1, <1>2, <1>3 DEF AddSos, AddCone
<1>4. ASSUME NEW i, NEW j, SetIndicator(i, j, 1) PROVE Silent
  BY <1>1, <1>2, <1>4 DEF SetIndicator
<1>5. ASSUME NEW gone, DeleteCones(gone) PROVE Silent
  BY <1>1, <1>2, <1>5 DEF DeleteCones
<1>6. ASSUME NEW i, NEW terms, SetRowQuadratic(i, terms) PROVE Silent
  <2>1. CASE m' = PartsMade /\ UNCHANGED results
    <3>1. Relations(m') = Relations(m) /\ m'.name = m.name
      BY <2>1, PartsSayNothing
    <3> QED
      BY <2>1, <3>1 DEF Silent, results, D
  <2> QED
    BY <1>1, <1>2, <1>6, <2>1 DEF SetRowQuadratic, PartsMade
<1> QED
  BY <1>3, <1>4, <1>5, <1>6 DEF Structure

LEMMA EditIsSilent == Edit => Silent
<1> SUFFICES ASSUME Edit PROVE Silent
  OBVIOUS
<1>1. CASE Invalid \/ OutOfMemory
  BY <1>1, RefusedIsSilent DEF Invalid, OutOfMemory
<1>2. CASE Returns("OK")
  BY <1>2, SucceedsIsSilent
<1>3. ASSUME NEW new, ColsCannotGrow(new) PROVE Silent
  BY <1>3 DEF ColsCannotGrow, Silent, D
<1> QED
  BY <1>1, <1>2, <1>3 DEF Edit, AddCols, AddRows, DeleteCols, DeleteRows, Load

LEMMA AttachIsSilent == Attach => Silent
<1> SUFFICES ASSUME Attach PROVE Silent
  OBVIOUS
<1>1. CASE Nothing \/ Invalid \/ OutOfMemory
  BY <1>1, RefusedIsSilent DEF Nothing, Invalid, OutOfMemory
<1>2. CASE Returns("OK")
  BY <1>2, SucceedsIsSilent
<1>3. CASE SetBasis \/ SetMipStart
  BY <1>3 DEF SetBasis, SetMipStart, results, Silent, D
<1> QED
  BY <1>1, <1>2, <1>3 DEF Attach, ClearBasis, SetOptions, SetName, FindByName,
     EnsureRowwise, Copy, Solve

\* Whatever call fails, wherever in it the memory runs out: the model says
\* what it said, under the same names, and has the same answer.
THEOREM NothingHalfDone == Spec => FailureChangesNothing
<1>1. Init => Current
  BY ModelStoreAssumption DEF Init, Shape
<1>2. Current /\ [Next]_vars => Current'
  BY StepKeepsCurrent
<1>3. Current /\ [Next]_vars =>
        [ret' # "OK" /\ calls' # calls => UNCHANGED <<D, answer, m.name>>]_vars
  BY AttributesAreSilent, StructureIsSilent, EditIsSilent, AttachIsSilent
     DEF Next, Call, Silent
<1> QED
  BY <1>1, <1>2, <1>3, PTL DEF Spec, FailureChangesNothing

HIDE DEF Current, AnswerIsOfThisModel, WalkIsOfThisModel

-----------------------------------------------------------------------------
\* Arrays: how they grow and how they are compacted.

\* An array of n entries is a sequence of that length, and back.
LEMMA ArrayIsSeq ==
  ASSUME NEW S, NEW n \in Nat, NEW s \in [1 .. n -> S]
  PROVE  s \in Seq(S) /\ Len(s) = n /\ DOMAIN s = 1 .. n
<1>1. s \in Seq(S)
  BY SeqDef
<1> QED
  BY <1>1

LEMMA SeqIsArray ==
  ASSUME NEW S, NEW s \in Seq(S)
  PROVE  Len(s) \in Nat /\ DOMAIN s = 1 .. Len(s) /\ s \in [1 .. Len(s) -> S]
BY LenProperties

\* realloc keeps the entries and the new ones follow them.
LEMMA Joined ==
  ASSUME NEW S, NEW n \in Nat, NEW k \in Nat, NEW s, NEW t,
         s \in [1 .. n -> S], t \in [1 .. k -> S]
  PROVE  /\ s \o t \in [1 .. n + k -> S] /\ Len(s \o t) = n + k
         /\ \A i \in 1 .. n : (s \o t)[i] = s[i]
         /\ \A i \in 1 .. k : (s \o t)[n + i] = t[i]
<1>1. s \in Seq(S) /\ t \in Seq(S) /\ Len(s) = n /\ Len(t) = k
  BY ArrayIsSeq
<1>2. s \o t \in Seq(S) /\ Len(s \o t) = n + k
  BY <1>1, ConcatProperties
<1>3. s \o t \in [1 .. n + k -> S]
  BY <1>2, SeqIsArray
<1> QED
  BY <1>1, <1>2, <1>3, ConcatProperties

\* Positions that a deletion keeps.
Places(kept) == IsFiniteSet(kept) /\ kept \subseteq Int

LEMMA PlacesOf ==
  ASSUME NEW n \in Nat, NEW kept, kept \subseteq 1 .. n
  PROVE  Places(kept)
<1>1. IsFiniteSet(1 .. n)
  BY FS_Interval
<1> QED
  <2>1. kept \in SUBSET (1 .. n)
    OBVIOUS
  <2>2. IsFiniteSet(kept)
    BY <1>1, <2>1, FS_Subset
  <2> QED
    BY <2>2 DEF Places

\* What a place counts: the kept positions are numbered in their order.
LEMMA Positions ==
  ASSUME NEW kept, Places(kept)
  PROVE  /\ Cardinality(kept) \in Nat
         /\ \A p \in kept : NewIndex(kept, p) \in 1 .. Cardinality(kept)
         /\ \A p, q \in kept : p < q => NewIndex(kept, p) < NewIndex(kept, q)
         /\ \A p \in kept : Nth(kept, NewIndex(kept, p)) = p
         /\ \A k \in 1 .. Cardinality(kept) :
              Nth(kept, k) \in kept /\ NewIndex(kept, Nth(kept, k)) = k
<1> DEFINE c == Cardinality(kept)
           Upto(p) == {q \in kept : q <= p}
<1> HIDE DEF c
<1>1. IsFiniteSet(kept) /\ c \in Nat
  BY FS_CardinalityType DEF c, Places
<1>2. ASSUME NEW p \in kept
      PROVE  IsFiniteSet(Upto(p)) /\ NewIndex(kept, p) \in 1 .. c
  <2>1. Upto(p) \in SUBSET kept /\ p \in Upto(p)
    BY DEF Places
  <2>2. IsFiniteSet(Upto(p)) /\ Cardinality(Upto(p)) <= c
    BY <1>1, <2>1, FS_Subset DEF c
  <2>3. Cardinality(Upto(p)) \in Nat /\ Cardinality(Upto(p)) # 0
    BY <2>1, <2>2, FS_EmptySet, FS_CardinalityType
  <2> QED
    BY <1>1, <2>2, <2>3 DEF NewIndex
<1>3. ASSUME NEW p \in kept, NEW q \in kept, p < q
      PROVE  NewIndex(kept, p) < NewIndex(kept, q)
  <2>0. \A r \in kept : r \in Int /\ r <= r /\ (r <= p => r <= q)
    BY <1>3 DEF Places
  <2>1. Upto(p) \in SUBSET Upto(q) /\ q \in Upto(q) /\ q \notin Upto(p)
    <3>1. ~(q <= p)
      BY <1>3, <2>0
    <3>2. Upto(p) \subseteq Upto(q)
      BY <2>0
    <3>3. q \in Upto(q)
      BY <2>0
    <3>4. q \notin Upto(p)
      BY <3>1
    <3> QED
      BY <3>2, <3>3, <3>4
  <2>2. IsFiniteSet(Upto(q)) /\ IsFiniteSet(Upto(p))
    BY <1>2
  <2>3. /\ Cardinality(Upto(p)) <= Cardinality(Upto(q))
        /\ Cardinality(Upto(p)) # Cardinality(Upto(q))
    BY <2>1, <2>2, FS_Subset, Zenon
  <2>4. Cardinality(Upto(p)) \in Nat /\ Cardinality(Upto(q)) \in Nat
    BY <2>2, FS_CardinalityType
  <2> QED
    BY <2>3, <2>4 DEF NewIndex
<1> DEFINE f == [p \in kept |-> NewIndex(kept, p)]
<1>4. ASSUME NEW p \in kept, NEW q \in kept,
             NewIndex(kept, p) = NewIndex(kept, q)
      PROVE  p = q
  <2> HIDE DEF Upto
  <2>1. /\ NewIndex(kept, p) \in 1 .. c /\ NewIndex(kept, q) \in 1 .. c
    BY <1>2
  <2>2. p \in Int /\ q \in Int
    BY DEF Places
  <2>3. ~(p < q) /\ ~(q < p)
    BY <1>1, <1>3, <1>4, <2>1
  <2> QED
    BY <2>2, <2>3
<1> HIDE DEF Upto
<1>5. f \in Injection(kept, 1 .. c)
  BY <1>2, <1>4 DEF Injection, IsInjective
<1>6. IsFiniteSet(1 .. c) /\ Cardinality(1 .. c) = c
  BY <1>1, FS_Interval
<1>7. f \in Surjection(kept, 1 .. c)
  <2> HIDE DEF f
  <2>1. Cardinality(kept) = Cardinality(1 .. c)
    BY <1>6 DEF c
  <2> QED
    BY <1>5, <1>6, <2>1, FS_Injection
<1>8. \A k \in 1 .. c : \E p \in kept : NewIndex(kept, p) = k
  BY <1>7 DEF Surjection
<1>9. \A k \in 1 .. c :
        Nth(kept, k) \in kept /\ NewIndex(kept, Nth(kept, k)) = k
  BY <1>8 DEF Nth
<1>10. \A p \in kept : Nth(kept, NewIndex(kept, p)) = p
  BY <1>2, <1>4, <1>9
<1> QED
  BY <1>1, <1>2, <1>3, <1>9, <1>10 DEF c

\* Compacting keeps the entries at the kept positions, in their order.
LEMMA OnlyFits ==
  ASSUME NEW S, NEW kept, Places(kept), NEW s,
         \A p \in kept : s[p] \in S
  PROVE  Only(s, kept) \in [1 .. Cardinality(kept) -> S]
BY Positions DEF Only

\* Compacting brings no new value.
LEMMA OnlyValues ==
  ASSUME NEW kept, Places(kept), NEW s
  PROVE  /\ \A p \in kept : Only(s, kept)[NewIndex(kept, p)] = s[p]
         /\ \A k \in 1 .. Cardinality(kept) :
              Only(s, kept)[k] = s[Nth(kept, k)]
BY Positions DEF Only

\* An optional array grows with its owner: absent, or longer by the new
\* entries.
LEMMA GrownFits ==
  ASSUME NEW S, NULL \notin Seq(S), NEW n \in Nat, NEW k \in Nat,
         NEW v \in S, NEW s, Optional(s, n, S)
  PROVE  /\ Optional(Grown(s, k, v), n + k, S)
         /\ s = NULL => Grown(s, k, v) = NULL
         /\ s # NULL => /\ Grown(s, k, v) # NULL
                        /\ Grown(s, k, v) \in [1 .. n + k -> S]
                        /\ \A i \in 1 .. n : Grown(s, k, v)[i] = s[i]
                        /\ \A i \in 1 .. k : Grown(s, k, v)[n + i] = v
<1>1. CASE s = NULL
  BY <1>1 DEF Grown, Optional
<1>2. CASE s # NULL
  <2> DEFINE t == [i \in 1 .. k |-> v]
  <2>1. s \in [1 .. n -> S] /\ t \in [1 .. k -> S]
    BY <1>2 DEF Optional
  <2>2. Grown(s, k, v) = s \o t
    BY <1>2 DEF Grown
  <2>3. \A i \in 1 .. k : t[i] = v
    OBVIOUS
  <2> HIDE DEF t
  <2>4. s \o t \in [1 .. n + k -> S]
    BY <2>1, Joined
  <2>6. \A i \in 1 .. n : (s \o t)[i] = s[i]
    BY <2>1, Joined
  <2>7. \A i \in 1 .. k : (s \o t)[n + i] = t[i]
    BY <2>1, Joined
  <2>5. s \o t \in Seq(S)
    <3>1. n + k \in Nat
      OBVIOUS
    <3> QED
      BY <2>4, <3>1, ArrayIsSeq
  <2> QED
    BY <1>2, <2>2, <2>3, <2>4, <2>5, <2>6, <2>7 DEF Optional
<1> QED
  BY <1>1, <1>2

\* What the arrays refer to is there.
LEMMA ShapeRefers ==
  ASSUME NEW mm, NEW next \in Nat, Shape(mm, next)
  PROVE  /\ Range(mm.col) \subseteq Nat /\ Range(mm.row) \subseteq Nat
         /\ EntriesOf(mm) \subseteq Range(mm.row) \X Range(mm.col)
         /\ AlteredOf(mm) \subseteq Nat
         /\ Holders(mm, mm.integer) \subseteq Range(mm.col)
         /\ Holders(mm, mm.semi) \subseteq Range(mm.col)
         /\ Holders(mm, mm.quad) \subseteq Range(mm.col)
         /\ PairsOf(mm) \subseteq Range(mm.col) \X Range(mm.col)
         /\ IndOf(mm) \subseteq Range(mm.row) \X Range(mm.col) \X {0, 1}
         /\ \A t, u \in IndOf(mm) : t[1] = u[1] => t = u
         /\ Members(mm, mm.sos) \subseteq Nat \X Range(mm.col) \X Nat
         /\ Members(mm, mm.cone) \subseteq Nat \X Range(mm.col) \X Nat
         /\ RowQuadOf(mm) \subseteq
              Range(mm.row) \X Range(mm.col) \X Range(mm.col)
<1> DEFINE n == Len(mm.col)
           k == Len(mm.row)
<1>1. /\ n \in Nat /\ DOMAIN mm.col = 1 .. n
      /\ k \in Nat /\ DOMAIN mm.row = 1 .. k
      /\ \A j \in 1 .. n : mm.col[j] \in Range(mm.col) /\ mm.col[j] \in Nat
      /\ \A i \in 1 .. k : mm.row[i] \in Range(mm.row) /\ mm.row[i] \in Nat
      /\ Range(mm.col) \subseteq Nat /\ Range(mm.row) \subseteq Nat
  <2>1. mm.col \in Seq(1 .. next - 1) /\ mm.row \in Seq(1 .. next - 1)
    BY DEF Shape, TagsFit
  <2>2. /\ n \in Nat /\ DOMAIN mm.col = 1 .. n
        /\ mm.col \in [1 .. n -> 1 .. next - 1]
    BY <2>1, SeqIsArray
  <2>3. /\ k \in Nat /\ DOMAIN mm.row = 1 .. k
        /\ mm.row \in [1 .. k -> 1 .. next - 1]
    BY <2>1, SeqIsArray
  <2>4. 1 .. next - 1 \subseteq Nat
    OBVIOUS
  <2> QED
    BY <2>2, <2>3, <2>4 DEF Range
<1>2. ColsFit(mm, n, k) /\ RowsFit(mm, n, k) /\ ConesFit(mm, n, next)
  BY DEF Shape
<1> HIDE DEF n, k
<1>3. EntriesOf(mm) \subseteq Range(mm.row) \X Range(mm.col)
  <2>1. \A j \in 1 .. n : mm.a[j] \subseteq 1 .. k
    BY <1>2 DEF ColsFit
  <2> QED
    BY <1>1, <2>1 DEF EntriesOf
<1>4. ASSUME NEW s, Optional(s, n, BOOLEAN)
      PROVE  Holders(mm, s) \subseteq Range(mm.col)
  BY <1>1, <1>4 DEF Holders, Optional
<1>5. /\ Holders(mm, mm.integer) \subseteq Range(mm.col)
      /\ Holders(mm, mm.semi) \subseteq Range(mm.col)
      /\ Holders(mm, mm.quad) \subseteq Range(mm.col)
  BY <1>2, <1>4 DEF ColsFit
<1>6. AlteredOf(mm) \subseteq Nat
  <2>1. DOMAIN mm.cost = 1 .. n
    BY <1>2 DEF ColsFit
  <2>2. Holders(mm, mm.cost) \subseteq Nat
    BY <1>1, <2>1 DEF Holders
  <2> QED
    BY <1>1, <2>2 DEF AlteredOf
<1>7. PairsOf(mm) \subseteq Range(mm.col) \X Range(mm.col)
  BY <1>1, <1>2 DEF PairsOf, ColsFit
<1>8. /\ IndOf(mm) \subseteq Range(mm.row) \X Range(mm.col) \X {0, 1}
      /\ \A t, u \in IndOf(mm) : t[1] = u[1] => t = u
  <2>1. CASE mm.ind = NULL
    BY <2>1 DEF IndOf
  <2>2. CASE mm.ind # NULL
    <3>0. mm.ind \in [1 .. k -> Indicators(n)]
      BY <1>2, <2>2 DEF RowsFit, Optional
    <3>1. \A i \in 1 .. k : /\ mm.ind[i].col \in 0 .. n
                           /\ mm.ind[i].val \in {0, 1}
      BY <3>0 DEF Indicators
    <3>2. ASSUME NEW t \in IndOf(mm)
          PROVE  \E i \in 1 .. k :
                   /\ mm.ind[i].col \in 1 .. n
                   /\ t = <<mm.row[i], mm.col[mm.ind[i].col], mm.ind[i].val>>
      <4>1. PICK i \in DOMAIN mm.row :
              /\ mm.ind[i].col > 0
              /\ t = <<mm.row[i], mm.col[mm.ind[i].col], mm.ind[i].val>>
        BY <2>2 DEF IndOf
      <4>2. i \in 1 .. k /\ mm.ind[i].col \in 1 .. n
        BY <1>1, <3>1, <4>1
      <4> QED
        BY <4>1, <4>2
    <3>3. IsInjective(mm.row)
      BY DEF Shape, TagsFit
    <3>4. IndOf(mm) \subseteq Range(mm.row) \X Range(mm.col) \X {0, 1}
      <4> SUFFICES ASSUME NEW t \in IndOf(mm)
                   PROVE  t \in Range(mm.row) \X Range(mm.col) \X {0, 1}
        OBVIOUS
      <4>1. PICK i \in 1 .. k :
              /\ mm.ind[i].col \in 1 .. n
              /\ t = <<mm.row[i], mm.col[mm.ind[i].col], mm.ind[i].val>>
        BY <3>2
      <4>2. /\ mm.row[i] \in Range(mm.row) /\ mm.ind[i].val \in {0, 1}
            /\ mm.col[mm.ind[i].col] \in Range(mm.col)
        BY <1>1, <3>1, <4>1
      <4> QED
        BY <4>1, <4>2
    <3>5. ASSUME NEW t \in IndOf(mm), NEW u \in IndOf(mm), t[1] = u[1]
          PROVE  t = u
      <4>1. PICK i \in 1 .. k :
              t = <<mm.row[i], mm.col[mm.ind[i].col], mm.ind[i].val>>
        BY <3>2
      <4>2. PICK j \in 1 .. k :
              u = <<mm.row[j], mm.col[mm.ind[j].col], mm.ind[j].val>>
        BY <3>2
      <4>3. i = j
        BY <1>1, <3>3, <3>5, <4>1, <4>2 DEF IsInjective
      <4> QED
        BY <4>1, <4>2, <4>3
    <3> QED
      BY <3>4, <3>5
  <2> QED
    BY <2>1, <2>2
<1>9. ASSUME NEW sets, SetsFit(sets, n, next)
      PROVE  Members(mm, sets) \subseteq Nat \X Range(mm.col) \X Nat
  <2> SUFFICES ASSUME NEW p \in DOMAIN sets, NEW t \in DOMAIN sets[p].col
               PROVE  <<sets[p].tag, mm.col[sets[p].col[t]],
                        sets[p].weight[t]>> \in Nat \X Range(mm.col) \X Nat
    BY DEF Members, Range
  <2>1. sets[p].tag \in Nat /\ sets[p].weight[t] \in Nat
    BY <1>9 DEF SetsFit, SetFits
  <2>2. sets[p].col \in Seq(1 .. n)
    BY <1>9 DEF SetsFit, SetFits
  <2>3. sets[p].col[t] \in 1 .. n
    BY <2>2, SeqIsArray
  <2> QED
    BY <1>1, <2>1, <2>3
<1>10. RowQuadOf(mm) \subseteq Range(mm.row) \X Range(mm.col) \X Range(mm.col)
  <2>1. CASE mm.rq = NULL
    BY <2>1 DEF RowQuadOf
  <2>2. CASE mm.rq # NULL
    <3>1. /\ DOMAIN mm.rq = 1 .. k
          /\ \A i \in 1 .. k : mm.rq[i] \subseteq (1 .. n) \X (1 .. n)
      BY <1>2, <2>2 DEF RowsFit, Optional
    <3>2. ASSUME NEW i \in 1 .. k, NEW p \in mm.rq[i]
          PROVE  <<mm.row[i], mm.col[p[1]], mm.col[p[2]]>>
                   \in Range(mm.row) \X Range(mm.col) \X Range(mm.col)
      BY <1>1, <3>1
    <3> QED
      BY <2>2, <3>1, <3>2 DEF RowQuadOf
  <2> QED
    BY <2>1, <2>2
<1>11. /\ Members(mm, mm.sos) \subseteq Nat \X Range(mm.col) \X Nat
       /\ Members(mm, mm.cone) \subseteq Nat \X Range(mm.col) \X Nat
  BY <1>2, <1>9 DEF ConesFit
<1> QED
  BY <1>1, <1>3, <1>5, <1>6, <1>7, <1>8, <1>10, <1>11

-----------------------------------------------------------------------------
\* Edits in place.

\* What a model with the columns and rows of m may hold.
DataFits(new) ==
    /\ DOMAIN new = Fields /\ DOMAIN new.name = {"col", "row"}
    /\ new.col = m.col /\ new.row = m.row
    /\ new.sense \in BOOLEAN
    /\ ColsFit(new, NumCol, NumRow)
    /\ RowsFit(new, NumCol, NumRow)

\* The counts of columns and rows are the lengths of the tags.
LEMMA SizesAreNat ==
  ASSUME NEW mm, NEW next, Shape(mm, next)
  PROVE  /\ Len(mm.col) \in Nat /\ Len(mm.row) \in Nat
         /\ DOMAIN mm.col = 1 .. Len(mm.col)
         /\ DOMAIN mm.row = 1 .. Len(mm.row)
         /\ mm.col \in [1 .. Len(mm.col) -> 1 .. next - 1]
         /\ mm.row \in [1 .. Len(mm.row) -> 1 .. next - 1]
BY SeqIsArray DEF Shape, TagsFit

\* An edit that replaces members of the right lengths keeps the shape.
LEMMA DataShape ==
  ASSUME fresh \in Nat, Shape(m, fresh), NEW new, DataFits(new),
         new.sos = m.sos, new.cone = m.cone
  PROVE  Shape(new, fresh)
<1>1. TagsFit(new, fresh)
  BY DEF Shape, TagsFit, DataFits
<1>2. ConesFit(new, Len(new.col), fresh)
  BY DEF Shape, DataFits, ConesFit
<1> QED
  BY <1>1, <1>2 DEF Shape, DataFits, NumCol, NumRow

\* Tags may be given out.
LEMMA TagsGrow ==
  ASSUME NEW mm, NEW a \in Nat, NEW b \in Nat, a <= b, Shape(mm, a)
  PROVE  Shape(mm, b)
<1>1. 1 .. a - 1 \subseteq 1 .. b - 1
  OBVIOUS
<1>2. TagsFit(mm, b)
  <2>1. mm.col \in Seq(1 .. b - 1) /\ mm.row \in Seq(1 .. b - 1)
    <3>1. /\ Len(mm.col) \in Nat /\ Len(mm.row) \in Nat
          /\ mm.col \in [1 .. Len(mm.col) -> 1 .. b - 1]
          /\ mm.row \in [1 .. Len(mm.row) -> 1 .. b - 1]
      BY <1>1, SizesAreNat
    <3> QED
      BY <3>1, ArrayIsSeq
  <2> QED
    BY <2>1 DEF Shape, TagsFit
<1>3. ConesFit(mm, Len(mm.col), b)
  <2>1. ASSUME NEW sets, SetsFit(sets, Len(mm.col), a)
        PROVE  SetsFit(sets, Len(mm.col), b)
    BY <1>1, <2>1 DEF SetsFit, SetFits
  <2> QED
    BY <2>1 DEF Shape, ConesFit
<1> QED
  BY <1>2, <1>3 DEF Shape

\* A new array holds FALSE everywhere.
LEMMA BlankFits ==
  ASSUME NEW n \in Nat
  PROVE  Blank(n) \in [1 .. n -> BOOLEAN]
BY DEF Blank

\* Costs, bounds, senses, marks and coefficients are set in place.
LEMMA AttributesKeepShape ==
  ASSUME fresh \in Nat, Shape(m, fresh), Attributes PROVE Shape(m', fresh')
<1> USE DEF Edits, Fields
<1>0. NumCol \in Nat /\ NumRow \in Nat
  BY SizesAreNat DEF NumCol, NumRow
<1>1. /\ DOMAIN m = Fields /\ DOMAIN m.name = {"col", "row"}
      /\ m.sense \in BOOLEAN
      /\ ColsFit(m, NumCol, NumRow) /\ RowsFit(m, NumCol, NumRow)
  BY DEF Shape, NumCol, NumRow
<1>2. ASSUME NEW new, m' = new, UNCHANGED fresh, DataFits(new),
             new.sos = m.sos, new.cone = m.cone
      PROVE  Shape(m', fresh')
  BY <1>2, DataShape
<1>3. ASSUME NEW code, Refuse(code) PROVE Shape(m', fresh')
  BY <1>3 DEF Refuse
<1>4. ASSUME NEW j \in Cols, SetColNumbers(j) PROVE Shape(m', fresh')
  <2> DEFINE new == [m EXCEPT !.cost[j] = ~@]
  <2>1. new.cost \in [Cols -> BOOLEAN]
    BY <1>1 DEF ColsFit, Cols
  <2>2. DataFits(new) /\ new.sos = m.sos /\ new.cone = m.cone
    BY <1>1, <2>1 DEF DataFits, ColsFit, RowsFit, Cols
  <2> QED
    BY <1>2, <1>4, <2>2 DEF SetColNumbers
<1>5. ASSUME NEW i \in Rows, SetRowBounds(i) PROVE Shape(m', fresh')
  <2> DEFINE new == [m EXCEPT !.bound[i] = ~@]
  <2>1. new.bound \in [Rows -> BOOLEAN]
    BY <1>1 DEF RowsFit, Rows
  <2>2. DataFits(new) /\ new.sos = m.sos /\ new.cone = m.cone
    BY <1>1, <2>1 DEF DataFits, ColsFit, RowsFit, Rows
  <2> QED
    BY <1>2, <1>5, <2>2 DEF SetRowBounds
<1>6. CASE SetObjective
  <2> DEFINE new == [m EXCEPT !.sense = ~@]
  <2>2. DataFits(new) /\ new.sos = m.sos /\ new.cone = m.cone
    BY <1>1 DEF DataFits, ColsFit, RowsFit
  <2> QED
    BY <1>2, <1>6, <2>2 DEF SetObjective
<1>7. ASSUME NEW i \in Rows, NEW j \in Cols, NEW zero \in BOOLEAN,
             SetCoefficient(i, j, zero)
      PROVE  Shape(m', fresh')
  <2> DEFINE new == [m EXCEPT
               !.a[j] = IF zero THEN @ \ {i} ELSE @ \cup {i},
               !.cost[j] = IF i \in m.a[j] /\ ~zero THEN ~@ ELSE @]
  <2>1. /\ new.cost \in [Cols -> BOOLEAN]
        /\ new.a \in [Cols -> SUBSET Rows]
    BY <1>1 DEF ColsFit, Cols, Rows
  <2>2. DataFits(new) /\ new.sos = m.sos /\ new.cone = m.cone
    BY <1>1, <2>1 DEF DataFits, ColsFit, RowsFit, Cols, Rows
  <2> QED
    BY <1>2, <1>3, <1>7, <2>2 DEF SetCoefficient, Nothing, OutOfMemory
<1>8. ASSUME NEW f \in {"integer", "semi", "quad"}, NEW s,
             Optional(s, NumCol, BOOLEAN)
      PROVE  LET new == [m EXCEPT ![f] = s]
             IN  DataFits(new) /\ new.sos = m.sos /\ new.cone = m.cone
  BY <1>1, <1>8 DEF DataFits, ColsFit, RowsFit
<1>9. ASSUME NEW s, Optional(s, NumCol, BOOLEAN), NEW j \in Cols,
             NEW on \in BOOLEAN
      PROVE  Optional([(IF s = NULL THEN Blank(NumCol) ELSE s) EXCEPT ![j] = on],
                      NumCol, BOOLEAN)
  BY <1>0, <1>9, BlankFits DEF Optional, Cols
<1>10. ASSUME NEW j \in Cols, NEW on \in BOOLEAN, SetInteger(j, on)
       PROVE  Shape(m', fresh')
  <2> DEFINE s == [(IF m.integer = NULL THEN Blank(NumCol) ELSE m.integer)
                     EXCEPT ![j] = on]
             new == [m EXCEPT !["integer"] = s]
  <2>1. Optional(s, NumCol, BOOLEAN)
    BY <1>1, <1>9 DEF ColsFit
  <2>2. DataFits(new) /\ new.sos = m.sos /\ new.cone = m.cone
    BY <1>8, <2>1
  <2> QED
    BY <1>2, <1>3, <1>10, <2>2
       DEF SetInteger, Nothing, OutOfMemory, Invalid
<1>11. ASSUME NEW j \in Cols, NEW on \in BOOLEAN, SetColQuadratic(j, on)
       PROVE  Shape(m', fresh')
  <2> DEFINE s == [(IF m.quad = NULL THEN Blank(NumCol) ELSE m.quad)
                     EXCEPT ![j] = on]
             new == [m EXCEPT !["quad"] = s]
  <2>1. Optional(s, NumCol, BOOLEAN)
    BY <1>1, <1>9 DEF ColsFit
  <2>2. DataFits(new) /\ new.sos = m.sos /\ new.cone = m.cone
    BY <1>8, <2>1
  <2> QED
    BY <1>2, <1>3, <1>11, <2>2 DEF SetColQuadratic, Nothing, OutOfMemory
<1>12. ASSUME NEW terms \in Terms, SetQuadratic(terms)
       PROVE  Shape(m', fresh')
  <2> DEFINE s == IF \E j \in Cols : <<j, j>> \in terms
                  THEN [j \in Cols |-> <<j, j>> \in terms] ELSE NULL
             q == {p \in terms : p[1] # p[2]}
             new == [m EXCEPT !.quad = s, !.q = q]
  <2>1. CASE Invalid \/ OutOfMemory
    BY <1>3, <2>1 DEF Invalid, OutOfMemory
  <2>2. CASE terms \subseteq Cols \X Cols /\ m' = new /\ UNCHANGED fresh
    <3>1. Optional(s, NumCol, BOOLEAN)
      BY DEF Optional, Cols
    <3>2. q \subseteq Cols \X Cols /\ \A p \in q : p[1] > p[2]
      <4>1. \A p \in terms : p[1] >= p[2]
        BY ModelStoreAssumption
      <4>2. \A p \in q : p[1] \in Int /\ p[2] \in Int
        BY <1>0, <2>2 DEF Cols
      <4> QED
        BY <2>2, <4>1, <4>2
    <3> HIDE DEF s, q
    <3>3. DataFits(new) /\ new.sos = m.sos /\ new.cone = m.cone
      BY <1>1, <3>1, <3>2 DEF DataFits, ColsFit, RowsFit, Cols
    <3> QED
      BY <1>2, <2>2, <3>3
  <2> QED
    BY <1>12, <2>1, <2>2 DEF SetQuadratic
<1>13. ASSUME NEW j \in Cols, NEW on \in BOOLEAN, SetSemi(j, on)
       PROVE  Shape(m', fresh')
  <2> DEFINE semis == IF m.semi = NULL /\ on THEN Blank(NumCol) ELSE m.semi
             integers == IF m.integer = NULL /\ on THEN Blank(NumCol)
                         ELSE m.integer
             made == [m EXCEPT !.semi = semis, !.integer = integers]
             half == [m EXCEPT !.semi = semis]
             full == [made EXCEPT !.semi[j] = on]
  <2>1. Optional(semis, NumCol, BOOLEAN) /\ Optional(integers, NumCol, BOOLEAN)
    BY <1>0, <1>1, BlankFits DEF ColsFit, Optional
  <2>2. CASE OutOfMemory
    BY <1>3, <2>2 DEF OutOfMemory
  <2>4. CASE /\ m' = full /\ UNCHANGED fresh /\ Marked(semis, j) # on
    <3>1. semis \in [Cols -> BOOLEAN]
      <4>1. CASE on
        BY <1>0, <1>1, <4>1, BlankFits DEF ColsFit, Optional, Cols
      <4>2. CASE ~on
        BY <2>1, <2>4, <4>2 DEF Marked, Optional, Cols
      <4> QED
        BY <4>1, <4>2
    <3>2. full.semi = [semis EXCEPT ![j] = on] /\ full.integer = integers
      BY <1>1
    <3>3. Optional(full.semi, NumCol, BOOLEAN)
      BY <3>1, <3>2 DEF Optional, Cols
    <3> HIDE DEF semis, integers
    <3>4. DataFits(full) /\ full.sos = m.sos /\ full.cone = m.cone
      BY <1>1, <2>1, <3>2, <3>3 DEF DataFits, ColsFit, RowsFit, Cols
    <3> QED
      BY <1>2, <2>4, <3>4
  <2>5. CASE m' \in {made, half} /\ UNCHANGED fresh
    <3> HIDE DEF semis, integers
    <3>1. \A new \in {made, half} :
            DataFits(new) /\ new.sos = m.sos /\ new.cone = m.cone
      BY <1>1, <2>1 DEF DataFits, ColsFit, RowsFit, Cols
    <3> QED
      BY <1>2, <2>5, <3>1
  <2> QED
    BY <1>13, <2>2, <2>4, <2>5 DEF SetSemi
<1> QED
  BY <1>4, <1>5, <1>6, <1>7, <1>10, <1>11, <1>12, <1>13 DEF Attributes

\* Sets stay in place when columns arrive and tags are given out.
LEMMA SetsWider ==
  ASSUME NEW n \in Nat, NEW k \in Nat, n <= k,
         NEW a \in Nat, NEW b \in Nat, a <= b,
         NEW sets, SetsFit(sets, n, a)
  PROVE  SetsFit(sets, k, b)
<1>1. 1 .. n \subseteq 1 .. k /\ 1 .. a - 1 \subseteq 1 .. b - 1
  OBVIOUS
<1>2. ASSUME NEW s, SetFits(s, n, a) PROVE SetFits(s, k, b)
  <2>1. s.col \in Seq(1 .. n)
    BY <1>2 DEF SetFits
  <2>2. Len(s.col) \in Nat /\ s.col \in [1 .. Len(s.col) -> 1 .. n]
    BY <2>1, SeqIsArray
  <2>3. s.col \in [1 .. Len(s.col) -> 1 .. k]
    BY <1>1, <2>2
  <2>4. s.col \in Seq(1 .. k)
    BY <2>2, <2>3, ArrayIsSeq
  <2> QED
    BY <1>1, <1>2, <2>4 DEF SetFits
<1> QED
  BY <1>2 DEF SetsFit

\* A set or cone is added behind the others.
LEMMA SetsAppend ==
  ASSUME NEW n, NEW next, NEW sets, SetsFit(sets, n, next),
         NEW s, SetFits(s, n, next)
  PROVE  /\ SetsFit(Append(sets, s), n, next)
         /\ Len(sets) \in Nat /\ DOMAIN sets = 1 .. Len(sets)
         /\ DOMAIN Append(sets, s) = 1 .. Len(sets) + 1
         /\ \A k \in 1 .. Len(sets) : Append(sets, s)[k] = sets[k]
         /\ Append(sets, s)[Len(sets) + 1] = s
<1> DEFINE S == Range(sets) \cup {s}
           new == Append(sets, s)
<1>1. /\ Len(sets) \in Nat /\ DOMAIN sets = 1 .. Len(sets)
      /\ sets \in [1 .. Len(sets) -> Range(sets)]
  BY SeqIsArray DEF SetsFit
<1>2. sets \in [1 .. Len(sets) -> S]
  BY <1>1
<1>3. sets \in Seq(S) /\ s \in S
  BY <1>1, <1>2, ArrayIsSeq
<1> HIDE DEF S
<1>4. /\ new \in Seq(S) /\ Len(new) = Len(sets) + 1
      /\ \A k \in 1 .. Len(sets) : new[k] = sets[k]
      /\ new[Len(sets) + 1] = s
  BY <1>3, AppendProperties
<1>5. DOMAIN new = 1 .. Len(sets) + 1
  BY <1>4, SeqIsArray
<1> HIDE DEF new
<1>6. new \in Seq(Range(new))
  <2>1. new \in [1 .. Len(sets) + 1 -> Range(new)]
    BY <1>4, <1>5, SeqIsArray DEF Range
  <2>2. Len(sets) + 1 \in Nat
    BY <1>1
  <2> QED
    BY <2>1, <2>2, ArrayIsSeq
<1>7. \A k \in DOMAIN new : SetFits(new[k], n, next)
  <2> SUFFICES ASSUME NEW k \in DOMAIN new PROVE SetFits(new[k], n, next)
    OBVIOUS
  <2>1. k \in 1 .. Len(sets) \/ k = Len(sets) + 1
    BY <1>1, <1>5
  <2> QED
    BY <1>1, <1>4, <2>1 DEF SetsFit
<1> QED
  BY <1>1, <1>4, <1>5, <1>6, <1>7 DEF SetsFit, new

\* So do the quadratic part, the sets, the cones and the indicators.
LEMMA StructureKeepsShape ==
  ASSUME fresh \in Nat \ {0}, Shape(m, fresh), Structure
  PROVE  Shape(m', fresh')
<1> USE DEF Edits, Fields
<1>0. NumCol \in Nat /\ NumRow \in Nat
  BY SizesAreNat DEF NumCol, NumRow
<1>1. /\ DOMAIN m = Fields /\ DOMAIN m.name = {"col", "row"}
      /\ m.sense \in BOOLEAN
      /\ ColsFit(m, NumCol, NumRow) /\ RowsFit(m, NumCol, NumRow)
      /\ ConesFit(m, NumCol, fresh)
  BY DEF Shape, NumCol, NumRow
<1>2. ASSUME NEW new, m' = new, UNCHANGED fresh, DataFits(new),
             new.sos = m.sos, new.cone = m.cone
      PROVE  Shape(m', fresh')
  BY <1>2, DataShape
<1>3. ASSUME NEW code, Refuse(code) PROVE Shape(m', fresh')
  BY <1>3 DEF Refuse
<1>4. /\ fresh + 1 \in Nat /\ fresh <= fresh + 1
      /\ SetsFit(m.sos, NumCol, fresh + 1) /\ SetsFit(m.cone, NumCol, fresh + 1)
  <2>1. SetsFit(m.sos, NumCol, fresh) /\ SetsFit(m.cone, NumCol, fresh)
    BY <1>1 DEF ConesFit
  <2>2. fresh \in Nat /\ fresh + 1 \in Nat /\ fresh <= fresh + 1
        /\ NumCol <= NumCol
    BY <1>0
  <2> QED
    BY <1>0, <2>1, <2>2, SetsWider
<1>5. ASSUME NEW col \in Lists, CanBeSet(col)
      PROVE  SetFits(Set(col), NumCol, fresh + 1) /\ Set(col).tag = fresh
  <2>1. col \in Seq(Nat)
    BY ModelStoreAssumption
  <2>2. Len(col) \in Nat /\ DOMAIN col = 1 .. Len(col)
    BY <2>1, SeqIsArray
  <2>3. col \in [1 .. Len(col) -> 1 .. NumCol]
    <3>1. \A t \in DOMAIN col : col[t] \in 1 .. NumCol
      BY <1>5 DEF CanBeSet, Range, Cols
    <3>2. col \in [1 .. Len(col) -> Nat]
      BY <2>1, SeqIsArray
    <3> QED
      BY <2>2, <3>1, <3>2
  <2>4. col \in Seq(1 .. NumCol)
    BY <2>2, <2>3, ArrayIsSeq
  <2> QED
    BY <2>2, <2>4 DEF SetFits, Set
<1>6. TagsFit(m, fresh + 1)
  BY <1>4, TagsGrow DEF Shape
<1>7. ASSUME NEW new, WithTag(new), DataFits(new), ConesFit(new, NumCol, fresh + 1)
      PROVE  Shape(m', fresh')
  <2>1. TagsFit(new, fresh + 1)
    BY <1>6, <1>7 DEF TagsFit, DataFits
  <2> QED
    BY <1>7, <2>1 DEF Shape, DataFits, WithTag, NumCol, NumRow
<1>8. ASSUME NEW col \in Lists, AddSos(col) PROVE Shape(m', fresh')
  <2> DEFINE marks == IF m.integer = NULL THEN Blank(NumCol) ELSE m.integer
             sos == Append(m.sos, Set(col))
             new == [m EXCEPT !.sos = sos, !.integer = marks]
  <2>1. CASE CanBeSet(col) /\ WithTag(new)
    <3>1. Optional(marks, NumCol, BOOLEAN)
      BY <1>0, <1>1, BlankFits DEF ColsFit, Optional
    <3>2. SetsFit(sos, NumCol, fresh + 1)
      BY <1>4, <1>5, <2>1, SetsAppend
    <3> HIDE DEF sos, marks
    <3>3. DataFits(new) /\ new.sos = sos /\ new.cone = m.cone
      BY <1>1, <3>1 DEF DataFits, ColsFit, RowsFit
    <3>4. ConesFit(new, NumCol, fresh + 1)
      BY <1>1, <1>4, <3>2, <3>3 DEF ConesFit
    <3> QED
      BY <1>7, <2>1, <3>3, <3>4
  <2> QED
    BY <1>3, <1>8, <2>1 DEF AddSos, Invalid, OutOfMemory
<1>9. ASSUME NEW col \in Lists, AddCone(col) PROVE Shape(m', fresh')
  <2> DEFINE cone == Append(m.cone, Set(col))
             new == [m EXCEPT !.cone = cone]
  <2>1. CASE CanBeSet(col) /\ WithTag(new)
    <3>1. SetsFit(cone, NumCol, fresh + 1)
      BY <1>4, <1>5, <2>1, SetsAppend
    <3>2. \A k, l \in DOMAIN cone : cone[k].tag = cone[l].tag => k = l
      <4>1. /\ Len(m.cone) \in Nat /\ DOMAIN m.cone = 1 .. Len(m.cone)
            /\ DOMAIN cone = 1 .. Len(m.cone) + 1
            /\ \A k \in 1 .. Len(m.cone) : cone[k] = m.cone[k]
            /\ cone[Len(m.cone) + 1] = Set(col)
        BY <1>4, <1>5, <2>1, SetsAppend
      <4>2. \A k \in 1 .. Len(m.cone) : m.cone[k].tag \in 1 .. fresh - 1
        BY <1>1, <4>1 DEF ConesFit, SetsFit, SetFits
      <4>3. /\ \A k \in 1 .. Len(m.cone) : cone[k].tag # fresh
            /\ cone[Len(m.cone) + 1].tag = fresh
        BY <1>5, <2>1, <4>1, <4>2
      <4>4. \A k, l \in 1 .. Len(m.cone) : cone[k].tag = cone[l].tag => k = l
        BY <1>1, <4>1 DEF ConesFit
      <4>5. \A k \in DOMAIN cone : k \in 1 .. Len(m.cone) \/ k = Len(m.cone) + 1
        BY <4>1
      <4> QED
        BY <4>3, <4>4, <4>5
    <3> HIDE DEF cone
    <3>3. DataFits(new) /\ new.sos = m.sos /\ new.cone = cone
      BY <1>1 DEF DataFits, ColsFit, RowsFit
    <3>4. ConesFit(new, NumCol, fresh + 1)
      BY <1>1, <1>4, <3>1, <3>2, <3>3 DEF ConesFit
    <3> QED
      BY <1>7, <2>1, <3>3, <3>4
  <2> QED
    BY <1>3, <1>9, <2>1 DEF AddCone, Invalid, OutOfMemory
<1>10. ASSUME NEW i \in Rows, NEW j \in {0} \cup Cols, SetIndicator(i, j, 1)
       PROVE  Shape(m', fresh')
  <2> DEFINE NoInd == [m EXCEPT !.ind[i].col = 0]
             ind == [(IF m.ind = NULL THEN [r \in Rows |-> NoIndicator]
                      ELSE m.ind) EXCEPT ![i] = [col |-> j, val |-> 1]]
             new == [m EXCEPT !.ind = ind]
  <2>1. CASE m' = NoInd /\ UNCHANGED fresh /\ m.ind # NULL
    <3>1. m.ind \in [Rows -> Indicators(NumCol)]
      BY <1>1, <2>1 DEF RowsFit, Optional, Rows
    <3>2. NoInd.ind = [m.ind EXCEPT ![i].col = 0]
      BY <1>1
    <3>3. [m.ind EXCEPT ![i].col = 0] \in [Rows -> Indicators(NumCol)]
      BY <1>0, <3>1 DEF Indicators
    <3>4. Optional(NoInd.ind, NumRow, Indicators(NumCol))
      BY <3>2, <3>3 DEF Optional, Rows
    <3>5. DataFits(NoInd) /\ NoInd.sos = m.sos /\ NoInd.cone = m.cone
      BY <1>1, <3>4 DEF DataFits, ColsFit, RowsFit
    <3> QED
      BY <1>2, <2>1, <3>5
  <2>2. CASE m' = new /\ UNCHANGED fresh
    <3>1. [r \in Rows |-> NoIndicator] \in [Rows -> Indicators(NumCol)]
            /\ [col |-> j, val |-> 1] \in Indicators(NumCol)
      BY <1>0 DEF NoIndicator, Indicators, Cols
    <3>2. ind \in [Rows -> Indicators(NumCol)]
      BY <1>1, <3>1 DEF RowsFit, Optional, Rows
    <3>3. Optional(ind, NumRow, Indicators(NumCol))
      BY <3>2 DEF Optional, Rows
    <3> HIDE DEF ind
    <3>5. DataFits(new) /\ new.sos = m.sos /\ new.cone = m.cone
      BY <1>1, <3>3 DEF DataFits, ColsFit, RowsFit
    <3> QED
      BY <1>2, <2>2, <3>5
  <2> QED
    BY <1>3, <1>10, <2>1, <2>2
       DEF SetIndicator, Nothing, Invalid, OutOfMemory
<1>11. ASSUME NEW gone, DeleteCones(gone) PROVE Shape(m', fresh')
  <2> DEFINE kept == KeptOf(Len(m.cone), gone)
             cone == Only(m.cone, kept)
             new == [m EXCEPT !.cone = cone]
  <2>1. CASE m' = new /\ UNCHANGED fresh
    <3>1. /\ Len(m.cone) \in Nat /\ DOMAIN m.cone = 1 .. Len(m.cone)
          /\ \A k \in DOMAIN m.cone : SetFits(m.cone[k], NumCol, fresh)
          /\ \A k, l \in DOMAIN m.cone : m.cone[k].tag = m.cone[l].tag => k = l
      BY <1>1, SeqIsArray DEF ConesFit, SetsFit
    <3>2. kept \subseteq 1 .. Len(m.cone)
      BY DEF KeptOf
    <3>3. Places(kept)
      BY <3>1, <3>2, PlacesOf
    <3> HIDE DEF kept
    <3>4. /\ Cardinality(kept) \in Nat
          /\ \A k \in 1 .. Cardinality(kept) :
               Nth(kept, k) \in kept /\ NewIndex(kept, Nth(kept, k)) = k
      BY <3>3, Positions
    <3>5. /\ DOMAIN cone = 1 .. Cardinality(kept)
          /\ \A k \in 1 .. Cardinality(kept) : cone[k] = m.cone[Nth(kept, k)]
          /\ cone \in [1 .. Cardinality(kept) -> Range(cone)]
      BY DEF Only, Range
    <3> HIDE DEF cone
    <3>6. cone \in Seq(Range(cone))
      BY <3>4, <3>5, ArrayIsSeq
    <3>7. SetsFit(cone, NumCol, fresh)
      BY <3>1, <3>2, <3>4, <3>5, <3>6 DEF SetsFit
    <3>8. \A k, l \in DOMAIN cone : cone[k].tag = cone[l].tag => k = l
      <4> SUFFICES ASSUME NEW k \in DOMAIN cone, NEW l \in DOMAIN cone,
                          cone[k].tag = cone[l].tag
                   PROVE  k = l
        OBVIOUS
      <4>1. Nth(kept, k) = Nth(kept, l)
        <5>1. Nth(kept, k) \in DOMAIN m.cone /\ Nth(kept, l) \in DOMAIN m.cone
          BY <3>1, <3>2, <3>4, <3>5
        <5>2. cone[k] = m.cone[Nth(kept, k)] /\ cone[l] = m.cone[Nth(kept, l)]
          BY <3>5
        <5> QED
          BY <3>1, <5>1, <5>2
      <4> QED
        BY <3>4, <3>5, <4>1
    <3>9. DataFits(new) /\ new.sos = m.sos /\ new.cone = cone
      BY <1>1 DEF DataFits, ColsFit, RowsFit
    <3>10. ConesFit(new, NumCol, fresh)
      BY <1>1, <3>7, <3>8, <3>9 DEF ConesFit
    <3>11. TagsFit(new, fresh)
      BY <3>9 DEF Shape, TagsFit, DataFits
    <3> QED
      BY <2>1, <3>9, <3>10, <3>11 DEF Shape, DataFits, NumCol, NumRow
  <2> QED
    BY <1>3, <1>11, <2>1 DEF DeleteCones, OutOfMemory
<1>12. ASSUME NEW i \in Rows, NEW terms \in Terms, SetRowQuadratic(i, terms)
       PROVE  Shape(m', fresh')
  <2> DEFINE blank == [r \in Rows |-> {}]
             some == IF m.rq = NULL THEN blank ELSE m.rq
             part == [some EXCEPT ![i] = terms]
             half == [m EXCEPT !.rq = some]
             new == [m EXCEPT !.rq = part]
  <2>1. some \in [Rows -> SUBSET (Cols \X Cols)]
    BY <1>1 DEF RowsFit, Optional, Rows, Cols
  <2>2. ASSUME NEW rq \in [Rows -> SUBSET (Cols \X Cols)],
               m' = [m EXCEPT !.rq = rq], UNCHANGED fresh
        PROVE  Shape(m', fresh')
    <3> DEFINE n == [m EXCEPT !.rq = rq]
    <3>1. Optional(rq, NumRow, SUBSET (Cols \X Cols))
      BY <2>2 DEF Optional, Rows
    <3>2. DataFits(n) /\ n.sos = m.sos /\ n.cone = m.cone
      BY <1>1, <3>1 DEF DataFits, ColsFit, RowsFit, Cols
    <3> QED
      BY <1>2, <2>2, <3>2
  <2>3. terms \subseteq Cols \X Cols =>
          part \in [Rows -> SUBSET (Cols \X Cols)]
    BY <2>1
  <2>4. /\ half = [m EXCEPT !.rq = IF @ = NULL THEN blank ELSE @]
        /\ new = [m EXCEPT !.rq = [(IF @ = NULL THEN blank ELSE @)
                                     EXCEPT ![i] = terms]]
    OBVIOUS
  <2> HIDE DEF some, part
  <2> QED
    BY <1>3, <1>12, <2>1, <2>2, <2>3, <2>4
       DEF SetRowQuadratic, Invalid, OutOfMemory
<1> QED
  BY <1>8, <1>9, <1>10, <1>11, <1>12 DEF Structure

-----------------------------------------------------------------------------
\* Columns and rows appended.

\* An array grown from n to n + k entries, the new ones in S and v where v
\* is given.
LongerBy(t, s, n, k, S, v) ==
    /\ t \in [1 .. n + k -> S]
    /\ \A i \in 1 .. n : t[i] = s[i]
    /\ \A i \in 1 .. k : t[n + i] = v
GrownBy(t, s, n, k, S, v) ==
    /\ Optional(t, n + k, S)
    /\ s = NULL => t = NULL
    /\ s # NULL => t # NULL /\ LongerBy(t, s, n, k, S, v)

\* What Grown and the joined arrays are, as LongerBy says it.
LEMMA GrownIs ==
  ASSUME NEW S, NULL \notin Seq(S), NEW n \in Nat, NEW k \in Nat,
         NEW v \in S, NEW s, Optional(s, n, S)
  PROVE  GrownBy(Grown(s, k, v), s, n, k, S, v)
BY GrownFits DEF GrownBy, LongerBy

LEMMA JoinedIs ==
  ASSUME NEW S, NEW n \in Nat, NEW k \in Nat, NEW v \in S, NEW s,
         s \in [1 .. n -> S], NEW t, t = [i \in 1 .. k |-> v]
  PROVE  LongerBy(s \o t, s, n, k, S, v)
<1>1. t \in [1 .. k -> S] /\ \A i \in 1 .. k : t[i] = v
  OBVIOUS
<1>2. s \o t \in [1 .. n + k -> S]
  BY <1>1, Joined
<1>3. \A i \in 1 .. n : (s \o t)[i] = s[i]
  BY <1>1, Joined
<1>4. \A i \in 1 .. k : (s \o t)[n + i] = t[i]
  BY <1>1, Joined
<1> QED
  BY <1>1, <1>2, <1>3, <1>4 DEF LongerBy

\* Tags given out in order come after all that are there, each once.
TagsLonger(t, s, n, k) ==
    /\ t \in [1 .. n + k -> 1 .. fresh + k - 1]
    /\ Len(t) = n + k /\ t \in Seq(1 .. fresh + k - 1)
    /\ \A i \in 1 .. n : t[i] = s[i]
    /\ \A i \in 1 .. k : t[n + i] = fresh + i - 1

\* The tags of the new columns are fresh and in their order.
LEMMA TaggedIs ==
  ASSUME fresh \in Nat \ {0}, NEW n \in Nat, NEW k \in Nat, NEW s,
         s \in [1 .. n -> 1 .. fresh - 1]
  PROVE  TagsLonger(s \o Tagged(k), s, n, k)
<1> DEFINE S == 1 .. fresh + k - 1
           t == Tagged(k)
<1>1. 1 .. fresh - 1 \subseteq S /\ n + k \in Nat
  OBVIOUS
<1>2. t \in [1 .. k -> S] /\ \A i \in 1 .. k : t[i] = fresh + i - 1
  <2>1. \A i \in 1 .. k : fresh + i - 1 = fresh + (i - 1)
                           /\ fresh + i - 1 \in S
    OBVIOUS
  <2>2. \A i \in 1 .. k : fresh + i - 1 = (fresh + i) - 1
    OBVIOUS
  <2> QED
    BY <2>1, <2>2 DEF Tagged
<1>3. s \in [1 .. n -> S]
  BY <1>1
<1> HIDE DEF S, t
<1>4. s \o t \in [1 .. n + k -> S]
  BY <1>2, <1>3, Joined
<1>5. \A i \in 1 .. n : (s \o t)[i] = s[i]
  BY <1>2, <1>3, Joined
<1>6. \A i \in 1 .. k : (s \o t)[n + i] = t[i]
  <2>1. s \in [1 .. n -> S] /\ t \in [1 .. k -> S]
    BY <1>2, <1>3
  <2> QED
    BY <2>1, Joined
<1>7. s \o t \in Seq(S) /\ Len(s \o t) = n + k
  BY <1>1, <1>4, ArrayIsSeq
<1>8. \A i \in 1 .. k : (s \o t)[n + i] = fresh + i - 1
  BY <1>2, <1>6
<1> QED
  BY <1>4, <1>5, <1>7, <1>8 DEF TagsLonger, S, t

\* Tags stay distinct when they grow.
LEMMA TagsLongerFit ==
  ASSUME fresh \in Nat \ {0}, NEW n \in Nat, NEW k \in Nat,
         NEW s, s \in [1 .. n -> 1 .. fresh - 1], DOMAIN s = 1 .. n,
         IsInjective(s),
         NEW r \in Seq(1 .. fresh - 1), Range(s) \cap Range(r) = {},
         NEW t, TagsLonger(t, s, n, k)
  PROVE  /\ IsInjective(t) /\ Range(t) \cap Range(r) = {}
         /\ Range(t) = Range(s) \cup (fresh .. fresh + k - 1)
<1>1. \A i \in 1 .. n + k : i \in 1 .. n \/ \E p \in 1 .. k : i = n + p
  <2> SUFFICES ASSUME NEW i \in 1 .. n + k, i \notin 1 .. n
               PROVE  \E p \in 1 .. k : i = n + p
    OBVIOUS
  <2>1. i - n \in 1 .. k /\ i = n + (i - n)
    OBVIOUS
  <2> QED
    BY <2>1
<1>2. DOMAIN t = 1 .. n + k /\ 1 .. n \subseteq 1 .. n + k
        /\ \A p \in 1 .. k : n + p \in 1 .. n + k
  BY DEF TagsLonger
<1>3. \A i \in 1 .. n : t[i] = s[i] /\ s[i] \in 1 .. fresh - 1
  BY DEF TagsLonger
<1>4. \A p \in 1 .. k : t[n + p] = fresh + p - 1
  BY DEF TagsLonger
<1>5. IsInjective(t)
  <2> SUFFICES ASSUME NEW i \in 1 .. n + k, NEW j \in 1 .. n + k, t[i] = t[j]
               PROVE  i = j
    BY <1>2 DEF IsInjective
  <2>1. CASE i \in 1 .. n /\ j \in 1 .. n
    BY <1>3, <2>1 DEF IsInjective
  <2>5. ASSUME NEW q \in 1 .. n + k, q \notin 1 .. n
        PROVE  \E p \in 1 .. k : q = n + p /\ t[q] = fresh + p - 1
    BY <1>1, <1>4, <2>5
  <2>6. \A p \in 1 .. k : fresh + p - 1 \notin 1 .. fresh - 1
    OBVIOUS
  <2>2. CASE i \in 1 .. n /\ j \notin 1 .. n
    BY <1>3, <2>2, <2>5, <2>6
  <2>3. CASE i \notin 1 .. n /\ j \in 1 .. n
    BY <1>3, <2>3, <2>5, <2>6
  <2>4. CASE i \notin 1 .. n /\ j \notin 1 .. n
    <3>1. PICK p \in 1 .. k : i = n + p /\ t[i] = fresh + p - 1
      BY <2>4, <2>5
    <3>2. PICK q \in 1 .. k : j = n + q /\ t[j] = fresh + q - 1
      BY <2>4, <2>5
    <3>3. fresh + p - 1 = fresh + q - 1
      BY <3>1, <3>2
    <3>4. p = q
      BY <3>3
    <3> QED
      BY <3>1, <3>2, <3>4
  <2> QED
    BY <2>1, <2>2, <2>3, <2>4
<1>6. Range(t) = Range(s) \cup (fresh .. fresh + k - 1)
  <2>1. ASSUME NEW i \in 1 .. n + k
        PROVE  t[i] \in Range(s) \cup (fresh .. fresh + k - 1)
    <3>1. CASE i \in 1 .. n
      BY <1>3, <3>1 DEF Range
    <3>2. CASE i \notin 1 .. n
      <4>1. PICK p \in 1 .. k : i = n + p
        BY <1>1, <3>2
      <4> QED
        <5>1. t[i] = fresh + p - 1
          BY <1>4, <4>1
        <5>2. fresh + p - 1 \in fresh .. fresh + k - 1
          OBVIOUS
        <5> QED
          BY <5>1, <5>2
    <3> QED
      BY <3>1, <3>2
  <2>2. Range(s) \subseteq Range(t)
    BY <1>2, <1>3 DEF Range
  <2>3. ASSUME NEW x \in fresh .. fresh + k - 1 PROVE x \in Range(t)
    <3>1. x - fresh + 1 \in 1 .. k /\ x = fresh + (x - fresh + 1) - 1
      OBVIOUS
    <3>2. t[n + (x - fresh + 1)] = x
      BY <1>4, <3>1
    <3> QED
      BY <1>2, <3>1, <3>2 DEF Range
  <2> QED
    BY <1>2, <2>1, <2>2, <2>3 DEF Range
<1>7. Range(t) \cap Range(r) = {}
  <2>1. r \in [1 .. Len(r) -> 1 .. fresh - 1] /\ DOMAIN r = 1 .. Len(r)
    BY SeqIsArray
  <2>2. \A x \in Range(r) : x \in 1 .. fresh - 1
    BY <2>1 DEF Range
  <2>3. \A x \in fresh .. fresh + k - 1 : x \notin 1 .. fresh - 1
    OBVIOUS
  <2> QED
    BY <1>6, <2>2, <2>3
<1> QED
  BY <1>5, <1>6, <1>7

\* What the columns that arrive leave as it was, and what they add.
ColsLonger(nm, new) ==
    /\ DOMAIN nm = Fields /\ DOMAIN nm.name = {"col", "row"}
    /\ nm.row = m.row /\ nm.bound = m.bound /\ nm.sense = m.sense
    /\ nm.q = m.q /\ nm.ind = m.ind /\ nm.sos = m.sos /\ nm.cone = m.cone
    /\ nm.rq = m.rq /\ nm.name.row = m.name.row
    /\ TagsLonger(nm.col, m.col, NumCol, Len(new))
    /\ LongerBy(nm.cost, m.cost, NumCol, Len(new), BOOLEAN, FALSE)
    /\ nm.a \in [1 .. NumCol + Len(new) -> SUBSET Rows]
    /\ \A j \in Cols : nm.a[j] = m.a[j]
    /\ GrownBy(nm.integer, m.integer, NumCol, Len(new), BOOLEAN, FALSE)
    /\ GrownBy(nm.semi, m.semi, NumCol, Len(new), BOOLEAN, FALSE)
    /\ GrownBy(nm.quad, m.quad, NumCol, Len(new), BOOLEAN, FALSE)
    /\ Optional(nm.name.col, NumCol + Len(new), Labels)

\* jaos_add_cols makes such a model.
LEMMA ColsGrownIs ==
  ASSUME fresh \in Nat \ {0}, Shape(m, fresh), NEW new \in NewCols,
         \A k \in DOMAIN new : new[k].rows \subseteq Rows
  PROVE  Len(new) \in Nat /\ ColsLonger(ColsGrown(new), new)
<1> DEFINE n == Len(new)
           nm == ColsGrown(new)
<1>0. NumCol \in Nat /\ m.col \in [1 .. NumCol -> 1 .. fresh - 1]
  BY SizesAreNat DEF NumCol
<1>1. /\ DOMAIN m = Fields /\ DOMAIN m.name = {"col", "row"}
      /\ ColsFit(m, NumCol, NumRow)
  BY DEF Shape, NumCol, NumRow
<1>2. n \in Nat /\ DOMAIN new = 1 .. n
  <2>1. new \in Seq([rows : SUBSET Nat, bounded : BOOLEAN])
    BY ModelStoreAssumption
  <2> QED
    BY <2>1, SeqIsArray
<1> DEFINE rows == [k \in 1 .. n |-> new[k].rows]
<1>3. /\ DOMAIN nm = Fields /\ DOMAIN nm.name = {"col", "row"}
      /\ nm.row = m.row /\ nm.bound = m.bound /\ nm.sense = m.sense
      /\ nm.q = m.q /\ nm.ind = m.ind /\ nm.sos = m.sos /\ nm.cone = m.cone
      /\ nm.rq = m.rq /\ nm.name.row = m.name.row
  BY <1>1 DEF ColsGrown, Fields
<1>4. /\ nm.col = m.col \o Tagged(n)
      /\ nm.cost = m.cost \o Blank(n)
      /\ nm.a = m.a \o rows
      /\ nm.integer = Grown(m.integer, n, FALSE)
      /\ nm.semi = Grown(m.semi, n, FALSE)
      /\ nm.quad = Grown(m.quad, n, FALSE)
      /\ nm.name.col = Grown(m.name.col, n, NULL)
  BY <1>1 DEF ColsGrown, Fields
<1>5. rows \in [1 .. n -> SUBSET Rows]
  BY <1>2
<1> HIDE DEF n, nm, rows
<1>6. TagsLonger(nm.col, m.col, NumCol, n)
  BY <1>0, <1>2, <1>4, TaggedIs
<1>7. LongerBy(nm.cost, m.cost, NumCol, n, BOOLEAN, FALSE)
  <2>1. m.cost \in [1 .. NumCol -> BOOLEAN]
    BY <1>1 DEF ColsFit
  <2>2. Blank(n) = [i \in 1 .. n |-> FALSE] /\ FALSE \in BOOLEAN
    BY DEF Blank
  <2>3. LongerBy(m.cost \o Blank(n), m.cost, NumCol, n, BOOLEAN, FALSE)
    BY <1>0, <1>2, <2>1, <2>2, JoinedIs
  <2> QED
    BY <1>4, <2>3
<1>8. /\ nm.a \in [1 .. NumCol + n -> SUBSET Rows]
      /\ \A j \in Cols : nm.a[j] = m.a[j]
  <2>1. m.a \in [1 .. NumCol -> SUBSET Rows]
    BY <1>1 DEF ColsFit, Rows
  <2>2. m.a \o rows \in [1 .. NumCol + n -> SUBSET Rows]
    BY <1>0, <1>2, <1>5, <2>1, Joined
  <2>3. \A j \in 1 .. NumCol : (m.a \o rows)[j] = m.a[j]
    BY <1>0, <1>2, <1>5, <2>1, Joined
  <2> QED
    BY <1>4, <2>2, <2>3 DEF Cols
<1>9. ASSUME NEW s, Optional(s, NumCol, BOOLEAN)
      PROVE  GrownBy(Grown(s, n, FALSE), s, NumCol, n, BOOLEAN, FALSE)
  BY <1>0, <1>2, <1>9, GrownIs, NullAssumption
<1>10. Optional(nm.name.col, NumCol + n, Labels)
  <2>1. Optional(m.name.col, NumCol, Labels) /\ NULL \in Labels
    BY <1>1 DEF ColsFit, Labels
  <2>2. GrownBy(nm.name.col, m.name.col, NumCol, n, Labels, NULL)
    BY <1>0, <1>2, <1>4, <2>1, GrownIs, NullAssumption
  <2> QED
    BY <2>2 DEF GrownBy
<1>11. /\ GrownBy(nm.integer, m.integer, NumCol, n, BOOLEAN, FALSE)
       /\ GrownBy(nm.semi, m.semi, NumCol, n, BOOLEAN, FALSE)
       /\ GrownBy(nm.quad, m.quad, NumCol, n, BOOLEAN, FALSE)
  BY <1>1, <1>4, <1>9 DEF ColsFit
<1> QED
  BY <1>2, <1>3, <1>6, <1>7, <1>8, <1>10, <1>11 DEF ColsLonger, n, nm

\* And such a model has its shape.
LEMMA ColsLongerShape ==
  ASSUME fresh \in Nat \ {0}, Shape(m, fresh), NEW new, Len(new) \in Nat,
         NEW nm, ColsLonger(nm, new)
  PROVE  Shape(nm, fresh + Len(new))
<1> DEFINE n == Len(new)
<1>0. /\ NumCol \in Nat /\ NumRow \in Nat
      /\ m.col \in [1 .. NumCol -> 1 .. fresh - 1] /\ DOMAIN m.col = 1 .. NumCol
  BY SizesAreNat DEF NumCol, NumRow
<1>1. /\ m.sense \in BOOLEAN /\ TagsFit(m, fresh)
      /\ ColsFit(m, NumCol, NumRow) /\ RowsFit(m, NumCol, NumRow)
      /\ ConesFit(m, NumCol, fresh)
  BY DEF Shape, NumCol, NumRow
<1>2. /\ NumCol + n \in Nat /\ NumCol <= NumCol + n
      /\ fresh + n \in Nat /\ fresh <= fresh + n
      /\ 1 .. NumCol \subseteq 1 .. NumCol + n
      /\ 0 .. NumCol \subseteq 0 .. NumCol + n
  BY <1>0
<1> HIDE DEF n
<1>3. Len(nm.col) = NumCol + n /\ nm.row = m.row
  BY DEF ColsLonger, TagsLonger, n
<1>4. TagsFit(nm, fresh + n)
  <2>1. /\ IsInjective(m.col) /\ Range(m.col) \cap Range(m.row) = {}
        /\ m.row \in Seq(1 .. fresh - 1) /\ IsInjective(m.row)
    BY <1>1 DEF TagsFit
  <2>2. TagsLonger(nm.col, m.col, NumCol, n)
    BY DEF ColsLonger, n
  <2>3. n \in Nat
    BY DEF n
  <2>4. IsInjective(nm.col)
    BY <1>0, <2>1, <2>2, <2>3, TagsLongerFit
  <2>5. Range(nm.col) \cap Range(m.row) = {}
    BY <1>0, <2>1, <2>2, <2>3, TagsLongerFit
  <2>6. m.row \in Seq(1 .. (fresh + n) - 1)
    <3>1. TagsFit(m, fresh + n)
      BY <1>2, TagsGrow DEF Shape
    <3> QED
      BY <3>1 DEF TagsFit
  <2>7. nm.col \in Seq(1 .. (fresh + n) - 1)
    <3>1. fresh + n - 1 = (fresh + n) - 1
      BY <2>3
    <3>2. nm.col \in Seq(1 .. fresh + n - 1)
      BY <2>2 DEF TagsLonger
    <3> QED
      BY <3>1, <3>2
  <2> QED
    BY <1>3, <2>1, <2>4, <2>5, <2>6, <2>7 DEF TagsFit
<1>5. ColsFit(nm, NumCol + n, NumRow)
  <2>1. /\ nm.cost \in [1 .. NumCol + n -> BOOLEAN]
        /\ nm.a \in [1 .. NumCol + n -> SUBSET (1 .. NumRow)]
        /\ Optional(nm.name.col, NumCol + n, Labels)
    BY DEF ColsLonger, LongerBy, n, Rows
  <2>2. /\ Optional(nm.integer, NumCol + n, BOOLEAN)
        /\ Optional(nm.semi, NumCol + n, BOOLEAN)
        /\ Optional(nm.quad, NumCol + n, BOOLEAN)
    BY DEF ColsLonger, GrownBy, n
  <2>3. nm.q = m.q
    BY DEF ColsLonger
  <2>4. /\ m.q \subseteq (1 .. NumCol + n) \X (1 .. NumCol + n)
        /\ \A p \in m.q : p[1] > p[2]
    BY <1>1, <1>2 DEF ColsFit
  <2> QED
    BY <2>1, <2>2, <2>3, <2>4 DEF ColsFit
<1>6. RowsFit(nm, NumCol + n, NumRow)
  <2>1. Indicators(NumCol) \subseteq Indicators(NumCol + n)
    BY <1>2 DEF Indicators
  <2>2. /\ nm.bound = m.bound /\ nm.name.row = m.name.row
        /\ nm.ind = m.ind /\ nm.rq = m.rq
    BY DEF ColsLonger
  <2>3. Optional(m.ind, NumRow, Indicators(NumCol + n))
    BY <1>1, <2>1 DEF RowsFit, Optional
  <2>4. (1 .. NumCol) \X (1 .. NumCol)
          \subseteq (1 .. NumCol + n) \X (1 .. NumCol + n)
    BY <1>2
  <2>5. Optional(m.rq, NumRow, SUBSET ((1 .. NumCol + n) \X (1 .. NumCol + n)))
    BY <1>1, <2>4 DEF RowsFit, Optional
  <2> QED
    BY <1>1, <2>2, <2>3, <2>5 DEF RowsFit
<1>7. ConesFit(nm, NumCol + n, fresh + n)
  <2>1. nm.sos = m.sos /\ nm.cone = m.cone
    BY DEF ColsLonger
  <2>2. SetsFit(m.sos, NumCol, fresh) /\ SetsFit(m.cone, NumCol, fresh)
    BY <1>1 DEF ConesFit
  <2>3. /\ SetsFit(m.sos, NumCol + n, fresh + n)
        /\ SetsFit(m.cone, NumCol + n, fresh + n)
    BY <1>0, <1>2, <2>2, SetsWider
  <2> QED
    BY <1>1, <2>1, <2>3 DEF ConesFit
<1>8. /\ DOMAIN nm = Fields /\ DOMAIN nm.name = {"col", "row"}
      /\ nm.sense \in BOOLEAN
  BY <1>1 DEF ColsLonger
<1>9. Len(nm.row) = NumRow
  BY <1>3 DEF NumRow
<1> QED
  BY <1>3, <1>4, <1>5, <1>6, <1>7, <1>8, <1>9 DEF Shape, n

\* An absent array is none of those that are there.
LEMMA NullIsNoArray ==
  /\ NULL \notin Seq(BOOLEAN) /\ NULL \notin Seq(Labels)
  /\ \A n \in Nat : NULL \notin Seq(Indicators(n))
  /\ \A n \in Nat : NULL \notin Seq(SUBSET ((1 .. n) \X (1 .. n)))
<1>1. ASSUME NEW S, NEW T, S \subseteq T, NULL \in Seq(S)
      PROVE  NULL \in Seq(T)
  <2>1. Len(NULL) \in Nat /\ NULL \in [1 .. Len(NULL) -> S]
    BY <1>1, SeqIsArray
  <2>2. NULL \in [1 .. Len(NULL) -> T]
    BY <1>1, <2>1
  <2> QED
    BY <2>1, <2>2, ArrayIsSeq
<1>2. ASSUME NEW n \in Nat PROVE NULL \notin Seq(Indicators(n))
  <2>1. Indicators(n) \subseteq [col : Nat, val : {0, 1}]
    BY DEF Indicators
  <2> QED
    BY <1>1, <2>1, NullAssumption
<1>3. ASSUME NEW n \in Nat PROVE NULL \notin Seq(SUBSET ((1 .. n) \X (1 .. n)))
  <2>1. SUBSET ((1 .. n) \X (1 .. n)) \subseteq SUBSET (Nat \X Nat)
    OBVIOUS
  <2> QED
    BY <1>1, <2>1, NullAssumption
<1> QED
  BY <1>2, <1>3, NullAssumption

\* The same of the rows that jaos_add_rows appends.
RowsLonger(nm, new) ==
    /\ DOMAIN nm = Fields /\ DOMAIN nm.name = {"col", "row"}
    /\ nm.col = m.col /\ nm.cost = m.cost /\ nm.sense = m.sense
    /\ nm.integer = m.integer /\ nm.semi = m.semi /\ nm.quad = m.quad
    /\ nm.q = m.q /\ nm.sos = m.sos /\ nm.cone = m.cone
    /\ nm.name.col = m.name.col
    /\ TagsLonger(nm.row, m.row, NumRow, Len(new))
    /\ LongerBy(nm.bound, m.bound, NumRow, Len(new), BOOLEAN, FALSE)
    /\ nm.a = [j \in Cols |-> m.a[j] \cup
                 {NumRow + k : k \in {p \in 1 .. Len(new) : j \in new[p]}}]
    /\ nm.ind # NULL =>
         GrownBy(nm.ind, m.ind, NumRow, Len(new), Indicators(NumCol),
                 NoIndicator)
    /\ ~IndicatorsFail =>
         GrownBy(nm.ind, m.ind, NumRow, Len(new), Indicators(NumCol),
                 NoIndicator)
    /\ GrownBy(nm.rq, m.rq, NumRow, Len(new), SUBSET (Cols \X Cols), {})
    /\ Optional(nm.name.row, NumRow + Len(new), Labels)

LEMMA RowsGrownIs ==
  ASSUME fresh \in Nat \ {0}, Shape(m, fresh), NEW new \in NewRows,
         NEW nm, \/ nm = RowsGrown(new)
                 \/ IndicatorsFail /\ nm = [RowsGrown(new) EXCEPT !.ind = NULL]
  PROVE  Len(new) \in Nat /\ RowsLonger(nm, new)
<1> DEFINE n == Len(new)
           grown == RowsGrown(new)
<1>0. /\ NumRow \in Nat /\ m.row \in [1 .. NumRow -> 1 .. fresh - 1]
      /\ NumCol \in Nat
  BY SizesAreNat DEF NumRow, NumCol
<1>1. /\ DOMAIN m = Fields /\ DOMAIN m.name = {"col", "row"}
      /\ RowsFit(m, NumCol, NumRow)
  BY DEF Shape, NumCol, NumRow
<1>2. n \in Nat
  <2>1. new \in Seq(SUBSET Nat)
    BY ModelStoreAssumption
  <2> QED
    BY <2>1, SeqIsArray
<1>3. /\ DOMAIN grown = Fields /\ DOMAIN grown.name = {"col", "row"}
      /\ grown.col = m.col /\ grown.cost = m.cost /\ grown.sense = m.sense
      /\ grown.integer = m.integer /\ grown.semi = m.semi
      /\ grown.quad = m.quad /\ grown.q = m.q /\ grown.sos = m.sos
      /\ grown.cone = m.cone /\ grown.name.col = m.name.col
  BY <1>1 DEF RowsGrown, Fields
<1>4. /\ grown.row = m.row \o Tagged(n)
      /\ grown.bound = m.bound \o Blank(n)
      /\ grown.a = [j \in Cols |-> m.a[j] \cup
                      {NumRow + k : k \in {p \in 1 .. n : j \in new[p]}}]
      /\ grown.rq = Grown(m.rq, n, {})
      /\ grown.ind = Grown(m.ind, n, NoIndicator)
      /\ grown.name.row = Grown(m.name.row, n, NULL)
  BY <1>1 DEF RowsGrown, Fields
<1> HIDE DEF n, grown
<1>5. /\ DOMAIN nm = DOMAIN grown
      /\ \A f \in Fields \ {"ind"} : nm[f] = grown[f]
      /\ nm.ind = grown.ind \/ (IndicatorsFail /\ nm.ind = NULL)
  <2>1. nm = grown \/ (IndicatorsFail /\ nm = [grown EXCEPT !.ind = NULL])
    BY DEF grown
  <2>2. DOMAIN grown = Fields
    BY <1>3
  <2> QED
    BY <2>1, <2>2 DEF Fields
<1>6. /\ DOMAIN nm = Fields /\ DOMAIN nm.name = {"col", "row"}
      /\ nm.col = m.col /\ nm.cost = m.cost /\ nm.sense = m.sense
      /\ nm.integer = m.integer /\ nm.semi = m.semi /\ nm.quad = m.quad
      /\ nm.q = m.q /\ nm.sos = m.sos /\ nm.cone = m.cone
      /\ nm.name.col = m.name.col
      /\ nm.row = grown.row /\ nm.bound = grown.bound /\ nm.a = grown.a
      /\ nm.rq = grown.rq /\ nm.name.row = grown.name.row
  BY <1>3, <1>5 DEF Fields
<1>7. TagsLonger(nm.row, m.row, NumRow, n)
  <2>1. TagsLonger(m.row \o Tagged(n), m.row, NumRow, n)
    BY <1>0, <1>2, TaggedIs
  <2> QED
    BY <1>4, <1>6, <2>1
<1>8. LongerBy(nm.bound, m.bound, NumRow, n, BOOLEAN, FALSE)
  <2>1. m.bound \in [1 .. NumRow -> BOOLEAN]
    BY <1>1 DEF RowsFit
  <2>2. Blank(n) = [i \in 1 .. n |-> FALSE] /\ FALSE \in BOOLEAN
    BY DEF Blank
  <2>3. LongerBy(m.bound \o Blank(n), m.bound, NumRow, n, BOOLEAN, FALSE)
    BY <1>0, <1>2, <2>1, <2>2, JoinedIs
  <2> QED
    BY <1>4, <1>6, <2>3
<1>9. GrownBy(grown.ind, m.ind, NumRow, n, Indicators(NumCol), NoIndicator)
  <2>1. Optional(m.ind, NumRow, Indicators(NumCol))
    BY <1>1 DEF RowsFit
  <2>2. NoIndicator \in Indicators(NumCol)
    BY <1>0 DEF NoIndicator, Indicators
  <2>3. NULL \notin Seq(Indicators(NumCol))
    BY <1>0, NullIsNoArray
  <2>4. GrownBy(Grown(m.ind, n, NoIndicator), m.ind, NumRow, n,
                Indicators(NumCol), NoIndicator)
    BY <1>0, <1>2, <2>1, <2>2, <2>3, GrownIs
  <2> QED
    BY <1>4, <2>4
<1>10. GrownBy(nm.rq, m.rq, NumRow, n, SUBSET (Cols \X Cols), {})
  <2>1. Optional(m.rq, NumRow, SUBSET (Cols \X Cols))
    BY <1>1 DEF RowsFit, Cols
  <2>2. {} \in SUBSET (Cols \X Cols)
    OBVIOUS
  <2>3. NULL \notin Seq(SUBSET (Cols \X Cols))
    BY <1>0, NullIsNoArray DEF Cols
  <2>4. GrownBy(Grown(m.rq, n, {}), m.rq, NumRow, n, SUBSET (Cols \X Cols), {})
    BY <1>0, <1>2, <2>1, <2>2, <2>3, GrownIs
  <2> QED
    BY <1>4, <1>6, <2>4
<1>11. Optional(nm.name.row, NumRow + n, Labels)
  <2>1. Optional(m.name.row, NumRow, Labels) /\ NULL \in Labels
    BY <1>1 DEF RowsFit, Labels
  <2>2. GrownBy(Grown(m.name.row, n, NULL), m.name.row, NumRow, n, Labels, NULL)
    BY <1>0, <1>2, <2>1, GrownIs, NullIsNoArray
  <2> QED
    BY <1>4, <1>6, <2>2 DEF GrownBy
<1>12. /\ nm.ind # NULL =>
            GrownBy(nm.ind, m.ind, NumRow, n, Indicators(NumCol), NoIndicator)
       /\ ~IndicatorsFail =>
            GrownBy(nm.ind, m.ind, NumRow, n, Indicators(NumCol), NoIndicator)
  BY <1>5, <1>9
<1> QED
  BY <1>2, <1>4, <1>6, <1>7, <1>8, <1>10, <1>11, <1>12 DEF RowsLonger, n

LEMMA RowsLongerShape ==
  ASSUME fresh \in Nat \ {0}, Shape(m, fresh), NEW new, Len(new) \in Nat,
         NEW nm, RowsLonger(nm, new)
  PROVE  Shape(nm, fresh + Len(new))
<1> DEFINE n == Len(new)
<1>0. /\ NumCol \in Nat /\ NumRow \in Nat
      /\ m.row \in [1 .. NumRow -> 1 .. fresh - 1] /\ DOMAIN m.row = 1 .. NumRow
  BY SizesAreNat DEF NumCol, NumRow
<1>1. /\ m.sense \in BOOLEAN /\ TagsFit(m, fresh)
      /\ ColsFit(m, NumCol, NumRow) /\ RowsFit(m, NumCol, NumRow)
      /\ ConesFit(m, NumCol, fresh)
  BY DEF Shape, NumCol, NumRow
<1>2. /\ NumRow + n \in Nat /\ NumRow <= NumRow + n
      /\ fresh + n \in Nat /\ fresh <= fresh + n
      /\ 1 .. NumRow \subseteq 1 .. NumRow + n
      /\ \A k \in 1 .. n : NumRow + k \in 1 .. NumRow + n
  BY <1>0
<1> HIDE DEF n
<1>3. Len(nm.row) = NumRow + n /\ nm.col = m.col /\ n \in Nat
  BY DEF RowsLonger, TagsLonger, n
<1>4. TagsFit(nm, fresh + n)
  <2>1. /\ IsInjective(m.row) /\ Range(m.row) \cap Range(m.col) = {}
        /\ m.col \in Seq(1 .. fresh - 1) /\ IsInjective(m.col)
    BY <1>1 DEF TagsFit
  <2>2. TagsLonger(nm.row, m.row, NumRow, n)
    BY DEF RowsLonger, n
  <2>4. IsInjective(nm.row)
    BY <1>0, <1>3, <2>1, <2>2, TagsLongerFit
  <2>5. Range(nm.row) \cap Range(m.col) = {}
    BY <1>0, <1>3, <2>1, <2>2, TagsLongerFit
  <2>6. m.col \in Seq(1 .. (fresh + n) - 1)
    <3>1. TagsFit(m, fresh + n)
      BY <1>2, TagsGrow DEF Shape
    <3> QED
      BY <3>1 DEF TagsFit
  <2>7. nm.row \in Seq(1 .. (fresh + n) - 1)
    <3>1. fresh + n - 1 = (fresh + n) - 1
      BY <1>3
    <3>2. nm.row \in Seq(1 .. fresh + n - 1)
      BY <2>2 DEF TagsLonger
    <3> QED
      BY <3>1, <3>2
  <2> QED
    BY <1>3, <2>1, <2>4, <2>5, <2>6, <2>7 DEF TagsFit
<1>5. ColsFit(nm, NumCol, NumRow + n)
  <2>1. /\ nm.cost = m.cost /\ nm.integer = m.integer /\ nm.semi = m.semi
        /\ nm.quad = m.quad /\ nm.q = m.q /\ nm.name.col = m.name.col
    BY DEF RowsLonger
  <2>2. nm.a \in [1 .. NumCol -> SUBSET (1 .. NumRow + n)]
    <3>1. nm.a = [j \in 1 .. NumCol |-> m.a[j] \cup
                    {NumRow + k : k \in {p \in 1 .. n : j \in new[p]}}]
      BY DEF RowsLonger, Cols, n
    <3>2. \A j \in 1 .. NumCol : m.a[j] \subseteq 1 .. NumRow + n
      BY <1>1, <1>2 DEF ColsFit
    <3>3. \A j \in 1 .. NumCol :
            {NumRow + k : k \in {p \in 1 .. n : j \in new[p]}}
              \subseteq 1 .. NumRow + n
      BY <1>2
    <3> QED
      BY <3>1, <3>2, <3>3
  <2> QED
    BY <1>1, <2>1, <2>2 DEF ColsFit
<1>6. RowsFit(nm, NumCol, NumRow + n)
  <2>1. nm.bound \in [1 .. NumRow + n -> BOOLEAN]
    BY DEF RowsLonger, LongerBy, n
  <2>2. Optional(nm.name.row, NumRow + n, Labels)
    BY DEF RowsLonger, n
  <2>3. Optional(nm.ind, NumRow + n, Indicators(NumCol))
    BY DEF RowsLonger, GrownBy, Optional, n
  <2>4. Optional(nm.rq, NumRow + n, SUBSET ((1 .. NumCol) \X (1 .. NumCol)))
    BY DEF RowsLonger, GrownBy, Cols, n
  <2> QED
    BY <2>1, <2>2, <2>3, <2>4 DEF RowsFit
<1>7. ConesFit(nm, NumCol, fresh + n)
  <2>1. nm.sos = m.sos /\ nm.cone = m.cone
    BY DEF RowsLonger
  <2>2. SetsFit(m.sos, NumCol, fresh) /\ SetsFit(m.cone, NumCol, fresh)
          /\ NumCol <= NumCol
    BY <1>0, <1>1 DEF ConesFit
  <2>3. /\ SetsFit(m.sos, NumCol, fresh + n)
        /\ SetsFit(m.cone, NumCol, fresh + n)
    BY <1>0, <1>2, <2>2, SetsWider
  <2> QED
    BY <1>1, <2>1, <2>3 DEF ConesFit
<1>8. /\ DOMAIN nm = Fields /\ DOMAIN nm.name = {"col", "row"}
      /\ nm.sense \in BOOLEAN
  BY <1>1 DEF RowsLonger
<1>9. Len(nm.col) = NumCol
  BY <1>3 DEF NumCol
<1> QED
  BY <1>3, <1>4, <1>5, <1>6, <1>7, <1>8, <1>9 DEF Shape, n

-----------------------------------------------------------------------------
\* Columns and rows deleted.

\* A set keeps the members that stay, renumbered.
LEMMA SetShorter ==
  ASSUME NEW n \in Nat, NEW kept, Places(kept), kept \subseteq 1 .. n,
         NEW next, NEW s, SetFits(s, n, next)
  PROVE  /\ SetFits(SetWithout(s, kept), Cardinality(kept), next)
         /\ Places(MembersLeft(s, kept))
<1> DEFINE on == MembersLeft(s, kept)
           col == [t \in DOMAIN s.col |-> NewIndex(kept, s.col[t])]
<1>1. /\ Len(s.col) \in Nat /\ DOMAIN s.col = 1 .. Len(s.col)
      /\ s.col \in [1 .. Len(s.col) -> 1 .. n]
      /\ s.weight \in [DOMAIN s.col -> Nat] /\ s.tag \in 1 .. next - 1
  BY SeqIsArray DEF SetFits
<1>2. on \subseteq 1 .. Len(s.col) /\ \A t \in on : s.col[t] \in kept
  BY <1>1 DEF MembersLeft
<1> HIDE DEF on
<1>3. Places(on)
  BY <1>1, <1>2, PlacesOf
<1>4. Cardinality(on) \in Nat /\ Cardinality(kept) \in Nat
  BY <1>3, Positions
<1>5. \A t \in on : col[t] \in 1 .. Cardinality(kept)
  BY <1>1, <1>2, Positions
<1>6. \A t \in on : s.weight[t] \in Nat
  BY <1>1, <1>2
<1>7. SetWithout(s, kept) =
        [tag |-> s.tag, col |-> Only(col, on), weight |-> Only(s.weight, on)]
  BY DEF SetWithout, on
<1> HIDE DEF col
<1>8. Only(col, on) \in [1 .. Cardinality(on) -> 1 .. Cardinality(kept)]
  BY <1>3, <1>5, OnlyFits
<1>9. Only(s.weight, on) \in [1 .. Cardinality(on) -> Nat]
  BY <1>3, <1>6, OnlyFits
<1>10. Only(col, on) \in Seq(1 .. Cardinality(kept))
         /\ DOMAIN Only(col, on) = 1 .. Cardinality(on)
  BY <1>4, <1>8, ArrayIsSeq
<1> QED
  BY <1>1, <1>3, <1>7, <1>9, <1>10 DEF SetFits, on

\* The sets that keep a member, in their order.
SetsLeft(sets, kept) == {k \in DOMAIN sets : MembersLeft(sets[k], kept) # {}}

\* Sets left with no member are gone, and the others fit.
LEMMA SetsShorter ==
  ASSUME NEW n \in Nat, NEW kept, Places(kept), kept \subseteq 1 .. n,
         NEW next, NEW sets, SetsFit(sets, n, next)
  PROVE  /\ SetsFit(SetsWithout(sets, kept), Cardinality(kept), next)
         /\ Places(SetsLeft(sets, kept))
         /\ DOMAIN SetsWithout(sets, kept)
              = 1 .. Cardinality(SetsLeft(sets, kept))
         /\ \A k \in 1 .. Cardinality(SetsLeft(sets, kept)) :
              /\ Nth(SetsLeft(sets, kept), k) \in SetsLeft(sets, kept)
              /\ SetsWithout(sets, kept)[k] =
                   SetWithout(sets[Nth(SetsLeft(sets, kept), k)], kept)
<1> DEFINE left == SetsLeft(sets, kept)
           all == [k \in DOMAIN sets |-> SetWithout(sets[k], kept)]
           out == SetsWithout(sets, kept)
<1>1. Len(sets) \in Nat /\ DOMAIN sets = 1 .. Len(sets)
  BY SeqIsArray DEF SetsFit
<1>2. left \subseteq 1 .. Len(sets)
  BY <1>1 DEF SetsLeft
<1>3. out = Only(all, left)
  BY DEF SetsWithout, SetsLeft
<1>4. \A k \in left : all[k] = SetWithout(sets[k], kept)
  BY <1>1, <1>2
<1> HIDE DEF left, all, out
<1>5. Places(left)
  BY <1>1, <1>2, PlacesOf
<1>6. /\ Cardinality(left) \in Nat
      /\ \A k \in 1 .. Cardinality(left) : Nth(left, k) \in left
  BY <1>5, Positions
<1>7. /\ DOMAIN out = 1 .. Cardinality(left)
      /\ out \in [1 .. Cardinality(left) -> Range(out)]
      /\ \A k \in 1 .. Cardinality(left) : out[k] = all[Nth(left, k)]
  BY <1>3 DEF Only, Range
<1>8. out \in Seq(Range(out))
  BY <1>6, <1>7, ArrayIsSeq
<1>9. ASSUME NEW k \in DOMAIN out
      PROVE  SetFits(out[k], Cardinality(kept), next)
  <2>1. Nth(left, k) \in left /\ Nth(left, k) \in DOMAIN sets
    BY <1>1, <1>2, <1>6, <1>7
  <2>2. SetFits(sets[Nth(left, k)], n, next)
    BY <2>1 DEF SetsFit
  <2>3. SetFits(SetWithout(sets[Nth(left, k)], kept), Cardinality(kept), next)
    BY <2>2, SetShorter
  <2> QED
    BY <1>4, <1>7, <2>1, <2>3
<1>10. SetsFit(out, Cardinality(kept), next)
  BY <1>8, <1>9 DEF SetsFit
<1> QED
  BY <1>4, <1>5, <1>6, <1>7, <1>10 DEF left, out

\* An array cut down to the kept positions; one that was absent still is.
ShorterBy(t, s, kept, S) ==
    /\ t \in [1 .. Cardinality(kept) -> S]
    /\ \A k \in 1 .. Cardinality(kept) : t[k] = s[Nth(kept, k)]
CutBy(t, s, kept, S) ==
    /\ Optional(t, Cardinality(kept), S)
    /\ s = NULL => t = NULL
    /\ s # NULL => t # NULL /\ ShorterBy(t, s, kept, S)

LEMMA ShorterIs ==
  ASSUME NEW S, NEW n, NEW kept, Places(kept), kept \subseteq 1 .. n,
         NEW s, s \in [1 .. n -> S]
  PROVE  ShorterBy(Only(s, kept), s, kept, S)
<1>1. \A p \in kept : s[p] \in S
  OBVIOUS
<1>2. Only(s, kept) \in [1 .. Cardinality(kept) -> S]
  BY <1>1, OnlyFits
<1> QED
  BY <1>2 DEF ShorterBy, Only

LEMMA CutIs ==
  ASSUME NEW S, NULL \notin Seq(S), NEW n,
         NEW kept, Places(kept), kept \subseteq 1 .. n,
         NEW s, Optional(s, n, S)
  PROVE  CutBy(Compact(s, kept), s, kept, S)
<1>1. CASE s = NULL
  BY <1>1 DEF Compact, CutBy, Optional
<1>2. CASE s # NULL
  <2>1. s \in [1 .. n -> S] /\ Compact(s, kept) = Only(s, kept)
    BY <1>2 DEF Optional, Compact
  <2>2. ShorterBy(Only(s, kept), s, kept, S)
    BY <2>1, ShorterIs
  <2>3. Cardinality(kept) \in Nat
    BY Positions
  <2>4. Only(s, kept) # NULL
    BY <2>2, <2>3, ArrayIsSeq DEF ShorterBy
  <2> QED
    BY <1>2, <2>1, <2>2, <2>4 DEF CutBy, Optional, ShorterBy
<1> QED
  BY <1>1, <1>2

\* Tags that stay are each there once.
TagsShorter(t, s, kept, S) ==
    /\ t \in Seq(S) /\ Len(t) = Cardinality(kept)
    /\ IsInjective(t)
    /\ Range(t) = {s[p] : p \in kept}

\* Tags stay distinct when they are cut.
LEMMA TagsShorterFit ==
  ASSUME NEW n, NEW S, NEW s, s \in [1 .. n -> S], DOMAIN s = 1 .. n,
         IsInjective(s),
         NEW kept, Places(kept), kept \subseteq 1 .. n,
         NEW t, ShorterBy(t, s, kept, S)
  PROVE  TagsShorter(t, s, kept, S)
<1> DEFINE c == Cardinality(kept)
<1>1. /\ c \in Nat
      /\ \A k \in 1 .. c : Nth(kept, k) \in kept
      /\ \A k \in 1 .. c : NewIndex(kept, Nth(kept, k)) = k
      /\ \A p \in kept : NewIndex(kept, p) \in 1 .. c
      /\ \A p \in kept : Nth(kept, NewIndex(kept, p)) = p
  BY Positions
<1>2. /\ t \in [1 .. c -> S] /\ DOMAIN t = 1 .. c
      /\ \A k \in 1 .. c : t[k] = s[Nth(kept, k)]
  BY DEF ShorterBy
<1> HIDE DEF c
<1>3. t \in Seq(S) /\ Len(t) = c
  BY <1>1, <1>2, ArrayIsSeq
<1>4. IsInjective(t)
  <2> SUFFICES ASSUME NEW k \in 1 .. c, NEW l \in 1 .. c, t[k] = t[l]
               PROVE  k = l
    BY <1>2 DEF IsInjective
  <2>1. Nth(kept, k) \in DOMAIN s /\ Nth(kept, l) \in DOMAIN s
    BY <1>1
  <2>2. s[Nth(kept, k)] = s[Nth(kept, l)]
    BY <1>2
  <2>3. Nth(kept, k) = Nth(kept, l)
    BY <2>1, <2>2 DEF IsInjective
  <2> QED
    BY <1>1, <2>3
<1>5. Range(t) = {s[p] : p \in kept}
  <2>1. \A k \in 1 .. c : t[k] \in {s[p] : p \in kept}
    BY <1>1, <1>2
  <2>2. \A p \in kept : s[p] = t[NewIndex(kept, p)]
    BY <1>1, <1>2
  <2> QED
    BY <1>1, <1>2, <2>1, <2>2 DEF Range
<1> QED
  BY <1>3, <1>4, <1>5 DEF TagsShorter, c

\* An indicator's column is one that stays.
DriversStay(kept) ==
    m.ind # NULL => \A i \in Rows : m.ind[i].col = 0 \/ m.ind[i].col \in kept
MembersStay(kept) ==
    \A k \in DOMAIN m.cone :
      \A t \in DOMAIN m.cone[k].col : m.cone[k].col[t] \in kept

\* A column stays if no indicator and no cone needs it.
LEMMA NeededStay ==
  ASSUME fresh \in Nat, Shape(m, fresh), NEW gone, gone \subseteq Cols,
         \A j \in gone : ~Drives(j) /\ ~InCone(j)
  PROVE  DriversStay(Cols \ gone) /\ MembersStay(Cols \ gone)
<1>1. NumCol \in Nat
  BY SizesAreNat DEF NumCol
<1>2. DriversStay(Cols \ gone)
  <2> SUFFICES ASSUME m.ind # NULL, NEW i \in Rows, m.ind[i].col # 0
               PROVE  m.ind[i].col \in Cols \ gone
    BY DEF DriversStay
  <2>1. m.ind \in [1 .. NumRow -> Indicators(NumCol)]
    BY DEF Shape, RowsFit, Optional, NumRow, NumCol
  <2>2. m.ind[i] \in Held(m.ind)
    BY <2>1 DEF Held, Rows
  <2>3. Drives(m.ind[i].col)
    BY <2>2 DEF Drives
  <2> DEFINE r == m.ind[i]
  <2>4. r \in Indicators(NumCol)
    BY <2>1 DEF Rows
  <2> HIDE DEF r
  <2>5. r.col \in 0 .. NumCol
    BY <2>4 DEF Indicators
  <2>6. r.col # 0 => r.col \in Cols
    BY <1>1, <2>5 DEF Cols
  <2>7. m.ind[i].col \in Cols
    BY <2>6 DEF r
  <2> QED
    BY <2>3, <2>7
<1>3. MembersStay(Cols \ gone)
  <2> SUFFICES ASSUME NEW k \in DOMAIN m.cone, NEW u \in DOMAIN m.cone[k].col
               PROVE  m.cone[k].col[u] \in Cols \ gone
    BY DEF MembersStay
  <2> DEFINE s == m.cone[k]
  <2>1. s.col \in Seq(1 .. NumCol) /\ s \in Range(m.cone)
    BY DEF Shape, ConesFit, SetsFit, SetFits, NumCol, Range
  <2>2. u \in DOMAIN s.col
    OBVIOUS
  <2> HIDE DEF s
  <2>3. s.col \in [1 .. Len(s.col) -> 1 .. NumCol]
          /\ DOMAIN s.col = 1 .. Len(s.col)
    BY <2>1, SeqIsArray
  <2>4. s.col[u] \in 1 .. NumCol /\ s.col[u] \in Range(s.col)
    BY <2>2, <2>3 DEF Range
  <2>5. InCone(s.col[u])
    BY <2>1, <2>4 DEF InCone
  <2>6. s.col[u] \in Cols \ gone
    BY <2>4, <2>5 DEF Cols
  <2> QED
    BY <2>6 DEF s
<1> QED
  BY <1>2, <1>3

\* The model that jaos_delete_cols leaves, member by member.
ColsShorter(nm, kept) ==
    /\ DOMAIN nm = Fields /\ DOMAIN nm.name = {"col", "row"}
    /\ nm.row = m.row /\ nm.bound = m.bound /\ nm.sense = m.sense
    /\ nm.name.row = m.name.row
    /\ ShorterBy(nm.col, m.col, kept, 1 .. fresh - 1)
    /\ ShorterBy(nm.cost, m.cost, kept, BOOLEAN)
    /\ ShorterBy(nm.a, m.a, kept, SUBSET Rows)
    /\ CutBy(nm.integer, m.integer, kept, BOOLEAN)
    /\ CutBy(nm.semi, m.semi, kept, BOOLEAN)
    /\ CutBy(nm.quad, m.quad, kept, BOOLEAN)
    /\ CutBy(nm.name.col, m.name.col, kept, Labels)
    /\ nm.q = PairsWithout(m.q, kept)
    /\ nm.sos = SetsWithout(m.sos, kept)
    /\ nm.cone = SetsWithout(m.cone, kept)
    /\ nm.ind = IF m.ind = NULL THEN NULL
                ELSE [i \in Rows |-> Renumbered(m.ind[i], kept)]
    /\ nm.rq = IF m.rq = NULL THEN NULL
               ELSE [i \in Rows |-> PairsWithout(m.rq[i], kept)]

\* It leaves just that.
LEMMA ColsWithoutIs ==
  ASSUME fresh \in Nat, Shape(m, fresh), NEW kept, kept \subseteq Cols
  PROVE  Places(kept) /\ ColsShorter(ColsWithout(kept), kept)
<1> DEFINE nm == ColsWithout(kept)
<1>0. NumCol \in Nat /\ m.col \in [1 .. NumCol -> 1 .. fresh - 1]
  BY SizesAreNat DEF NumCol
<1>1. /\ DOMAIN m = Fields /\ DOMAIN m.name = {"col", "row"}
      /\ ColsFit(m, NumCol, NumRow)
  BY DEF Shape, NumCol, NumRow
<1>2. kept \subseteq 1 .. NumCol /\ Places(kept)
  BY <1>0, PlacesOf DEF Cols
<1>3. /\ DOMAIN nm = Fields /\ DOMAIN nm.name = {"col", "row"}
      /\ nm.row = m.row /\ nm.bound = m.bound /\ nm.sense = m.sense
      /\ nm.name.row = m.name.row
  BY <1>1 DEF ColsWithout, Fields
<1>4. /\ nm.col = Only(m.col, kept) /\ nm.cost = Only(m.cost, kept)
      /\ nm.a = Only(m.a, kept)
      /\ nm.integer = Compact(m.integer, kept)
      /\ nm.semi = Compact(m.semi, kept)
      /\ nm.quad = Compact(m.quad, kept)
      /\ nm.name.col = Compact(m.name.col, kept)
  BY <1>1 DEF ColsWithout, Fields
<1>5. /\ nm.q = PairsWithout(m.q, kept)
      /\ nm.sos = SetsWithout(m.sos, kept)
      /\ nm.cone = SetsWithout(m.cone, kept)
      /\ nm.ind = IF m.ind = NULL THEN NULL
                  ELSE [i \in Rows |-> Renumbered(m.ind[i], kept)]
      /\ nm.rq = IF m.rq = NULL THEN NULL
                 ELSE [i \in Rows |-> PairsWithout(m.rq[i], kept)]
  BY <1>1 DEF ColsWithout, Fields
<1> HIDE DEF nm
<1>6. ShorterBy(nm.col, m.col, kept, 1 .. fresh - 1)
  <2>1. ShorterBy(Only(m.col, kept), m.col, kept, 1 .. fresh - 1)
    BY <1>0, <1>2, ShorterIs
  <2> QED
    BY <1>4, <2>1
<1>7. ShorterBy(nm.cost, m.cost, kept, BOOLEAN)
  <2>1. m.cost \in [1 .. NumCol -> BOOLEAN]
    BY <1>1 DEF ColsFit
  <2>2. ShorterBy(Only(m.cost, kept), m.cost, kept, BOOLEAN)
    BY <1>2, <2>1, ShorterIs
  <2> QED
    BY <1>4, <2>2
<1>8. ShorterBy(nm.a, m.a, kept, SUBSET Rows)
  <2>1. m.a \in [1 .. NumCol -> SUBSET Rows]
    BY <1>1 DEF ColsFit, Rows
  <2>2. ShorterBy(Only(m.a, kept), m.a, kept, SUBSET Rows)
    BY <1>2, <2>1, ShorterIs
  <2> QED
    BY <1>4, <2>2
<1>9. /\ CutBy(nm.integer, m.integer, kept, BOOLEAN)
      /\ CutBy(nm.semi, m.semi, kept, BOOLEAN)
      /\ CutBy(nm.quad, m.quad, kept, BOOLEAN)
      /\ CutBy(nm.name.col, m.name.col, kept, Labels)
  <2>1. /\ Optional(m.integer, NumCol, BOOLEAN)
        /\ Optional(m.semi, NumCol, BOOLEAN)
        /\ Optional(m.quad, NumCol, BOOLEAN)
        /\ Optional(m.name.col, NumCol, Labels)
    BY <1>1 DEF ColsFit
  <2>2. NULL \notin Seq(BOOLEAN) /\ NULL \notin Seq(Labels)
    BY NullIsNoArray
  <2> QED
    BY <1>2, <1>4, <2>1, <2>2, CutIs
<1> QED
  BY <1>2, <1>3, <1>5, <1>6, <1>7, <1>8, <1>9 DEF ColsShorter, nm

\* The pairs of kept columns are renumbered within the columns left.
LEMMA PairsWithoutFit ==
  ASSUME NEW n \in Nat, NEW kept, Places(kept), kept \subseteq 1 .. n,
         NEW q, q \subseteq (1 .. n) \X (1 .. n)
  PROVE  /\ PairsWithout(q, kept) \subseteq
              (1 .. Cardinality(kept)) \X (1 .. Cardinality(kept))
         /\ (\A p \in q : p[1] > p[2]) =>
              \A p \in PairsWithout(q, kept) : p[1] > p[2]
<1> DEFINE c == Cardinality(kept)
<1>1. /\ \A p \in kept : NewIndex(kept, p) \in 1 .. c
      /\ \A p, r \in kept : p < r => NewIndex(kept, p) < NewIndex(kept, r)
      /\ c \in Nat
  BY Positions
<1>2. \A x \in PairsWithout(q, kept) :
        \E p \in q : /\ p[1] \in kept /\ p[2] \in kept
                     /\ x = <<NewIndex(kept, p[1]), NewIndex(kept, p[2])>>
  BY DEF PairsWithout
<1> HIDE DEF c
<1>3. PairsWithout(q, kept) \subseteq (1 .. c) \X (1 .. c)
  BY <1>1, <1>2
<1>4. ASSUME \A p \in q : p[1] > p[2], NEW x \in PairsWithout(q, kept)
      PROVE  x[1] > x[2]
  <2>1. PICK p \in q : /\ p[1] \in kept /\ p[2] \in kept
                       /\ x = <<NewIndex(kept, p[1]), NewIndex(kept, p[2])>>
    BY <1>2
  <2>2. p[2] < p[1]
    <3>1. p[1] > p[2] /\ p[1] \in Int /\ p[2] \in Int
      BY <1>4, <2>1
    <3> QED
      BY <3>1
  <2>3. NewIndex(kept, p[2]) < NewIndex(kept, p[1])
    BY <1>1, <2>1, <2>2
  <2>4. NewIndex(kept, p[1]) \in Int /\ NewIndex(kept, p[2]) \in Int
    BY <1>1, <2>1
  <2> QED
    BY <2>1, <2>3, <2>4
<1> QED
  BY <1>3, <1>4 DEF c

\* And what it leaves has its shape.
LEMMA ColsShorterShape ==
  ASSUME fresh \in Nat, Shape(m, fresh), NEW kept, Places(kept),
         kept \subseteq Cols, DriversStay(kept),
         NEW nm, ColsShorter(nm, kept)
  PROVE  Shape(nm, fresh) /\ Len(nm.col) = Cardinality(kept)
<1> DEFINE c == Cardinality(kept)
<1>0. /\ NumCol \in Nat /\ NumRow \in Nat
      /\ m.col \in [1 .. NumCol -> 1 .. fresh - 1] /\ DOMAIN m.col = 1 .. NumCol
  BY SizesAreNat DEF NumCol, NumRow
<1>1. /\ m.sense \in BOOLEAN /\ TagsFit(m, fresh)
      /\ ColsFit(m, NumCol, NumRow) /\ RowsFit(m, NumCol, NumRow)
      /\ ConesFit(m, NumCol, fresh)
  BY DEF Shape, NumCol, NumRow
<1>2. kept \subseteq 1 .. NumCol
  BY DEF Cols
<1>3. /\ nm.col \in Seq(1 .. fresh - 1) /\ Len(nm.col) = c /\ c \in Nat
      /\ IsInjective(nm.col) /\ Range(nm.col) = {m.col[p] : p \in kept}
  <2>1. ShorterBy(nm.col, m.col, kept, 1 .. fresh - 1) /\ IsInjective(m.col)
    BY <1>1 DEF ColsShorter, TagsFit
  <2>2. /\ m.col \in [1 .. NumCol -> 1 .. fresh - 1]
        /\ DOMAIN m.col = 1 .. NumCol /\ IsInjective(m.col)
        /\ Places(kept) /\ kept \subseteq 1 .. NumCol
        /\ ShorterBy(nm.col, m.col, kept, 1 .. fresh - 1)
    BY <1>0, <1>2, <2>1
  <2>3. TagsShorter(nm.col, m.col, kept, 1 .. fresh - 1)
    BY <2>2, TagsShorterFit
  <2>4. Cardinality(kept) \in Nat
    BY Positions
  <2> QED
    BY <2>3, <2>4 DEF TagsShorter, c
<1> HIDE DEF c
<1>4. TagsFit(nm, fresh)
  <2>1. Range(nm.col) \subseteq Range(m.col)
    BY <1>0, <1>2, <1>3 DEF Range
  <2>2. nm.row = m.row
    BY DEF ColsShorter
  <2> QED
    BY <1>1, <1>3, <2>1, <2>2 DEF TagsFit
<1>5. ColsFit(nm, c, NumRow)
  <2>1. /\ nm.a \in [1 .. c -> SUBSET (1 .. NumRow)]
        /\ nm.cost \in [1 .. c -> BOOLEAN]
    BY DEF ColsShorter, ShorterBy, c, Rows
  <2>2. /\ Optional(nm.integer, c, BOOLEAN) /\ Optional(nm.semi, c, BOOLEAN)
        /\ Optional(nm.quad, c, BOOLEAN) /\ Optional(nm.name.col, c, Labels)
    BY DEF ColsShorter, CutBy, c
  <2>3. /\ m.q \subseteq (1 .. NumCol) \X (1 .. NumCol)
        /\ \A p \in m.q : p[1] > p[2]
    BY <1>1 DEF ColsFit
  <2>4. nm.q = PairsWithout(m.q, kept)
    BY DEF ColsShorter
  <2>5. nm.q \subseteq (1 .. c) \X (1 .. c) /\ \A p \in nm.q : p[1] > p[2]
    <3>1. PairsWithout(m.q, kept) \subseteq (1 .. c) \X (1 .. c)
      BY <1>0, <1>2, <2>3, PairsWithoutFit DEF c
    <3>2. \A p \in PairsWithout(m.q, kept) : p[1] > p[2]
      BY <1>0, <1>2, <2>3, PairsWithoutFit
    <3> QED
      BY <2>4, <3>1, <3>2
  <2> QED
    BY <2>1, <2>2, <2>5 DEF ColsFit
<1>6. RowsFit(nm, c, NumRow)
  <2>1. nm.bound = m.bound /\ nm.name.row = m.name.row
    BY DEF ColsShorter
  <2>2. Optional(nm.ind, NumRow, Indicators(c))
    <3>1. CASE m.ind = NULL
      BY <3>1 DEF ColsShorter, Optional
    <3>2. CASE m.ind # NULL
      <4>1. m.ind \in [1 .. NumRow -> Indicators(NumCol)]
        BY <1>1, <3>2 DEF RowsFit, Optional
      <4>2. nm.ind = [i \in 1 .. NumRow |-> Renumbered(m.ind[i], kept)]
        BY <3>2 DEF ColsShorter, Rows
      <4>3. ASSUME NEW i \in 1 .. NumRow
            PROVE  Renumbered(m.ind[i], kept) \in Indicators(c)
        <5>1. m.ind[i] \in [col : 0 .. NumCol, val : {0, 1}]
          BY <4>1 DEF Indicators
        <5>2. CASE m.ind[i].col = 0
          BY <1>3, <5>1, <5>2 DEF Renumbered, Indicators
        <5>3. CASE m.ind[i].col # 0
          <6>1. m.ind[i].col \in kept
            BY <3>2, <5>3 DEF DriversStay, Rows
          <6>2. NewIndex(kept, m.ind[i].col) \in 1 .. c
            BY <6>1, Positions DEF c
          <6>3. NewIndex(kept, m.ind[i].col) \in 0 .. c
            BY <1>3, <6>2
          <6> QED
            BY <5>1, <5>3, <6>3 DEF Renumbered, Indicators
        <5> QED
          BY <5>2, <5>3
      <4> QED
        BY <4>2, <4>3 DEF Optional
    <3> QED
      BY <3>1, <3>2
  <2>3. Optional(nm.rq, NumRow, SUBSET ((1 .. c) \X (1 .. c)))
    <3>1. CASE m.rq = NULL
      BY <3>1 DEF ColsShorter, Optional
    <3>2. CASE m.rq # NULL
      <4>1. \A i \in 1 .. NumRow :
              m.rq[i] \subseteq (1 .. NumCol) \X (1 .. NumCol)
        BY <1>1, <3>2 DEF RowsFit, Optional
      <4>2. nm.rq = [i \in 1 .. NumRow |-> PairsWithout(m.rq[i], kept)]
        BY <3>2 DEF ColsShorter, Rows
      <4>3. \A i \in 1 .. NumRow :
              PairsWithout(m.rq[i], kept) \subseteq (1 .. c) \X (1 .. c)
        BY <1>0, <1>2, <4>1, PairsWithoutFit DEF c
      <4> QED
        BY <4>2, <4>3 DEF Optional
    <3> QED
      BY <3>1, <3>2
  <2> QED
    BY <1>1, <2>1, <2>2, <2>3 DEF RowsFit
<1>7. ConesFit(nm, c, fresh)
  <2>1. SetsFit(m.sos, NumCol, fresh) /\ SetsFit(m.cone, NumCol, fresh)
    BY <1>1 DEF ConesFit
  <2>2. nm.sos = SetsWithout(m.sos, kept) /\ nm.cone = SetsWithout(m.cone, kept)
    BY DEF ColsShorter
  <2>3. SetsFit(nm.sos, c, fresh) /\ SetsFit(nm.cone, c, fresh)
    <3>1. SetsFit(SetsWithout(m.sos, kept), c, fresh)
      BY <1>0, <1>2, <2>1, SetsShorter DEF c
    <3>2. SetsFit(SetsWithout(m.cone, kept), c, fresh)
      BY <1>0, <1>2, <2>1, SetsShorter DEF c
    <3> QED
      BY <2>2, <3>1, <3>2
  <2>4. \A k, l \in DOMAIN nm.cone : nm.cone[k].tag = nm.cone[l].tag => k = l
    <3> DEFINE left == SetsLeft(m.cone, kept)
    <3>1. /\ Places(left) /\ DOMAIN nm.cone = 1 .. Cardinality(left)
          /\ \A k \in 1 .. Cardinality(left) :
               /\ Nth(left, k) \in left
               /\ nm.cone[k] = SetWithout(m.cone[Nth(left, k)], kept)
      <4> DEFINE out == SetsWithout(m.cone, kept)
      <4>1. Places(left)
        BY <1>0, <1>2, <2>1, SetsShorter
      <4> DEFINE all == [k \in DOMAIN m.cone |-> SetWithout(m.cone[k], kept)]
      <4>6. out = Only(all, left)
        BY DEF SetsWithout, SetsLeft
      <4>2. DOMAIN out = 1 .. Cardinality(left)
        BY <4>6 DEF Only
      <4>7. \A k \in left : all[k] = SetWithout(m.cone[k], kept)
        BY DEF SetsLeft
      <4>3. \A k \in 1 .. Cardinality(left) :
               out[k] = SetWithout(m.cone[Nth(left, k)], kept)
        <5> HIDE DEF all, left
        <5>1. \A k \in 1 .. Cardinality(left) : Nth(left, k) \in left
          BY <4>1, Positions
        <5> QED
          BY <4>6, <4>7, <5>1 DEF Only
      <4>4. \A k \in 1 .. Cardinality(left) : Nth(left, k) \in left
        BY <4>1, Positions
      <4> HIDE DEF left, out
      <4>5. nm.cone = out
        BY <2>2 DEF out
      <4> QED
        BY <4>1, <4>2, <4>3, <4>4, <4>5
    <3>2. left \subseteq DOMAIN m.cone
      BY DEF SetsLeft
    <3> HIDE DEF left
    <3> SUFFICES ASSUME NEW k \in DOMAIN nm.cone, NEW l \in DOMAIN nm.cone,
                        nm.cone[k].tag = nm.cone[l].tag
                 PROVE  k = l
      OBVIOUS
    <3>6. \A s : SetWithout(s, kept).tag = s.tag
      BY DEF SetWithout
    <3>3. /\ nm.cone[k].tag = m.cone[Nth(left, k)].tag
          /\ nm.cone[l].tag = m.cone[Nth(left, l)].tag
      BY <3>1, <3>6
    <3>4. Nth(left, k) \in DOMAIN m.cone /\ Nth(left, l) \in DOMAIN m.cone
      BY <3>1, <3>2
    <3>5. Nth(left, k) = Nth(left, l)
      BY <1>1, <3>3, <3>4 DEF ConesFit
    <3> QED
      BY <3>1, <3>5, Positions
  <2> QED
    BY <2>3, <2>4 DEF ConesFit
<1>8. /\ DOMAIN nm = Fields /\ DOMAIN nm.name = {"col", "row"}
      /\ nm.sense \in BOOLEAN /\ Len(nm.row) = NumRow
  BY <1>1 DEF ColsShorter, NumRow
<1> QED
  BY <1>3, <1>4, <1>5, <1>6, <1>7, <1>8 DEF Shape, c

\* The same of jaos_delete_rows.
RowsShorter(nm, kept) ==
    /\ DOMAIN nm = Fields /\ DOMAIN nm.name = {"col", "row"}
    /\ nm.col = m.col /\ nm.cost = m.cost /\ nm.sense = m.sense
    /\ nm.integer = m.integer /\ nm.semi = m.semi /\ nm.quad = m.quad
    /\ nm.q = m.q /\ nm.sos = m.sos /\ nm.cone = m.cone
    /\ nm.name.col = m.name.col
    /\ ShorterBy(nm.row, m.row, kept, 1 .. fresh - 1)
    /\ ShorterBy(nm.bound, m.bound, kept, BOOLEAN)
    /\ nm.a = [j \in Cols |-> {NewIndex(kept, i) : i \in m.a[j] \cap kept}]
    /\ CutBy(nm.ind, m.ind, kept, Indicators(NumCol))
    /\ CutBy(nm.rq, m.rq, kept, SUBSET (Cols \X Cols))
    /\ CutBy(nm.name.row, m.name.row, kept, Labels)

LEMMA RowsWithoutIs ==
  ASSUME fresh \in Nat, Shape(m, fresh), NEW kept, kept \subseteq Rows
  PROVE  Places(kept) /\ RowsShorter(RowsWithout(kept), kept)
<1> DEFINE nm == RowsWithout(kept)
<1>0. /\ NumRow \in Nat /\ m.row \in [1 .. NumRow -> 1 .. fresh - 1]
      /\ NumCol \in Nat
  BY SizesAreNat DEF NumRow, NumCol
<1>1. /\ DOMAIN m = Fields /\ DOMAIN m.name = {"col", "row"}
      /\ RowsFit(m, NumCol, NumRow)
  BY DEF Shape, NumCol, NumRow
<1>2. kept \subseteq 1 .. NumRow /\ Places(kept)
  BY <1>0, PlacesOf DEF Rows
<1>3. /\ DOMAIN nm = Fields /\ DOMAIN nm.name = {"col", "row"}
      /\ nm.col = m.col /\ nm.cost = m.cost /\ nm.sense = m.sense
      /\ nm.integer = m.integer /\ nm.semi = m.semi /\ nm.quad = m.quad
      /\ nm.q = m.q /\ nm.sos = m.sos /\ nm.cone = m.cone
      /\ nm.name.col = m.name.col
  BY <1>1 DEF RowsWithout, Fields
<1>4. /\ nm.row = Only(m.row, kept) /\ nm.bound = Only(m.bound, kept)
      /\ nm.a = [j \in Cols |-> {NewIndex(kept, i) : i \in m.a[j] \cap kept}]
      /\ nm.ind = Compact(m.ind, kept) /\ nm.rq = Compact(m.rq, kept)
      /\ nm.name.row = Compact(m.name.row, kept)
  BY <1>1 DEF RowsWithout, Fields
<1> HIDE DEF nm
<1>5. ShorterBy(nm.row, m.row, kept, 1 .. fresh - 1)
  <2>1. ShorterBy(Only(m.row, kept), m.row, kept, 1 .. fresh - 1)
    BY <1>0, <1>2, ShorterIs
  <2> QED
    BY <1>4, <2>1
<1>6. ShorterBy(nm.bound, m.bound, kept, BOOLEAN)
  <2>1. m.bound \in [1 .. NumRow -> BOOLEAN]
    BY <1>1 DEF RowsFit
  <2>2. ShorterBy(Only(m.bound, kept), m.bound, kept, BOOLEAN)
    BY <1>2, <2>1, ShorterIs
  <2> QED
    BY <1>4, <2>2
<1>7. CutBy(nm.ind, m.ind, kept, Indicators(NumCol))
  <2>1. Optional(m.ind, NumRow, Indicators(NumCol))
    BY <1>1 DEF RowsFit
  <2>2. NULL \notin Seq(Indicators(NumCol))
    BY <1>0, NullIsNoArray
  <2>3. CutBy(Compact(m.ind, kept), m.ind, kept, Indicators(NumCol))
    BY <1>2, <2>1, <2>2, CutIs
  <2> QED
    BY <1>4, <2>3
<1>8. CutBy(nm.rq, m.rq, kept, SUBSET (Cols \X Cols))
  <2>1. Optional(m.rq, NumRow, SUBSET (Cols \X Cols))
    BY <1>1 DEF RowsFit, Cols
  <2>2. NULL \notin Seq(SUBSET (Cols \X Cols))
    BY <1>0, NullIsNoArray DEF Cols
  <2>3. CutBy(Compact(m.rq, kept), m.rq, kept, SUBSET (Cols \X Cols))
    BY <1>2, <2>1, <2>2, CutIs
  <2> QED
    BY <1>4, <2>3
<1>9. CutBy(nm.name.row, m.name.row, kept, Labels)
  <2>1. Optional(m.name.row, NumRow, Labels)
    BY <1>1 DEF RowsFit
  <2>2. NULL \notin Seq(Labels)
    BY NullIsNoArray
  <2>3. CutBy(Compact(m.name.row, kept), m.name.row, kept, Labels)
    BY <1>2, <2>1, <2>2, CutIs
  <2> QED
    BY <1>4, <2>3
<1> QED
  BY <1>2, <1>3, <1>4, <1>5, <1>6, <1>7, <1>8, <1>9 DEF RowsShorter, nm

LEMMA RowsShorterShape ==
  ASSUME fresh \in Nat, Shape(m, fresh), NEW kept, Places(kept),
         kept \subseteq Rows, NEW nm, RowsShorter(nm, kept)
  PROVE  Shape(nm, fresh) /\ Len(nm.row) = Cardinality(kept)
<1> DEFINE c == Cardinality(kept)
<1>0. /\ NumCol \in Nat /\ NumRow \in Nat
      /\ m.row \in [1 .. NumRow -> 1 .. fresh - 1] /\ DOMAIN m.row = 1 .. NumRow
  BY SizesAreNat DEF NumCol, NumRow
<1>1. /\ m.sense \in BOOLEAN /\ TagsFit(m, fresh)
      /\ ColsFit(m, NumCol, NumRow) /\ RowsFit(m, NumCol, NumRow)
      /\ ConesFit(m, NumCol, fresh)
  BY DEF Shape, NumCol, NumRow
<1>2. kept \subseteq 1 .. NumRow
  BY DEF Rows
<1>3. /\ nm.row \in Seq(1 .. fresh - 1) /\ Len(nm.row) = c /\ c \in Nat
      /\ IsInjective(nm.row) /\ Range(nm.row) = {m.row[p] : p \in kept}
  <2>1. ShorterBy(nm.row, m.row, kept, 1 .. fresh - 1) /\ IsInjective(m.row)
    BY <1>1 DEF RowsShorter, TagsFit
  <2>2. TagsShorter(nm.row, m.row, kept, 1 .. fresh - 1)
    BY <1>0, <1>2, <2>1, TagsShorterFit
  <2>3. Cardinality(kept) \in Nat
    BY Positions
  <2> QED
    BY <2>2, <2>3 DEF TagsShorter, c
<1>4. TagsFit(nm, fresh)
  <2>1. Range(nm.row) \subseteq Range(m.row)
    BY <1>0, <1>2, <1>3 DEF Range
  <2>2. nm.col = m.col
    BY DEF RowsShorter
  <2> QED
    BY <1>1, <1>3, <2>1, <2>2 DEF TagsFit
<1>5. ColsFit(nm, NumCol, c)
  <2>1. /\ nm.cost = m.cost /\ nm.integer = m.integer /\ nm.semi = m.semi
        /\ nm.quad = m.quad /\ nm.q = m.q /\ nm.name.col = m.name.col
    BY DEF RowsShorter
  <2>2. nm.a \in [1 .. NumCol -> SUBSET (1 .. c)]
    <3>1. nm.a = [j \in 1 .. NumCol |->
                    {NewIndex(kept, i) : i \in m.a[j] \cap kept}]
      BY DEF RowsShorter, Cols
    <3>2. \A i \in kept : NewIndex(kept, i) \in 1 .. c
      BY Positions
    <3> HIDE DEF c
    <3> QED
      BY <3>1, <3>2
  <2> QED
    BY <1>1, <2>1, <2>2 DEF ColsFit
<1>6. RowsFit(nm, NumCol, c)
  <2>1. nm.bound \in [1 .. c -> BOOLEAN]
    BY DEF RowsShorter, ShorterBy
  <2>2. /\ Optional(nm.name.row, c, Labels)
        /\ Optional(nm.ind, c, Indicators(NumCol))
        /\ Optional(nm.rq, c, SUBSET (Cols \X Cols))
    BY DEF RowsShorter, CutBy
  <2> QED
    BY <2>1, <2>2 DEF RowsFit, Cols
<1>7. ConesFit(nm, NumCol, fresh)
  <2>1. nm.sos = m.sos /\ nm.cone = m.cone
    BY DEF RowsShorter
  <2> QED
    BY <1>1, <2>1 DEF ConesFit
<1>8. /\ DOMAIN nm = Fields /\ DOMAIN nm.name = {"col", "row"}
      /\ nm.sense \in BOOLEAN /\ Len(nm.col) = NumCol
  BY <1>1 DEF RowsShorter, NumCol
<1> QED
  BY <1>3, <1>4, <1>5, <1>6, <1>7, <1>8 DEF Shape

-----------------------------------------------------------------------------
\* Shape, over every call.

\* What jaos_load_lp builds has its shape.
LEMMA BareFits ==
  ASSUME fresh \in Nat \ {0}, NEW s \in Starts,
         NEW row, row = [i \in 1 .. Len(s.row) |-> fresh + Len(s.a) + i - 1]
  PROVE  /\ Shape(Bare(Tagged(Len(s.a)), row, s.a), fresh + Len(s.a) + Len(s.row))
         /\ Len(s.a) \in Nat /\ Len(s.row) \in Nat
<1> DEFINE n == Len(s.a)
           k == Len(s.row)
           next == fresh + n + k
           col == Tagged(n)
           new == Bare(col, row, s.a)
<1>1. /\ n \in Nat /\ k \in Nat /\ s.a \in [1 .. n -> SUBSET (1 .. k)]
  <2>1. Shape(s, First)
    BY ModelStoreAssumption
  <2>2. /\ Len(s.col) \in Nat /\ k \in Nat
        /\ s.a \in [1 .. Len(s.col) -> SUBSET (1 .. k)]
    BY <2>1, SizesAreNat DEF Shape, ColsFit
  <2>3. Len(s.a) = Len(s.col)
    BY <2>2, ArrayIsSeq
  <2> QED
    BY <2>2, <2>3
<1> HIDE DEF n, k
<1>2. /\ col \in [1 .. n -> 1 .. next - 1]
      /\ \A i \in 1 .. n : col[i] = fresh + i - 1
  <2>1. \A i \in 1 .. n : /\ fresh + i - 1 \in 1 .. next - 1
                          /\ fresh + i - 1 = (fresh + i) - 1
                          /\ fresh + (i - 1) = (fresh + i) - 1
    BY <1>1
  <2> QED
    BY <2>1 DEF Tagged
<1>3. /\ row \in [1 .. k -> 1 .. next - 1]
      /\ \A i \in 1 .. k : row[i] = (fresh + n + i) - 1
  <2>1. \A i \in 1 .. k : /\ fresh + n + i - 1 \in 1 .. next - 1
                          /\ fresh + n + i - 1 = (fresh + n + i) - 1
                          /\ fresh + n + (i - 1) = (fresh + n + i) - 1
    BY <1>1
  <2>2. row = [i \in 1 .. k |-> fresh + n + i - 1]
    BY DEF n, k
  <2>3. \A i \in 1 .. k : row[i] = fresh + n + i - 1
    BY <2>2
  <2> DEFINE T == 1 .. next - 1
  <2>4. \A i \in 1 .. k : row[i] \in T
    BY <2>1, <2>3
  <2> HIDE DEF T, next
  <2>5. row \in [1 .. k -> T]
    BY <2>2, <2>4
  <2> QED
    BY <2>1, <2>3, <2>5 DEF T
<1> HIDE DEF col, next
<1>4. /\ col \in Seq(1 .. next - 1) /\ Len(col) = n /\ DOMAIN col = 1 .. n
      /\ row \in Seq(1 .. next - 1) /\ Len(row) = k /\ DOMAIN row = 1 .. k
  <2>1. col \in Seq(1 .. next - 1) /\ Len(col) = n
    BY <1>1, <1>2, ArrayIsSeq
  <2>2. row \in [1 .. k -> 1 .. next - 1]
    BY <1>3
  <2>3. \A r : r \in [1 .. k -> 1 .. next - 1] =>
          r \in Seq(1 .. next - 1) /\ Len(r) = k /\ DOMAIN r = 1 .. k
    BY <1>1, ArrayIsSeq, Zenon
  <2> QED
    BY <1>2, <2>1, <2>2, <2>3, Zenon
<1>5. IsInjective(col) /\ IsInjective(row) /\ Range(col) \cap Range(row) = {}
  <2>1. ASSUME NEW p \in 1 .. n, NEW q \in 1 .. n, col[p] = col[q] PROVE p = q
    BY <1>1, <1>2, <2>1
  <2>2. ASSUME NEW p \in 1 .. k, NEW q \in 1 .. k, row[p] = row[q] PROVE p = q
    BY <1>1, <1>3, <2>2
  <2>3. ASSUME NEW p \in 1 .. n, NEW q \in 1 .. k PROVE col[p] # row[q]
    <3>1. col[p] = fresh + p - 1 /\ row[q] = (fresh + n + q) - 1
      BY <1>2, <1>3
    <3> QED
      BY <1>1, <3>1
  <2>4. IsInjective(col)
    BY <1>4, <2>1 DEF IsInjective
  <2>5. IsInjective(row)
    BY <1>4, <2>2 DEF IsInjective
  <2>6. Range(col) \cap Range(row) = {}
    BY <1>4, <2>3 DEF Range
  <2> QED
    BY <2>4, <2>5, <2>6
<1>6. /\ DOMAIN new = Fields /\ DOMAIN new.name = {"col", "row"}
      /\ new.col = col /\ new.row = row /\ new.a = s.a
      /\ new.cost = Blank(n) /\ new.bound = Blank(k) /\ new.sense = FALSE
      /\ new.integer = NULL /\ new.semi = NULL /\ new.quad = NULL
      /\ new.q = {} /\ new.ind = NULL /\ new.sos = <<>> /\ new.cone = <<>>
      /\ new.rq = NULL /\ new.name.col = NULL /\ new.name.row = NULL
  BY <1>4 DEF Bare, Fields
<1> HIDE DEF new
<1>7. TagsFit(new, next)
  BY <1>4, <1>5, <1>6 DEF TagsFit
<1>8. ColsFit(new, n, k) /\ RowsFit(new, n, k)
  BY <1>1, <1>6, BlankFits DEF ColsFit, RowsFit, Optional
<1>9. ConesFit(new, n, next)
  BY <1>6 DEF ConesFit, SetsFit
<1> QED
  BY <1>1, <1>4, <1>6, <1>7, <1>8, <1>9 DEF Shape, n, k, next, new, col

\* Every edit that resizes the model keeps its shape.
LEMMA EditKeepsShape ==
  ASSUME fresh \in Nat \ {0}, Shape(m, fresh), Edit
  PROVE  Shape(m', fresh') /\ fresh' \in Nat \ {0}
<1>0. NumCol \in Nat /\ NumRow \in Nat /\ fresh \in Nat
  BY SizesAreNat DEF NumCol, NumRow
<1>1. ASSUME NEW code, Refuse(code)
      PROVE  Shape(m', fresh') /\ fresh' \in Nat \ {0}
  BY <1>1 DEF Refuse
<1>2. ASSUME NEW new \in NewCols, AddCols(new)
      PROVE  Shape(m', fresh') /\ fresh' \in Nat \ {0}
  <2>1. CASE UNCHANGED <<m, fresh>>
    BY <2>1
  <2>2. CASE /\ m' = ColsGrown(new) /\ fresh' = fresh + Len(new)
             /\ \A k \in DOMAIN new : new[k].rows \subseteq Rows
    <3>1. Len(new) \in Nat /\ ColsLonger(ColsGrown(new), new)
      BY <2>2, ColsGrownIs
    <3>2. Shape(ColsGrown(new), fresh + Len(new))
      BY <3>1, ColsLongerShape
    <3>3. fresh + Len(new) \in Nat \ {0}
      BY <3>1
    <3> QED
      BY <2>2, <3>2, <3>3
  <2> QED
    BY <1>2, <2>1, <2>2
       DEF AddCols, ColsCannotGrow, Invalid, OutOfMemory, Refuse
<1>3. ASSUME NEW new \in NewRows, AddRows(new)
      PROVE  Shape(m', fresh') /\ fresh' \in Nat \ {0}
  <2>1. CASE UNCHANGED <<m, fresh>>
    BY <2>1
  <2>2. CASE /\ \/ m' = RowsGrown(new)
                \/ IndicatorsFail /\ m' = [RowsGrown(new) EXCEPT !.ind = NULL]
             /\ fresh' = fresh + Len(new)
    <3>1. ASSUME NEW nm, m' = nm,
                 \/ nm = RowsGrown(new)
                 \/ IndicatorsFail /\ nm = [RowsGrown(new) EXCEPT !.ind = NULL]
          PROVE  Shape(m', fresh') /\ fresh' \in Nat \ {0}
      <4>1. Len(new) \in Nat /\ RowsLonger(nm, new)
        BY <3>1, RowsGrownIs
      <4>2. Shape(nm, fresh + Len(new))
        BY <4>1, RowsLongerShape
      <4>3. fresh + Len(new) \in Nat \ {0}
        BY <4>1
      <4> QED
        BY <2>2, <3>1, <4>2, <4>3
    <3> QED
      BY <2>2, <3>1
  <2> QED
    BY <1>3, <2>1, <2>2 DEF AddRows, Invalid, OutOfMemory, Refuse
<1>4. ASSUME NEW gone \in SUBSET Cols, DeleteCols(gone)
      PROVE  Shape(m', fresh') /\ fresh' \in Nat \ {0}
  <2> DEFINE kept == KeptOf(NumCol, gone)
  <2>1. CASE UNCHANGED <<m, fresh>>
    BY <2>1
  <2>2. CASE /\ \A j \in gone : ~Drives(j) /\ ~InCone(j)
             /\ m' = ColsWithout(kept) /\ UNCHANGED fresh
    <3>1. kept = Cols \ gone
      BY DEF KeptOf, Cols
    <3>2. DriversStay(kept)
      BY <1>0, <2>2, <3>1, NeededStay
    <3>3. kept \subseteq Cols
      BY <3>1
    <3> HIDE DEF kept
    <3>4. Places(kept) /\ ColsShorter(ColsWithout(kept), kept)
      BY <1>0, <3>3, ColsWithoutIs
    <3>5. Shape(ColsWithout(kept), fresh)
      BY <1>0, <3>2, <3>3, <3>4, ColsShorterShape
    <3> QED
      BY <2>2, <3>5
  <2> HIDE DEF kept
  <2> QED
    BY <1>4, <2>1, <2>2 DEF DeleteCols, Invalid, OutOfMemory, Refuse, kept
<1>5. ASSUME NEW gone \in SUBSET Rows, DeleteRows(gone)
      PROVE  Shape(m', fresh') /\ fresh' \in Nat \ {0}
  <2> DEFINE kept == KeptOf(NumRow, gone)
  <2>1. CASE UNCHANGED <<m, fresh>>
    BY <2>1
  <2>2. CASE m' = RowsWithout(kept) /\ UNCHANGED fresh
    <3>1. kept \subseteq Rows
      BY DEF KeptOf, Rows
    <3> HIDE DEF kept
    <3>2. Places(kept) /\ RowsShorter(RowsWithout(kept), kept)
      BY <1>0, <3>1, RowsWithoutIs
    <3>3. Shape(RowsWithout(kept), fresh)
      BY <1>0, <3>1, <3>2, RowsShorterShape
    <3> QED
      BY <2>2, <3>3
  <2> HIDE DEF kept
  <2> QED
    BY <1>5, <2>1, <2>2 DEF DeleteRows, OutOfMemory, Refuse, kept
<1>6. ASSUME NEW s \in Starts, Load(s.a, Len(s.row))
      PROVE  Shape(m', fresh') /\ fresh' \in Nat \ {0}
  <2> DEFINE row == [i \in 1 .. Len(s.row) |-> fresh + Len(s.a) + i - 1]
             new == Bare(Tagged(Len(s.a)), row, s.a)
             next == fresh + Len(s.a) + Len(s.row)
  <2>1. CASE UNCHANGED <<m, fresh>>
    BY <2>1
  <2>2. CASE m' = new /\ fresh' = next
    <3>1. Shape(new, next)
      BY BareFits
    <3>2. Len(s.a) \in Nat /\ Len(s.row) \in Nat
      BY BareFits
    <3>3. next \in Nat \ {0}
      <4>1. \A p, q \in Nat : fresh + p + q \in Nat \ {0}
        OBVIOUS
      <4> QED
        BY <3>2, <4>1
    <3> HIDE DEF new, next
    <3> QED
      BY <2>2, <3>1, <3>3
  <2> QED
    BY <1>6, <2>1, <2>2 DEF Load, Invalid, OutOfMemory, Refuse
<1> QED
  BY <1>2, <1>3, <1>4, <1>5, <1>6 DEF Edit

\* What hangs on the model changes no size.
LEMMA AttachKeepsShape ==
  ASSUME fresh \in Nat, Shape(m, fresh), Attach
  PROVE  Shape(m', fresh') /\ fresh' = fresh /\ m'.col = m.col
<1>0. NumCol \in Nat /\ NumRow \in Nat
  BY SizesAreNat DEF NumCol, NumRow
<1>1. CASE UNCHANGED <<m, fresh>>
  BY <1>1
<1>2. ASSUME NEW side \in {"col", "row"}, NEW k \in 1 .. Count(side),
             NEW name \in Names \cup {1, NULL}, SetName(side, k, name)
      PROVE  Shape(m', fresh') /\ fresh' = fresh /\ m'.col = m.col
  <2> DEFINE names == IF m.name[side] = NULL
                      THEN [i \in 1 .. Count(side) |-> NULL]
                      ELSE m.name[side]
             given == [names EXCEPT ![k] = name]
             new == [m EXCEPT !.name[side] = given]
  <2>1. CASE UNCHANGED <<m, fresh>>
    BY <2>1
  <2>2. CASE m' = new /\ UNCHANGED fresh
    <3>1. /\ DOMAIN m = Fields /\ DOMAIN m.name = {"col", "row"}
          /\ m.sense \in BOOLEAN
          /\ ColsFit(m, NumCol, NumRow) /\ RowsFit(m, NumCol, NumRow)
      BY DEF Shape, NumCol, NumRow
    <3>2. Optional(m.name[side], Count(side), Labels)
      BY <3>1 DEF ColsFit, RowsFit, Count
    <3>3. names \in [1 .. Count(side) -> Labels]
      BY <3>2 DEF Optional, Labels
    <3>4. Optional(given, Count(side), Labels)
      BY <3>3 DEF Optional, Labels
    <3> HIDE DEF given
    <3>5. /\ DOMAIN new = Fields /\ DOMAIN new.name = {"col", "row"}
          /\ \A f \in Fields \ {"name"} : new[f] = m[f]
          /\ new.name[side] = given
          /\ \A s \in {"col", "row"} \ {side} : new.name[s] = m.name[s]
      BY <3>1 DEF Fields
    <3> HIDE DEF new
    <3>6. /\ new.col = m.col /\ new.row = m.row /\ new.a = m.a
          /\ new.cost = m.cost /\ new.bound = m.bound /\ new.sense = m.sense
          /\ new.integer = m.integer /\ new.semi = m.semi /\ new.quad = m.quad
          /\ new.q = m.q /\ new.ind = m.ind /\ new.rq = m.rq
          /\ new.sos = m.sos /\ new.cone = m.cone
      BY <3>5 DEF Fields
    <3>7. /\ Optional(new.name.col, NumCol, Labels)
          /\ Optional(new.name.row, NumRow, Labels)
      BY <3>1, <3>4, <3>5 DEF Count, ColsFit, RowsFit
    <3>8. DataFits(new)
      BY <3>1, <3>5, <3>6, <3>7 DEF DataFits, ColsFit, RowsFit
    <3> QED
      BY <2>2, <3>6, <3>8, DataShape
  <2> QED
    BY <1>2, <2>1, <2>2 DEF SetName, Nothing, OutOfMemory, Refuse
<1>3. CASE SetBasis \/ ClearBasis \/ SetMipStart \/ SetOptions
  BY <1>1, <1>3 DEF SetBasis, ClearBasis, SetMipStart, SetOptions
<1>4. CASE FindByName \/ EnsureRowwise \/ Copy \/ Solve
  BY <1>1, <1>4 DEF FindByName, EnsureRowwise, Copy, Solve, OutOfMemory,
     Invalid, Refuse
<1> QED
  BY <1>2, <1>3, <1>4 DEF Attach

-----------------------------------------------------------------------------
\* What hangs on the arrays: bases, starts, names and the row-wise copy.

\* What an edit of the data leaves alone.
Codes == {"OK", "OUT_OF_MEMORY", "INVALID_INPUT"}
SameNames ==
    /\ m'.col = m.col /\ m'.row = m.row /\ m'.name = m.name
    /\ UNCHANGED <<start, mipStart, map>> /\ ret' \in Codes
    /\ fresh' \in {fresh, fresh + 1}
SameCopy ==
    /\ DOMAIN rowwise' = DOMAIN rowwise
    /\ ~rowwise'.valid \/ (UNCHANGED rowwise /\ m'.a = m.a)

\* Such an edit changes neither the names nor the sizes, and a row-wise copy
\* that stays is of the same coefficients.
LEMMA DataKeepsTheRest ==
  ASSUME DOMAIN m = Fields, DOMAIN rowwise = {"valid", "of"},
         Attributes \/ Structure
  PROVE  SameNames /\ SameCopy
<1> USE DEF Codes, attached, Returns, SameNames, SameCopy
<1>1. ASSUME NEW code \in Codes, Refuse(code) PROVE SameNames /\ SameCopy
  BY <1>1 DEF Refuse
<1>2. ASSUME NEW new, Edits(new) \/ WithTag(new),
             new.col = m.col, new.row = m.row, new.name = m.name, new.a = m.a
      PROVE  SameNames /\ SameCopy
  BY <1>2 DEF Edits, WithTag
<1>3. ASSUME NEW f \in Fields \ {"col", "row", "name", "a"}, NEW v,
             Edits([m EXCEPT ![f] = v]) \/ WithTag([m EXCEPT ![f] = v])
      PROVE  SameNames /\ SameCopy
  <2> DEFINE new == [m EXCEPT ![f] = v]
  <2>1. /\ new.col = m.col /\ new.row = m.row /\ new.name = m.name
        /\ new.a = m.a
    BY DEF Fields
  <2> HIDE DEF new
  <2> QED
    BY <1>2, <1>3, <2>1 DEF new
<1> HIDE DEF SameNames, SameCopy
<1>4. ASSUME NEW j, SetColNumbers(j) PROVE SameNames /\ SameCopy
  <2>1. "cost" \in Fields \ {"col", "row", "name", "a"}
    BY DEF Fields
  <2> QED
    BY <1>3, <1>4, <2>1 DEF SetColNumbers
<1>5. ASSUME NEW i, SetRowBounds(i) PROVE SameNames /\ SameCopy
  <2>1. "bound" \in Fields \ {"col", "row", "name", "a"}
    BY DEF Fields
  <2> QED
    BY <1>3, <1>5, <2>1 DEF SetRowBounds
<1>6. CASE SetObjective
  <2>1. "sense" \in Fields \ {"col", "row", "name", "a"}
    BY DEF Fields
  <2> QED
    BY <1>3, <1>6, <2>1 DEF SetObjective
<1>7. ASSUME NEW i, NEW j, NEW zero, SetCoefficient(i, j, zero)
      PROVE  SameNames /\ SameCopy
  <2> DEFINE new == [m EXCEPT
               !.a[j] = IF zero THEN @ \ {i} ELSE @ \cup {i},
               !.cost[j] = IF i \in m.a[j] /\ ~zero THEN ~@ ELSE @]
  <2>1. CASE Nothing \/ OutOfMemory
    BY <1>1, <2>1 DEF Nothing, OutOfMemory
  <2>2. CASE m' = new /\ MatrixIsStale /\ ret' = "OK"
             /\ UNCHANGED <<start, mipStart, map, fresh>>
    <3>1. new.col = m.col /\ new.row = m.row /\ new.name = m.name
      BY DEF Fields
    <3>2. DOMAIN rowwise' = DOMAIN rowwise /\ ~rowwise'.valid
      BY <2>2 DEF MatrixIsStale
    <3> HIDE DEF new
    <3> QED
      BY <2>2, <3>1, <3>2 DEF SameNames, SameCopy
  <2> HIDE DEF new
  <2> QED
    BY <1>7, <2>1, <2>2 DEF SetCoefficient, new
<1>8. ASSUME NEW j, NEW on, SetInteger(j, on) PROVE SameNames /\ SameCopy
  <2>1. "integer" \in Fields \ {"col", "row", "name", "a"}
    BY DEF Fields
  <2> QED
    BY <1>1, <1>3, <1>8, <2>1 DEF SetInteger, Nothing, OutOfMemory, Invalid
<1>9. ASSUME NEW j, NEW on, SetColQuadratic(j, on) PROVE SameNames /\ SameCopy
  <2>1. "quad" \in Fields \ {"col", "row", "name", "a"}
    BY DEF Fields
  <2> QED
    BY <1>1, <1>3, <1>9, <2>1 DEF SetColQuadratic, Nothing, OutOfMemory
<1>10. ASSUME NEW terms, SetQuadratic(terms) PROVE SameNames /\ SameCopy
  <2> DEFINE new == [m EXCEPT
             !.quad = IF \E j \in Cols : <<j, j>> \in terms
                      THEN [j \in Cols |-> <<j, j>> \in terms] ELSE NULL,
             !.q = {p \in terms : p[1] # p[2]}]
  <2>1. /\ new.col = m.col /\ new.row = m.row /\ new.name = m.name
        /\ new.a = m.a
    BY DEF Fields
  <2> HIDE DEF new
  <2> QED
    BY <1>1, <1>2, <1>10, <2>1 DEF SetQuadratic, Invalid, OutOfMemory, new
<1>11. ASSUME NEW j, NEW on, SetSemi(j, on) PROVE SameNames /\ SameCopy
  <2> DEFINE semis == IF m.semi = NULL /\ on THEN Blank(NumCol) ELSE m.semi
             integers == IF m.integer = NULL /\ on THEN Blank(NumCol)
                         ELSE m.integer
             made == [m EXCEPT !.semi = semis, !.integer = integers]
             half == [m EXCEPT !.semi = semis]
             full == [made EXCEPT !.semi[j] = on]
  <2>1. \A new \in {made, half, full} :
           /\ new.col = m.col /\ new.row = m.row /\ new.name = m.name
           /\ new.a = m.a
    BY DEF Fields
  <2>2. CASE OutOfMemory
    BY <1>1, <2>2 DEF OutOfMemory
  <2>3. CASE m' \in {made, half} /\ ret' \in Codes
             /\ UNCHANGED <<start, mipStart, map, rowwise, fresh>>
    <3> HIDE DEF made, half, full
    <3> QED
      BY <2>1, <2>3 DEF SameNames, SameCopy
  <2>4. CASE Edits(full)
    <3> HIDE DEF made, half, full
    <3> QED
      BY <1>2, <2>1, <2>4
  <2> HIDE DEF made, half, full
  <2> QED
    BY <1>11, <2>2, <2>3, <2>4
       DEF SetSemi, semis, integers, made, half, full
<1>12. ASSUME NEW col, AddSos(col) PROVE SameNames /\ SameCopy
  <2> DEFINE new == [m EXCEPT !.sos = Append(@, Set(col)),
                      !.integer = IF @ = NULL THEN Blank(NumCol) ELSE @]
  <2>1. /\ new.col = m.col /\ new.row = m.row /\ new.name = m.name
        /\ new.a = m.a
    BY DEF Fields
  <2> HIDE DEF new
  <2> QED
    BY <1>1, <1>2, <1>12, <2>1 DEF AddSos, Invalid, OutOfMemory, new
<1>13. ASSUME NEW col, AddCone(col) PROVE SameNames /\ SameCopy
  <2>1. "cone" \in Fields \ {"col", "row", "name", "a"}
    BY DEF Fields
  <2> QED
    BY <1>1, <1>3, <1>13, <2>1 DEF AddCone, Invalid, OutOfMemory
<1>14. ASSUME NEW i, NEW j, SetIndicator(i, j, 1) PROVE SameNames /\ SameCopy
  <2>1. "ind" \in Fields \ {"col", "row", "name", "a"}
    BY DEF Fields
  <2> QED
    BY <1>1, <1>3, <1>14, <2>1
       DEF SetIndicator, Nothing, Invalid, OutOfMemory
<1>15. ASSUME NEW gone, DeleteCones(gone) PROVE SameNames /\ SameCopy
  <2>1. "cone" \in Fields \ {"col", "row", "name", "a"}
    BY DEF Fields
  <2> QED
    BY <1>1, <1>3, <1>15, <2>1 DEF DeleteCones, OutOfMemory
<1>16. ASSUME NEW i, NEW terms, SetRowQuadratic(i, terms)
       PROVE  SameNames /\ SameCopy
  <2> DEFINE half == [m EXCEPT !.rq =
                        IF @ = NULL THEN [r \in Rows |-> {}] ELSE @]
             full == [m EXCEPT !.rq =
                        [(IF @ = NULL THEN [r \in Rows |-> {}] ELSE @)
                           EXCEPT ![i] = terms]]
  <2>1. \A new \in {half, full} :
           /\ new.col = m.col /\ new.row = m.row /\ new.name = m.name
           /\ new.a = m.a
    BY DEF Fields
  <2>2. CASE m' = half /\ ret' \in Codes
             /\ UNCHANGED <<start, mipStart, map, rowwise, fresh>>
    <3> HIDE DEF half, full
    <3> QED
      BY <2>1, <2>2 DEF SameNames, SameCopy
  <2>3. CASE Edits(full)
    <3> HIDE DEF half, full
    <3> QED
      BY <1>2, <2>1, <2>3
  <2> HIDE DEF half, full
  <2> QED
    BY <1>1, <1>16, <2>2, <2>3
       DEF SetRowQuadratic, Invalid, OutOfMemory, half, full
<1> QED
  BY <1>4, <1>5, <1>6, <1>7, <1>8, <1>9, <1>10, <1>11, <1>12, <1>13, <1>14,
     <1>15, <1>16 DEF Attributes, Structure

\* A basis is there for columns and rows or for neither, with a status for
\* each; one that fits has as many basic entries as there are rows.
BasisIsWhole(b, n, k) ==
    /\ DOMAIN b = {"col", "row"}
    /\ (b.col = NULL) = (b.row = NULL)
    /\ Optional(b.col, n, BOOLEAN) /\ Optional(b.row, k, BOOLEAN)
BasisFits(b, n, k) ==
    /\ BasisIsWhole(b, n, k)
    /\ Paired(b) => BasicIn(b.col) + BasicIn(b.row) = k

LEMMA NoBasisFits == \A n, k : BasisFits(NoBasis, n, k)
BY DEF NoBasis, BasisFits, BasisIsWhole, Optional, Paired

\* What basis_survives_or_goes leaves fits.
LEMMA SurvivesFits ==
  ASSUME NEW b, NEW n, NEW k, BasisIsWhole(b, n, k)
  PROVE  BasisFits(Survives(b, k), n, k)
BY NoBasisFits DEF Survives, BasisFits

\* A basis the user gives fits the model.
LEMMA BasesFit ==
  ASSUME NumCol \in Nat, NumRow \in Nat, NEW b \in Bases
  PROVE  BasisFits(b, NumCol, NumRow) /\ b # NoBasis
<1> DEFINE basic == [i \in Rows |-> TRUE]
<1>1. Blank(NumCol) \in [1 .. NumCol -> BOOLEAN]
  BY BlankFits
<1>2. basic \in [1 .. NumRow -> BOOLEAN]
  BY DEF Rows
<1>3. IsFiniteSet(Rows) /\ Cardinality(Rows) = NumRow
  BY FS_Interval DEF Rows
<1>4. NULL \notin [1 .. NumCol -> BOOLEAN] /\ NULL \notin [1 .. NumRow -> BOOLEAN]
  BY ArrayIsSeq, NullAssumption
<1>5. ASSUME b = Slack
      PROVE  BasisFits(b, NumCol, NumRow) /\ b # NoBasis
  <2>1. /\ DOMAIN b = {"col", "row"} /\ b.col = Blank(NumCol) /\ b.row = basic
    BY <1>5 DEF Slack
  <2>2. BasicIn(Blank(NumCol)) = 0
    <3>1. {k \in DOMAIN Blank(NumCol) : Blank(NumCol)[k]} = {}
      BY DEF Blank
    <3> QED
      BY <3>1, FS_EmptySet DEF BasicIn
  <2>3. BasicIn(basic) = NumRow
    <3>1. {k \in DOMAIN basic : basic[k]} = Rows
      OBVIOUS
    <3> QED
      BY <1>3, <3>1 DEF BasicIn
  <2> HIDE DEF basic
  <2>4. b.col # NULL /\ b.row # NULL
    BY <1>1, <1>2, <1>4, <2>1
  <2>5. BasicIn(b.col) + BasicIn(b.row) = NumRow
    BY <2>1, <2>2, <2>3
  <2> QED
    BY <1>1, <1>2, <2>1, <2>4, <2>5
       DEF BasisFits, BasisIsWhole, Optional, NoBasis
<1>6. ASSUME NEW j \in Cols, NEW i \in Rows, b = InPlaceOf(i, j)
      PROVE  BasisFits(b, NumCol, NumRow) /\ b # NoBasis
  <2> DEFINE col == [Blank(NumCol) EXCEPT ![j] = TRUE]
             row == [basic EXCEPT ![i] = FALSE]
  <2>1. DOMAIN b = {"col", "row"} /\ b.col = col /\ b.row = row
    BY <1>6 DEF InPlaceOf, Slack
  <2>2. col \in [1 .. NumCol -> BOOLEAN] /\ row \in [1 .. NumRow -> BOOLEAN]
    BY <1>1, <1>2
  <2>3. BasicIn(col) = 1
    <3>1. {k \in DOMAIN col : col[k]} = {j}
      BY DEF Blank, Cols
    <3> QED
      BY <3>1, FS_Singleton DEF BasicIn
  <2>4. BasicIn(row) = NumRow - 1
    <3>1. {k \in DOMAIN row : row[k]} = Rows \ {i}
      OBVIOUS
    <3>2. Cardinality(Rows \ {i}) = NumRow - 1
      BY <1>3, FS_RemoveElement
    <3> QED
      BY <3>1, <3>2 DEF BasicIn
  <2> HIDE DEF col, row
  <2>5. b.col # NULL /\ b.row # NULL
    BY <1>4, <2>1, <2>2
  <2>6. BasicIn(b.col) + BasicIn(b.row) = NumRow
    BY <2>1, <2>3, <2>4
  <2> QED
    BY <2>1, <2>2, <2>5, <2>6
       DEF BasisFits, BasisIsWhole, Optional, NoBasis
<1>7. b = Slack \/ \E j \in Cols, i \in Rows : b = InPlaceOf(i, j)
  BY DEF Bases
<1> QED
  BY <1>5, <1>6, <1>7

\* What hangs on the arrays fits them.
Attached ==
    /\ mipStart # NULL => mipStart = m.col
    /\ BasisFits(start, NumCol, NumRow)
    /\ DOMAIN rowwise = {"valid", "of"} /\ RowwiseAgrees
    /\ map.valid => map.col = MapOf(m.name.col) /\ map.row = MapOf(m.name.row)

\* What hangs on the arrays fits them after an edit in place,
LEMMA SameKeepsAttached ==
  ASSUME Attached, SameNames, SameCopy, DOMAIN rowwise' = {"valid", "of"}
  PROVE  Attached'
<1>1. NumCol' = NumCol /\ NumRow' = NumRow
  BY DEF SameNames, NumCol, NumRow
<1>2. Cols' = Cols /\ Rows' = Rows
  BY <1>1 DEF Cols, Rows
<1>3. RowwiseAgrees'
  BY <1>2 DEF SameCopy, Attached, RowwiseAgrees, Entries
<1> QED
  BY <1>1, <1>3 DEF Attached, SameNames

\* after a call that sets, clears, names, copies or solves,
LEMMA AttachKeepsAttached ==
  ASSUME Attached, fresh \in Nat, Shape(m, fresh), Attach
  PROVE  Attached' /\ ret' \in Codes
<1> USE DEF Returns, Codes
<1>0. NumCol \in Nat /\ NumRow \in Nat
  BY SizesAreNat DEF NumCol, NumRow
<1>1. ASSUME NEW code \in Codes, Refuse(code) PROVE Attached' /\ ret' \in Codes
  BY <1>1 DEF Refuse, attached, Attached, RowwiseAgrees, Entries, Rows, Cols,
     NumCol, NumRow
<1>2. ASSUME m' = m, BasisFits(start', NumCol, NumRow), ret' \in Codes,
             UNCHANGED <<mipStart, rowwise, map>>
      PROVE  Attached' /\ ret' \in Codes
  BY <1>2 DEF Attached, RowwiseAgrees, Entries, Rows, Cols, NumCol, NumRow
<1>3. CASE SetBasis \/ ClearBasis
  BY <1>0, <1>2, <1>3, BasesFit, NoBasisFits DEF SetBasis, ClearBasis
<1>4. CASE SetMipStart
  BY <1>4 DEF SetMipStart, Attached, RowwiseAgrees, Entries, Rows, Cols,
     NumCol, NumRow
<1>5. CASE SetOptions
  <2>1. BasisFits(start, NumCol, NumRow)
    BY DEF Attached
  <2> QED
    BY <1>2, <1>5, <2>1 DEF SetOptions, attached
<1>6. ASSUME NEW side \in {"col", "row"}, NEW k, NEW name, SetName(side, k, name)
      PROVE  Attached' /\ ret' \in Codes
  <2> DEFINE names == IF m.name[side] = NULL
                      THEN [i \in 1 .. Count(side) |-> NULL]
                      ELSE m.name[side]
             given == [names EXCEPT ![k] = name]
             new == [m EXCEPT !.name[side] = given]
  <2>1. CASE Nothing \/ OutOfMemory
    BY <1>1, <2>1 DEF Nothing, OutOfMemory
  <2>2. CASE m' = new /\ map' = NoMap /\ ret' = "OK"
             /\ UNCHANGED <<start, mipStart, rowwise>>
    <3>1. DOMAIN m = Fields
      BY DEF Shape
    <3>2. new.col = m.col /\ new.row = m.row /\ new.a = m.a
      BY <3>1 DEF Fields
    <3> HIDE DEF new
    <3> QED
      BY <2>2, <3>2 DEF Attached, RowwiseAgrees, Entries, Rows, Cols, NumCol,
         NumRow, NoMap
  <2> HIDE DEF new
  <2> QED
    BY <1>6, <2>1, <2>2 DEF SetName, NamesAreStale, new
<1>7. CASE FindByName
  <2>1. CASE OutOfMemory
    BY <1>1, <2>1 DEF OutOfMemory
  <2>2. CASE /\ map' = IF map.valid THEN map
                       ELSE [valid |-> TRUE, col |-> MapOf(m.name.col),
                             row |-> MapOf(m.name.row)]
             /\ ret' = "OK" /\ UNCHANGED <<m, start, mipStart, rowwise>>
    BY <2>2 DEF Attached, RowwiseAgrees, Entries, Rows, Cols, NumCol, NumRow
  <2> QED
    BY <1>7, <2>1, <2>2 DEF FindByName
<1>8. CASE EnsureRowwise
  <2>1. CASE OutOfMemory
    BY <1>1, <2>1 DEF OutOfMemory
  <2>2. CASE /\ rowwise' = IF rowwise.valid THEN rowwise
                           ELSE [valid |-> TRUE, of |-> Entries]
             /\ ret' = "OK" /\ UNCHANGED <<m, start, mipStart, map>>
    BY <2>2 DEF Attached, RowwiseAgrees, Entries, Rows, Cols, NumCol, NumRow
  <2> QED
    BY <1>8, <2>1, <2>2 DEF EnsureRowwise
<1>9. CASE Copy
  <2>1. CASE OutOfMemory
    BY <1>1, <2>1 DEF OutOfMemory
  <2>2. CASE /\ rowwise' = NoCopy /\ map' = NoMap
             /\ start' = IF Paired(start) THEN start ELSE NoBasis
             /\ ret' = "OK" /\ UNCHANGED <<m, mipStart>>
    <3>1. BasisFits(start', NumCol, NumRow)
      BY <2>2, NoBasisFits DEF Attached
    <3> QED
      BY <2>2, <3>1 DEF Attached, RowwiseAgrees, NumCol, NumRow, NoMap, NoCopy
  <2> QED
    BY <1>9, <2>1, <2>2 DEF Copy
<1>10. CASE Solve
  <2>0. BasisFits(start, NumCol, NumRow)
    BY DEF Attached
  <2>1. CASE Invalid
    BY <1>1, <2>1 DEF Invalid
  <2>2. CASE UNCHANGED <<m, attached>> /\ ret' = "OK"
    BY <1>2, <2>0, <2>2 DEF attached
  <2>3. CASE /\ \E b \in Bases : start' = b
             /\ UNCHANGED <<m, mipStart, rowwise, map>> /\ ret' = "OK"
    BY <1>0, <1>2, <2>3, BasesFit
  <2> QED
    BY <1>10, <2>1, <2>2, <2>3 DEF Solve
<1> QED
  BY <1>3, <1>4, <1>5, <1>6, <1>7, <1>8, <1>9, <1>10 DEF Attach

\* and after one that resizes the model.
LEMMA EditKeepsAttached ==
  ASSUME Attached, fresh \in Nat \ {0}, Shape(m, fresh), Edit
  PROVE  Attached' /\ ret' \in Codes
<1> USE DEF Returns, Codes
<1>0. /\ NumCol \in Nat /\ NumRow \in Nat /\ fresh \in Nat
      /\ m.col \in [1 .. NumCol -> 1 .. fresh - 1]
  BY SizesAreNat DEF NumCol, NumRow
<1>a. /\ BasisIsWhole(start, NumCol, NumRow)
      /\ DOMAIN start = {"col", "row"} /\ (start.col = NULL) = (start.row = NULL)
      /\ Optional(start.col, NumCol, BOOLEAN)
      /\ Optional(start.row, NumRow, BOOLEAN)
      /\ NULL \notin Seq(BOOLEAN)
  BY NullAssumption DEF Attached, BasisFits, BasisIsWhole
<1>1. ASSUME NEW code \in Codes, Refuse(code) PROVE Attached' /\ ret' \in Codes
  BY <1>1 DEF Refuse, attached, Attached, RowwiseAgrees, Entries, Rows, Cols,
     NumCol, NumRow
<1>2. ASSUME rowwise' = NoCopy \/ rowwise' = [rowwise EXCEPT !.valid = FALSE],
             map' = NoMap, ret' = "OK",
             mipStart' # NULL => mipStart' = m'.col,
             BasisFits(start', Len(m'.col), Len(m'.row))
      PROVE  Attached' /\ ret' \in Codes
  <2>1. DOMAIN rowwise = {"valid", "of"}
    BY DEF Attached
  <2>2. DOMAIN rowwise' = {"valid", "of"} /\ ~rowwise'.valid
    BY <1>2, <2>1 DEF NoCopy
  <2> QED
    BY <1>2, <2>2 DEF Attached, RowwiseAgrees, NoMap, NumCol, NumRow
<1>3. ASSUME NEW new \in NewCols, AddCols(new)
      PROVE  Attached' /\ ret' \in Codes
  <2> DEFINE n == Len(new)
  <2>1. CASE Invalid \/ OutOfMemory
    BY <1>1, <2>1 DEF Invalid, OutOfMemory
  <2>2. CASE ColsCannotGrow(new)
    BY <2>2, NoBasisFits DEF ColsCannotGrow, Attached, RowwiseAgrees, Entries,
       Rows, Cols, NumCol, NumRow
  <2>3. CASE /\ \A k \in DOMAIN new : new[k].rows \subseteq Rows
             /\ m' = ColsGrown(new)
             /\ mipStart' = IF mipStart = NULL THEN NULL
                            ELSE mipStart \o Tagged(n)
             /\ \/ start' = Survives(BasisOfCols(new), NumRow)
                \/ start' = NoBasis
             /\ MatrixIsStale /\ NamesAreStale /\ ret' = "OK"
    <3>1. n \in Nat /\ ColsLonger(ColsGrown(new), new)
      BY <2>3, ColsGrownIs
    <3>2. Len(m'.col) = NumCol + n /\ Len(m'.row) = NumRow
      BY <2>3, <3>1 DEF ColsLonger, TagsLonger, NumRow
    <3>3. m'.col = m.col \o Tagged(n)
      <4>1. DOMAIN m = Fields
        BY DEF Shape
      <4> QED
        BY <2>3, <4>1 DEF ColsGrown, Fields
    <3>4. BasisIsWhole(BasisOfCols(new), NumCol + n, NumRow)
      <4> DEFINE b == [start EXCEPT !.col = Grown(@, n, FALSE)]
      <4>1. GrownBy(Grown(start.col, n, FALSE), start.col, NumCol, n, BOOLEAN,
                    FALSE)
        BY <1>0, <1>a, <3>1, GrownIs
      <4>2. DOMAIN b = {"col", "row"} /\ b.row = start.row
              /\ b.col = Grown(start.col, n, FALSE)
        BY <1>a
      <4> HIDE DEF b, n
      <4>3. BasisIsWhole(b, NumCol + n, NumRow)
        BY <1>a, <4>1, <4>2 DEF BasisIsWhole, GrownBy
      <4> QED
        BY <4>3, NoBasisFits DEF BasisOfCols, BasisFits, b, n
    <3> HIDE DEF n
    <3>5. BasisFits(start', NumCol + n, NumRow)
      BY <2>3, <3>4, SurvivesFits, NoBasisFits
    <3>6. mipStart' # NULL => mipStart' = m'.col
      BY <2>3, <3>3 DEF Attached
    <3> QED
      BY <1>2, <2>3, <3>2, <3>5, <3>6 DEF MatrixIsStale, NamesAreStale
  <2> QED
    BY <1>3, <2>1, <2>2, <2>3 DEF AddCols
<1>4. ASSUME NEW new \in NewRows, AddRows(new)
      PROVE  Attached' /\ ret' \in Codes
  <2> DEFINE n == Len(new)
  <2>1. CASE Invalid \/ OutOfMemory
    BY <1>1, <2>1 DEF Invalid, OutOfMemory
  <2>2. CASE /\ \/ m' = RowsGrown(new)
                \/ IndicatorsFail /\ m' = [RowsGrown(new) EXCEPT !.ind = NULL]
             /\ \/ start' = RowsOfBasis(new)
                \/ start' = NoBasis
             /\ MatrixIsStale /\ NamesAreStale /\ ret' = "OK"
             /\ UNCHANGED mipStart
    <3>1. n \in Nat /\ Len(m'.row) = NumRow + n /\ m'.col = m.col
      <4>1. ASSUME NEW nm, m' = nm,
                   \/ nm = RowsGrown(new)
                   \/ IndicatorsFail /\ nm = [RowsGrown(new) EXCEPT !.ind = NULL]
            PROVE  n \in Nat /\ Len(m'.row) = NumRow + n /\ m'.col = m.col
        <5>1. n \in Nat /\ RowsLonger(nm, new)
          BY <4>1, RowsGrownIs
        <5> QED
          BY <4>1, <5>1 DEF RowsLonger, TagsLonger
      <4> QED
        BY <2>2, <4>1
    <3>2. BasisFits(RowsOfBasis(new), NumCol, NumRow + n)
      <4> DEFINE b == [start EXCEPT !.row = Grown(@, n, TRUE)]
      <4>1. GrownBy(Grown(start.row, n, TRUE), start.row, NumRow, n, BOOLEAN,
                    TRUE)
        BY <1>0, <1>a, <3>1, GrownIs
      <4>2. DOMAIN b = {"col", "row"} /\ b.col = start.col
              /\ b.row = Grown(start.row, n, TRUE)
        BY <1>a
      <4>3. RowsOfBasis(new) = Survives(b, NumRow + n)
        BY DEF RowsOfBasis
      <4> HIDE DEF b, n
      <4>4. BasisIsWhole(b, NumCol, NumRow + n)
        BY <1>a, <4>1, <4>2 DEF BasisIsWhole, GrownBy
      <4> QED
        BY <4>3, <4>4, SurvivesFits
    <3> HIDE DEF n
    <3>3. BasisFits(start', Len(m'.col), Len(m'.row))
      BY <2>2, <3>1, <3>2, NoBasisFits DEF NumCol
    <3> QED
      BY <1>2, <2>2, <3>1, <3>3 DEF MatrixIsStale, NamesAreStale, Attached
  <2> QED
    BY <1>4, <2>1, <2>2 DEF AddRows
<1>5. ASSUME NEW gone \in SUBSET Cols, DeleteCols(gone)
      PROVE  Attached' /\ ret' \in Codes
  <2> DEFINE kept == KeptOf(NumCol, gone)
             b == [start EXCEPT !.col = Compact(@, kept)]
  <2>1. CASE Invalid \/ OutOfMemory
    BY <1>1, <2>1 DEF Invalid, OutOfMemory
  <2>2. CASE /\ m' = ColsWithout(kept)
             /\ start' = Survives(b, NumRow)
             /\ mipStart' = Compact(mipStart, kept)
             /\ MatrixIsStale /\ NamesAreStale /\ ret' = "OK"
    <3>1. kept \subseteq 1 .. NumCol /\ kept \subseteq Cols
      BY DEF KeptOf, Cols
    <3>2. DOMAIN b = {"col", "row"} /\ b.row = start.row
            /\ b.col = Compact(start.col, kept)
      BY <1>a
    <3> HIDE DEF kept, b
    <3>3. Places(kept) /\ ColsShorter(ColsWithout(kept), kept)
      BY <1>0, <3>1, ColsWithoutIs
    <3>4. DOMAIN m = Fields
      BY DEF Shape
    <3>5. m'.col = Only(m.col, kept) /\ m'.row = m.row
      BY <2>2, <3>4 DEF ColsWithout, Fields
    <3>6. Len(m'.col) = Cardinality(kept)
      <4>1. ShorterBy(m'.col, m.col, kept, 1 .. fresh - 1)
        BY <2>2, <3>3 DEF ColsShorter
      <4>2. Cardinality(kept) \in Nat
        BY <3>3, Positions
      <4> QED
        BY <4>1, <4>2, ArrayIsSeq DEF ShorterBy
    <3>7. CutBy(Compact(start.col, kept), start.col, kept, BOOLEAN)
      BY <1>a, <3>1, <3>3, CutIs
    <3>8. BasisIsWhole(b, Cardinality(kept), NumRow)
      BY <1>a, <3>2, <3>7 DEF BasisIsWhole, CutBy
    <3>9. BasisFits(start', Len(m'.col), Len(m'.row))
      BY <2>2, <3>5, <3>6, <3>8, SurvivesFits DEF NumRow
    <3>10. mipStart' # NULL => mipStart' = m'.col
      BY <2>2, <3>5 DEF Compact, Attached
    <3> QED
      BY <1>2, <2>2, <3>9, <3>10 DEF MatrixIsStale, NamesAreStale
  <2> HIDE DEF kept, b
  <2> QED
    BY <1>5, <2>1, <2>2 DEF DeleteCols, kept, b
<1>6. ASSUME NEW gone \in SUBSET Rows, DeleteRows(gone)
      PROVE  Attached' /\ ret' \in Codes
  <2> DEFINE kept == KeptOf(NumRow, gone)
             b == [start EXCEPT !.row = Compact(@, kept)]
  <2>1. CASE OutOfMemory
    BY <1>1, <2>1 DEF OutOfMemory
  <2>2. CASE /\ m' = RowsWithout(kept)
             /\ start' = Survives(b, Cardinality(kept))
             /\ UNCHANGED mipStart
             /\ MatrixIsStale /\ NamesAreStale /\ ret' = "OK"
    <3>1. kept \subseteq 1 .. NumRow /\ kept \subseteq Rows
      BY DEF KeptOf, Rows
    <3>2. DOMAIN b = {"col", "row"} /\ b.col = start.col
            /\ b.row = Compact(start.row, kept)
      BY <1>a
    <3> HIDE DEF kept, b
    <3>3. Places(kept) /\ RowsShorter(RowsWithout(kept), kept)
      BY <1>0, <3>1, RowsWithoutIs
    <3>5. m'.col = m.col
      BY <2>2, <3>3 DEF RowsShorter
    <3>6. Len(m'.row) = Cardinality(kept)
      <4>1. ShorterBy(m'.row, m.row, kept, 1 .. fresh - 1)
        BY <2>2, <3>3 DEF RowsShorter
      <4>2. Cardinality(kept) \in Nat
        BY <3>3, Positions
      <4> QED
        BY <4>1, <4>2, ArrayIsSeq DEF ShorterBy
    <3>7. CutBy(Compact(start.row, kept), start.row, kept, BOOLEAN)
      BY <1>a, <3>1, <3>3, CutIs
    <3>8. BasisIsWhole(b, NumCol, Cardinality(kept))
      BY <1>a, <3>2, <3>7 DEF BasisIsWhole, CutBy
    <3>9. BasisFits(start', Len(m'.col), Len(m'.row))
      BY <2>2, <3>5, <3>6, <3>8, SurvivesFits DEF NumCol
    <3>10. mipStart' # NULL => mipStart' = m'.col
      BY <2>2, <3>5 DEF Attached
    <3> QED
      BY <1>2, <2>2, <3>9, <3>10 DEF MatrixIsStale, NamesAreStale
  <2> HIDE DEF kept, b
  <2> QED
    BY <1>6, <2>1, <2>2 DEF DeleteRows, kept, b
<1>7. ASSUME NEW s, Load(s.a, Len(s.row)) PROVE Attached' /\ ret' \in Codes
  <2>1. CASE Invalid \/ OutOfMemory
    BY <1>1, <2>1 DEF Invalid, OutOfMemory
  <2>2. CASE /\ start' = NoBasis /\ mipStart' = NULL
             /\ rowwise' = NoCopy /\ map' = NoMap /\ ret' = "OK"
    BY <1>2, <2>2, NoBasisFits
  <2> QED
    BY <1>7, <2>1, <2>2 DEF Load
<1> QED
  BY <1>3, <1>4, <1>5, <1>6, <1>7 DEF Edit

\* The arrays of the model are those of its columns and rows, and what hangs
\* on them fits.
Sound ==
    /\ fresh \in Nat \ {0} /\ Shape(m, fresh)
    /\ Attached
    /\ ret \in Codes

\* The strengthening of TypeOK is inductive.
LEMMA AlwaysSound == Init /\ [][Next]_vars => []Sound
<1>1. Init => Sound
  <2> SUFFICES ASSUME Init PROVE Sound
    OBVIOUS
  <2>1. Shape(m, fresh) /\ fresh \in Nat \ {0}
    BY ModelStoreAssumption DEF Init
  <2>2. Attached
    BY NoBasisFits DEF Init, Attached, NoCopy, NoMap, RowwiseAgrees
  <2> QED
    BY <2>1, <2>2 DEF Sound, Init, Codes
<1>2. Sound /\ [Next]_vars => Sound'
  <2> SUFFICES ASSUME Sound, [Next]_vars PROVE Sound'
    OBVIOUS
  <2>0. fresh \in Nat \ {0} /\ fresh \in Nat /\ Shape(m, fresh) /\ Attached
          /\ DOMAIN m = Fields /\ DOMAIN rowwise = {"valid", "of"}
    BY DEF Sound, Shape, Attached
  <2>1. CASE UNCHANGED vars
    BY <2>1 DEF vars, attached, Sound, Attached, RowwiseAgrees, Entries,
       Rows, Cols, NumCol, NumRow
  <2>2. CASE Attributes \/ Structure
    <3>1. SameNames /\ SameCopy
      BY <2>0, <2>2, DataKeepsTheRest
    <3>2. Shape(m', fresh') /\ fresh' \in Nat \ {0}
      <4>1. Shape(m', fresh')
        BY <2>0, <2>2, AttributesKeepShape, StructureKeepsShape
      <4>2. fresh' \in {fresh, fresh + 1}
        BY <3>1 DEF SameNames
      <4> QED
        BY <2>0, <4>1, <4>2
    <3>3. DOMAIN rowwise' = {"valid", "of"}
      BY <2>0, <3>1 DEF SameCopy
    <3> QED
      BY <2>0, <3>1, <3>2, <3>3, SameKeepsAttached DEF Sound, SameNames
  <2>3. CASE Edit
    BY <2>0, <2>3, EditKeepsShape, EditKeepsAttached DEF Sound
  <2>4. CASE Attach
    BY <2>0, <2>4, AttachKeepsShape, AttachKeepsAttached DEF Sound
  <2> QED
    BY <2>1, <2>2, <2>3, <2>4 DEF Next, Call
<1> QED
  BY <1>1, <1>2, PTL

-----------------------------------------------------------------------------
\* The column of an indicator is integer.

\* The indicators and the marks, apart from the rest of the shape.
LEMMA ShapeIndicators ==
  ASSUME NEW mm, NEW next, Shape(mm, next)
  PROVE  /\ Optional(mm.ind, Len(mm.row), [col : Nat, val : {0, 1}])
         /\ Optional(mm.ind, Len(mm.row), Indicators(Len(mm.col)))
         /\ Optional(mm.integer, Len(mm.col), BOOLEAN)
<1>1. Len(mm.col) \in Nat
  BY SizesAreNat
<1>2. Indicators(Len(mm.col)) \subseteq [col : Nat, val : {0, 1}]
  BY <1>1 DEF Indicators
<1> QED
  BY <1>2 DEF Shape, RowsFit, ColsFit, Optional

\* Where the indicators stay, so do the marks of their columns; where there
\* is no mark, there is no indicator.
LEMMA SameDrivers ==
  ASSUME fresh \in Nat, Shape(m, fresh), DriversAreInteger(m), NEW mm,
         mm.ind = m.ind,
         \A j \in Cols : Marked(m.integer, j) => Marked(mm.integer, j)
  PROVE  DriversAreInteger(mm)
<1>1. /\ Optional(m.ind, NumRow, Indicators(NumCol)) /\ NumCol \in Nat
  BY ShapeIndicators, SizesAreNat DEF NumRow, NumCol
<1> SUFFICES ASSUME m.ind # NULL, NEW i \in DOMAIN m.ind, m.ind[i].col > 0
             PROVE  Marked(mm.integer, m.ind[i].col)
  BY DEF DriversAreInteger
<1>2. m.ind[i].col \in 0 .. NumCol
  BY <1>1 DEF Optional, Indicators
<1>3. m.ind[i].col \in Cols
  BY <1>1, <1>2 DEF Cols
<1>4. Marked(m.integer, m.ind[i].col)
  BY DEF DriversAreInteger
<1> QED
  BY <1>3, <1>4

\* The guards of set_col_integer and set_row_indicator keep them so,
LEMMA DataKeepsDrivers ==
  ASSUME fresh \in Nat, Shape(m, fresh), DriversAreInteger(m),
         Attributes \/ Structure
  PROVE  DriversAreInteger(m')
<1>0. DOMAIN m = Fields /\ NumCol \in Nat /\ NumRow \in Nat
        /\ Optional(m.integer, NumCol, BOOLEAN)
        /\ Optional(m.ind, NumRow, Indicators(NumCol))
  BY SizesAreNat, ShapeIndicators DEF Shape, NumCol, NumRow
<1>1. ASSUME m' = m PROVE DriversAreInteger(m')
  BY <1>1
<1>2. ASSUME NEW mm, m' = mm, mm.ind = m.ind, mm.integer = m.integer
      PROVE  DriversAreInteger(m')
  BY <1>2, SameDrivers
<1>3. ASSUME NEW mm, m' = mm, mm.ind = m.ind,
             \A j \in Cols : Marked(m.integer, j) => Marked(mm.integer, j)
      PROVE  DriversAreInteger(m')
  BY <1>3, SameDrivers
<1> USE DEF Edits, Fields
<1>4. ASSUME NEW j, SetColNumbers(j) PROVE DriversAreInteger(m')
  <2>1. m'.ind = m.ind /\ m'.integer = m.integer
    BY <1>0, <1>4 DEF SetColNumbers
  <2> QED
    BY <1>2, <2>1
<1>5. ASSUME NEW i, SetRowBounds(i) PROVE DriversAreInteger(m')
  <2>1. m'.ind = m.ind /\ m'.integer = m.integer
    BY <1>0, <1>5 DEF SetRowBounds
  <2> QED
    BY <1>2, <2>1
<1>6. CASE SetObjective
  <2>1. m'.ind = m.ind /\ m'.integer = m.integer
    BY <1>0, <1>6 DEF SetObjective
  <2> QED
    BY <1>2, <2>1
<1>7. ASSUME NEW i, NEW j, NEW zero, SetCoefficient(i, j, zero)
      PROVE  DriversAreInteger(m')
  <2>1. m'.ind = m.ind /\ m'.integer = m.integer
    BY <1>0, <1>7 DEF SetCoefficient, Nothing, OutOfMemory, Refuse
  <2> QED
    BY <1>2, <2>1
<1>8. ASSUME NEW j \in Cols, NEW on \in BOOLEAN, SetInteger(j, on)
      PROVE  DriversAreInteger(m')
  <2> DEFINE s == [(IF m.integer = NULL THEN Blank(NumCol) ELSE m.integer)
                     EXCEPT ![j] = on]
             new == [m EXCEPT !.integer = s]
  <2>1. CASE m' = m
    BY <1>1, <2>1
  <2>2. CASE m' = new /\ (on \/ ~Drives(j))
    <3>1. new.ind = m.ind /\ new.integer = s
      BY <1>0
    <3>2. s \in [Cols -> BOOLEAN] /\ s[j] = on
            /\ \A k \in Cols \ {j} : Marked(m.integer, k) => s[k]
      BY <1>0, BlankFits DEF Optional, Cols, Marked
    <3>3. s # NULL
      <4>1. NULL \notin [Cols -> BOOLEAN]
        BY <1>0, ArrayIsSeq, NullAssumption DEF Cols
      <4> QED
        BY <3>2, <4>1
    <3> HIDE DEF s
    <3>4. CASE on
      <4>1. \A k \in Cols : Marked(m.integer, k) => Marked(new.integer, k)
        BY <3>1, <3>2, <3>3, <3>4 DEF Marked
      <4> HIDE DEF new
      <4> QED
        BY <1>3, <2>2, <3>1, <4>1
    <3>5. CASE ~Drives(j)
      <4> SUFFICES ASSUME m.ind # NULL, NEW i \in DOMAIN m.ind,
                          m.ind[i].col > 0
                   PROVE  Marked(s, m.ind[i].col)
        BY <2>2, <3>1 DEF DriversAreInteger
      <4>1. m.ind[i].col \in 0 .. NumCol
        BY <1>0 DEF Optional, Indicators
      <4>2. m.ind[i].col \in Cols
        BY <1>0, <4>1 DEF Cols
      <4>3. m.ind[i].col # j
        BY <3>5 DEF Drives, Held
      <4>4. Marked(m.integer, m.ind[i].col)
        BY DEF DriversAreInteger
      <4> QED
        BY <3>2, <3>3, <4>2, <4>3, <4>4 DEF Marked
    <3> QED
      BY <2>2, <3>4, <3>5
  <2> HIDE DEF new
  <2> QED
    BY <1>8, <2>1, <2>2
       DEF SetInteger, Nothing, OutOfMemory, Invalid, Refuse, new
<1>9. ASSUME NEW j, NEW on, SetColQuadratic(j, on)
      PROVE  DriversAreInteger(m')
  <2>1. m'.ind = m.ind /\ m'.integer = m.integer
    BY <1>0, <1>9 DEF SetColQuadratic, Nothing, OutOfMemory, Refuse
  <2> QED
    BY <1>2, <2>1
<1>10. ASSUME NEW terms, SetQuadratic(terms) PROVE DriversAreInteger(m')
  <2>1. m'.ind = m.ind /\ m'.integer = m.integer
    BY <1>0, <1>10 DEF SetQuadratic, Invalid, OutOfMemory, Refuse
  <2> QED
    BY <1>2, <2>1
<1>11. ASSUME NEW j, NEW on, SetSemi(j, on) PROVE DriversAreInteger(m')
  <2> DEFINE semis == IF m.semi = NULL /\ on THEN Blank(NumCol) ELSE m.semi
             integers == IF m.integer = NULL /\ on THEN Blank(NumCol)
                         ELSE m.integer
             made == [m EXCEPT !.semi = semis, !.integer = integers]
             half == [m EXCEPT !.semi = semis]
             full == [made EXCEPT !.semi[j] = on]
  <2>1. \A new \in {made, half, full} :
           new.ind = m.ind /\ new.integer \in {m.integer, integers}
    BY <1>0
  <2>2. \A k : Marked(m.integer, k) => Marked(integers, k)
    BY DEF Marked
  <2> HIDE DEF made, half, full, integers
  <2>3. m' \in {m, made, half, full}
    BY <1>11
       DEF SetSemi, semis, integers, made, half, full, OutOfMemory, Refuse
  <2>4. CASE m' = m
    BY <1>1, <2>4
  <2>5. ASSUME NEW new \in {made, half, full}, m' = new
        PROVE  DriversAreInteger(m')
    BY <1>3, <2>1, <2>2, <2>5
  <2> QED
    BY <2>3, <2>4, <2>5
<1>12. ASSUME NEW col, AddSos(col) PROVE DriversAreInteger(m')
  <2> DEFINE marks == IF m.integer = NULL THEN Blank(NumCol) ELSE m.integer
             new == [m EXCEPT !.sos = Append(@, Set(col)), !.integer = marks]
  <2>1. new.ind = m.ind /\ new.integer = marks
    BY <1>0
  <2>2. \A k : Marked(m.integer, k) => Marked(marks, k)
    BY DEF Marked
  <2>3. m' \in {m, new}
    BY <1>12 DEF AddSos, WithTag, Invalid, OutOfMemory, Refuse
  <2> HIDE DEF new, marks
  <2>4. CASE m' = m
    BY <1>1, <2>4
  <2>5. CASE m' = new
    BY <1>3, <2>1, <2>2, <2>5
  <2> QED
    BY <2>3, <2>4, <2>5
<1>13. ASSUME NEW col, AddCone(col) PROVE DriversAreInteger(m')
  <2>1. m'.ind = m.ind /\ m'.integer = m.integer
    BY <1>0, <1>13 DEF AddCone, WithTag, Invalid, OutOfMemory, Refuse
  <2> QED
    BY <1>2, <2>1
<1>14. ASSUME NEW i \in Rows, NEW j \in {0} \cup Cols, SetIndicator(i, j, 1)
       PROVE  DriversAreInteger(m')
  <2> DEFINE none == [m EXCEPT !.ind[i].col = 0]
             ind == [(IF m.ind = NULL THEN [r \in Rows |-> NoIndicator]
                      ELSE m.ind) EXCEPT ![i] = [col |-> j, val |-> 1]]
             new == [m EXCEPT !.ind = ind]
  <2>1. CASE m' = m
    BY <1>1, <2>1
  <2>2. CASE m' = none /\ m.ind # NULL
    <3>1. none.ind = [m.ind EXCEPT ![i].col = 0] /\ none.integer = m.integer
      BY <1>0
    <3>2. m.ind \in [Rows -> Indicators(NumCol)]
      BY <1>0, <2>2 DEF Optional, Rows
    <3>3. \A k \in DOMAIN none.ind :
            none.ind[k].col > 0 => k \in DOMAIN m.ind
                                   /\ none.ind[k].col = m.ind[k].col
      BY <3>1, <3>2 DEF Indicators
    <3> HIDE DEF none
    <3> QED
      BY <2>2, <3>1, <3>3 DEF DriversAreInteger
  <2>3. CASE m' = new /\ j > 0 /\ Marked(m.integer, j)
    <3>1. new.ind = ind /\ new.integer = m.integer
      BY <1>0
    <3>2. \A k \in DOMAIN ind :
            ind[k].col > 0 => Marked(m.integer, ind[k].col)
      <4>1. CASE m.ind = NULL
        <5>1. \A k \in DOMAIN ind : ind[k] = NoIndicator \/ ind[k].col = j
          BY <4>1
        <5> HIDE DEF ind
        <5>2. ~(NoIndicator.col > 0)
          BY DEF NoIndicator
        <5> QED
          BY <2>3, <5>1, <5>2
      <4>2. CASE m.ind # NULL
        <5>1. m.ind \in [Rows -> Indicators(NumCol)]
          BY <1>0, <4>2 DEF Optional, Rows
        <5>2. \A k \in DOMAIN ind :
                k \in DOMAIN m.ind /\ (ind[k] = m.ind[k] \/ ind[k].col = j)
          BY <4>2, <5>1
        <5> HIDE DEF ind
        <5> QED
          BY <2>3, <4>2, <5>2 DEF DriversAreInteger
      <4> QED
        BY <4>1, <4>2
    <3> HIDE DEF ind, new
    <3> QED
      BY <2>3, <3>1, <3>2 DEF DriversAreInteger
  <2> HIDE DEF new, none
  <2> QED
    BY <1>14, <2>1, <2>2, <2>3
       DEF SetIndicator, Nothing, Invalid, OutOfMemory, Refuse, new, none
<1>15. ASSUME NEW gone, DeleteCones(gone) PROVE DriversAreInteger(m')
  <2>1. m'.ind = m.ind /\ m'.integer = m.integer
    BY <1>0, <1>15 DEF DeleteCones, OutOfMemory, Refuse
  <2> QED
    BY <1>2, <2>1
<1>16. ASSUME NEW i, NEW terms, SetRowQuadratic(i, terms)
       PROVE  DriversAreInteger(m')
  <2>1. m'.ind = m.ind /\ m'.integer = m.integer
    BY <1>0, <1>16 DEF SetRowQuadratic, Invalid, OutOfMemory, Refuse
  <2> QED
    BY <1>2, <2>1
<1> QED
  BY <1>4, <1>5, <1>6, <1>7, <1>8, <1>9, <1>10, <1>11, <1>12, <1>13, <1>14,
     <1>15, <1>16 DEF Attributes, Structure

\* the compaction carries marks and indicators along together,
LEMMA EditKeepsDrivers ==
  ASSUME fresh \in Nat \ {0}, Shape(m, fresh), DriversAreInteger(m), Edit
  PROVE  DriversAreInteger(m')
<1>0. /\ DOMAIN m = Fields /\ NumCol \in Nat /\ NumRow \in Nat
      /\ fresh \in Nat
      /\ Optional(m.integer, NumCol, BOOLEAN)
      /\ Optional(m.ind, NumRow, Indicators(NumCol))
  BY SizesAreNat, ShapeIndicators DEF Shape, NumCol, NumRow
<1>1. ASSUME m' = m PROVE DriversAreInteger(m')
  BY <1>1
<1>2. ASSUME NEW new \in NewCols, AddCols(new) PROVE DriversAreInteger(m')
  <2> DEFINE nm == ColsGrown(new)
  <2>1. CASE /\ m' = nm
             /\ \A k \in DOMAIN new : new[k].rows \subseteq Rows
    <3>1. ColsLonger(nm, new)
      BY <2>1, ColsGrownIs
    <3> HIDE DEF nm
    <3>2. nm.ind = m.ind
      BY <3>1 DEF ColsLonger
    <3>3. \A j \in Cols : Marked(m.integer, j) => Marked(nm.integer, j)
      BY <3>1 DEF ColsLonger, GrownBy, LongerBy, Marked, Cols
    <3> QED
      BY <1>0, <2>1, <3>2, <3>3, SameDrivers
  <2> HIDE DEF nm
  <2> QED
    BY <1>1, <1>2, <2>1 DEF AddCols, ColsCannotGrow, Invalid, OutOfMemory,
       Refuse, nm
<1>3. ASSUME NEW new \in NewRows, AddRows(new) PROVE DriversAreInteger(m')
  <2>1. CASE \/ m' = RowsGrown(new)
             \/ IndicatorsFail /\ m' = [RowsGrown(new) EXCEPT !.ind = NULL]
    <3>1. ASSUME NEW nm, m' = nm,
                 \/ nm = RowsGrown(new)
                 \/ IndicatorsFail /\ nm = [RowsGrown(new) EXCEPT !.ind = NULL]
          PROVE  DriversAreInteger(m')
      <4>1. Len(new) \in Nat /\ RowsLonger(nm, new)
        BY <3>1, RowsGrownIs
      <4>2. nm.integer = m.integer
        BY <4>1 DEF RowsLonger
      <4> SUFFICES ASSUME nm.ind # NULL, NEW i \in DOMAIN nm.ind,
                          nm.ind[i].col > 0
                   PROVE  Marked(m.integer, nm.ind[i].col)
        BY <3>1, <4>2 DEF DriversAreInteger
      <4>3. /\ m.ind # NULL
            /\ LongerBy(nm.ind, m.ind, NumRow, Len(new), Indicators(NumCol),
                        NoIndicator)
        BY <4>1 DEF RowsLonger, GrownBy
      <4>4. i \in 1 .. NumRow + Len(new)
        BY <4>3 DEF LongerBy
      <4>5. CASE i \in 1 .. NumRow
        <5>1. nm.ind[i] = m.ind[i]
          BY <4>3, <4>5 DEF LongerBy
        <5>2. i \in DOMAIN m.ind
          BY <1>0, <4>3, <4>5 DEF Optional
        <5> QED
          BY <4>3, <5>1, <5>2 DEF DriversAreInteger
      <4>6. CASE i \notin 1 .. NumRow
        <5>1. i - NumRow \in 1 .. Len(new) /\ i = NumRow + (i - NumRow)
          BY <1>0, <4>1, <4>4, <4>6
        <5>2. nm.ind[i] = NoIndicator
          BY <4>3, <5>1 DEF LongerBy
        <5> QED
          BY <5>2 DEF NoIndicator
      <4> QED
        BY <4>5, <4>6
    <3> QED
      BY <2>1, <3>1
  <2> QED
    BY <1>1, <1>3, <2>1 DEF AddRows, Invalid, OutOfMemory, Refuse
<1>4. ASSUME NEW gone \in SUBSET Cols, DeleteCols(gone)
      PROVE  DriversAreInteger(m')
  <2> DEFINE kept == KeptOf(NumCol, gone)
             nm == ColsWithout(kept)
  <2>1. CASE /\ \A j \in gone : ~Drives(j)
             /\ m' = nm
    <3>1. kept = Cols \ gone
      BY DEF KeptOf, Cols
    <3>2. kept \subseteq Cols
      BY <3>1
    <3> HIDE DEF kept
    <3>3. Places(kept) /\ ColsShorter(nm, kept)
      BY <1>0, <3>2, ColsWithoutIs
    <3> HIDE DEF nm
    <3> SUFFICES ASSUME nm.ind # NULL, NEW i \in DOMAIN nm.ind,
                        nm.ind[i].col > 0
                 PROVE  Marked(nm.integer, nm.ind[i].col)
      BY <2>1 DEF DriversAreInteger
    <3>4. /\ m.ind # NULL /\ i \in Rows
          /\ nm.ind[i] = Renumbered(m.ind[i], kept)
      BY <3>3 DEF ColsShorter
    <3>5. m.ind \in [1 .. NumRow -> Indicators(NumCol)]
      BY <1>0, <3>4 DEF Optional
    <3>6. m.ind[i].col \in 0 .. NumCol
      BY <3>4, <3>5 DEF Indicators, Rows
    <3>7. /\ m.ind[i].col # 0
          /\ nm.ind[i].col = NewIndex(kept, m.ind[i].col)
      BY <3>4, <3>6 DEF Renumbered
    <3>8. m.ind[i].col \in kept
      <4>1. m.ind[i] \in Held(m.ind)
        BY <3>4, <3>5 DEF Held, Rows
      <4>2. Drives(m.ind[i].col)
        BY <4>1 DEF Drives
      <4>3. m.ind[i].col \in Cols
        BY <1>0, <3>6, <3>7 DEF Cols
      <4> QED
        BY <2>1, <3>1, <4>2, <4>3
    <3>9. Marked(m.integer, m.ind[i].col)
      <4>1. i \in DOMAIN m.ind /\ m.ind[i].col > 0
        <5>1. \A c \in 0 .. NumCol : c # 0 => c > 0
          BY <1>0
        <5> QED
          BY <3>4, <3>5, <3>6, <3>7, <5>1 DEF Rows
      <4> QED
        BY <3>4, <4>1 DEF DriversAreInteger
    <3>10. /\ NewIndex(kept, m.ind[i].col) \in 1 .. Cardinality(kept)
           /\ Nth(kept, NewIndex(kept, m.ind[i].col)) = m.ind[i].col
      BY <3>3, <3>8, Positions
    <3>11. CutBy(nm.integer, m.integer, kept, BOOLEAN)
      BY <3>3 DEF ColsShorter
    <3> QED
      BY <3>7, <3>9, <3>10, <3>11 DEF CutBy, ShorterBy, Marked
  <2> HIDE DEF kept, nm
  <2> QED
    BY <1>1, <1>4, <2>1 DEF DeleteCols, Invalid, OutOfMemory, Refuse, kept, nm
<1>5. ASSUME NEW gone \in SUBSET Rows, DeleteRows(gone)
      PROVE  DriversAreInteger(m')
  <2> DEFINE kept == KeptOf(NumRow, gone)
             nm == RowsWithout(kept)
  <2>1. CASE m' = nm
    <3>1. kept \subseteq Rows
      BY DEF KeptOf, Rows
    <3> HIDE DEF kept
    <3>2. Places(kept) /\ RowsShorter(nm, kept)
      BY <1>0, <3>1, RowsWithoutIs
    <3> HIDE DEF nm
    <3>3. nm.integer = m.integer /\ CutBy(nm.ind, m.ind, kept, Indicators(NumCol))
      BY <3>2 DEF RowsShorter
    <3> SUFFICES ASSUME nm.ind # NULL, NEW i \in DOMAIN nm.ind,
                        nm.ind[i].col > 0
                 PROVE  Marked(m.integer, nm.ind[i].col)
      BY <2>1, <3>3 DEF DriversAreInteger
    <3>4. /\ m.ind # NULL /\ i \in 1 .. Cardinality(kept)
          /\ nm.ind[i] = m.ind[Nth(kept, i)]
      BY <3>3 DEF CutBy, ShorterBy
    <3>5. Nth(kept, i) \in kept
      BY <3>2, <3>4, Positions
    <3>6. Nth(kept, i) \in DOMAIN m.ind
      BY <1>0, <3>1, <3>4, <3>5 DEF Optional, Rows
    <3> QED
      BY <3>4, <3>6 DEF DriversAreInteger
  <2> HIDE DEF kept, nm
  <2> QED
    BY <1>1, <1>5, <2>1 DEF DeleteRows, OutOfMemory, Refuse, kept, nm
<1>6. ASSUME NEW a, NEW k, Load(a, k) PROVE DriversAreInteger(m')
  <2>1. \A col, row : Bare(col, row, a).ind = NULL
    BY DEF Bare
  <2>2. m' = m \/ \E col, row : m' = Bare(col, row, a)
    BY <1>6 DEF Load, Invalid, OutOfMemory, Refuse
  <2> QED
    BY <1>1, <2>1, <2>2 DEF DriversAreInteger
<1> QED
  BY <1>2, <1>3, <1>4, <1>5, <1>6 DEF Edit

\* and nothing else touches either.
LEMMA AttachKeepsDrivers ==
  ASSUME fresh \in Nat, Shape(m, fresh), DriversAreInteger(m), Attach
  PROVE  DriversAreInteger(m')
<1>0. DOMAIN m = Fields
  BY DEF Shape
<1>1. CASE m' = m
  BY <1>1
<1>2. ASSUME NEW side, NEW k, NEW name, SetName(side, k, name)
      PROVE  DriversAreInteger(m')
  <2>1. m' = m \/ \E names : m' = [m EXCEPT !.name[side] = names]
    BY <1>2 DEF SetName, Nothing, OutOfMemory, Refuse
  <2>2. ASSUME NEW names, m' = [m EXCEPT !.name[side] = names]
        PROVE  m'.ind = m.ind /\ m'.integer = m.integer
    BY <1>0, <2>2 DEF Fields
  <2> QED
    BY <1>1, <2>1, <2>2 DEF DriversAreInteger
<1>3. CASE SetBasis \/ ClearBasis \/ SetMipStart \/ SetOptions
  BY <1>1, <1>3 DEF SetBasis, ClearBasis, SetMipStart, SetOptions
<1>4. CASE FindByName \/ EnsureRowwise \/ Copy \/ Solve
  BY <1>1, <1>4 DEF FindByName, EnsureRowwise, Copy, Solve, OutOfMemory,
     Invalid, Refuse
<1> QED
  BY <1>2, <1>3, <1>4 DEF Attach

\* Relative to the shape, it is inductive.
LEMMA AlwaysDriven == Init /\ [][Next]_vars => []DriversAreInteger(m)
<1>1. Init => DriversAreInteger(m)
  BY ModelStoreAssumption DEF Init
<1>2. Sound /\ DriversAreInteger(m) /\ [Next]_vars => DriversAreInteger(m)'
  <2> SUFFICES ASSUME Sound, DriversAreInteger(m), [Next]_vars
               PROVE  DriversAreInteger(m')
    OBVIOUS
  <2>0. fresh \in Nat \ {0} /\ fresh \in Nat /\ Shape(m, fresh)
    BY DEF Sound
  <2>1. CASE UNCHANGED vars
    BY <2>1 DEF vars
  <2>2. CASE Next
    BY <2>0, <2>2, DataKeepsDrivers, EditKeepsDrivers, AttachKeepsDrivers
       DEF Next, Call
  <2> QED
    BY <2>1, <2>2
<1> QED
  BY <1>1, <1>2, AlwaysSound, PTL

\* What the relations of the marks and of the indicators hold.
LEMMA HolderIn ==
  ASSUME NEW mm, NEW s, NEW x
  PROVE  x \in Holders(mm, s) <=>
           s # NULL /\ \E j \in DOMAIN s : s[j] /\ x = mm.col[j]
BY DEF Holders

LEMMA IndicatorIn ==
  ASSUME NEW mm, NEW t
  PROVE  t \in IndOf(mm) <=>
           mm.ind # NULL /\
           \E i \in DOMAIN mm.row :
             /\ mm.ind[i].col > 0
             /\ t = <<mm.row[i], mm.col[mm.ind[i].col], mm.ind[i].val>>
BY DEF IndOf

\* The column of an indicator is marked integer.
LEMMA DriversAreMarked ==
  ASSUME NEW mm, NEW next \in Nat, Shape(mm, next), DriversAreInteger(mm)
  PROVE  /\ \A t \in IndOf(mm) : t[2] \in Holders(mm, mm.integer)
         /\ IndOf(mm) \subseteq
              Range(mm.row) \X Holders(mm, mm.integer) \X {0, 1}
<1>1. IndOf(mm) \subseteq Range(mm.row) \X Range(mm.col) \X {0, 1}
  BY ShapeRefers
<1>2. ASSUME NEW t \in IndOf(mm) PROVE t[2] \in Holders(mm, mm.integer)
  <2>1. PICK i \in DOMAIN mm.row :
          /\ mm.ind # NULL /\ mm.ind[i].col > 0
          /\ t = <<mm.row[i], mm.col[mm.ind[i].col], mm.ind[i].val>>
    BY IndicatorIn
  <2>2. DOMAIN mm.row = DOMAIN mm.ind
    BY <2>1, SizesAreNat, ShapeIndicators DEF Optional
  <2>3. mm.ind[i].col > 0 => Marked(mm.integer, mm.ind[i].col)
    BY <2>1, <2>2 DEF DriversAreInteger
  <2>4. mm.ind[i].col \in 1 .. Len(mm.col)
    <3> DEFINE n == Len(mm.col)
               r == mm.ind[i]
    <3>1. n \in Nat /\ DOMAIN mm.row = 1 .. Len(mm.row)
      BY SizesAreNat
    <3>2. mm.ind \in [1 .. Len(mm.row) -> Indicators(n)]
      BY <2>1, ShapeIndicators DEF Optional
    <3>3. r \in Indicators(n) /\ r.col > 0
      BY <2>1, <3>1, <3>2
    <3>4. r.col \in 0 .. n
      BY <3>3 DEF Indicators
    <3> HIDE DEF n, r
    <3>5. r.col \in 1 .. n
      BY <3>1, <3>3, <3>4
    <3> QED
      BY <3>5 DEF n, r
  <2>5. mm.integer # NULL /\ mm.integer[mm.ind[i].col]
    BY <2>1, <2>3 DEF Marked
  <2>6. DOMAIN mm.integer = 1 .. Len(mm.col)
    BY <2>5, ShapeIndicators DEF Optional
  <2> QED
    BY <2>1, <2>4, <2>5, <2>6, HolderIn
<1> QED
  BY <1>1, <1>2

\* Whatever the calls, every array is absent or as long as the columns or
\* rows it is for, and refers only to columns and rows that are there.
THEOREM ArraysKeepTheirShape == Spec => []TypeOK
<1>1. Sound => TypeOK
  <2> SUFFICES ASSUME Sound PROVE TypeOK
    OBVIOUS
  <2>1. Optional(mipStart, NumCol, Nat)
    <3>1. NumCol \in Nat /\ m.col \in [1 .. NumCol -> 1 .. fresh - 1]
      BY SizesAreNat DEF Sound, NumCol
    <3> QED
      BY <3>1 DEF Sound, Attached, Optional
  <2> QED
    BY <2>1 DEF Sound, TypeOK, Codes
<1> QED
  BY <1>1, AlwaysSound, PTL DEF Spec

\* Nothing refers to a column or row that is gone, and the column of an
\* indicator is integer.
THEOREM NothingDangles == Spec => []Integrity
<1>1. Sound /\ DriversAreInteger(m) => Integrity
  <2> SUFFICES ASSUME Sound, DriversAreInteger(m) PROVE Integrity
    OBVIOUS
  <2>0. fresh \in Nat /\ Shape(m, fresh)
    BY DEF Sound
  <2>1. IndOf(m) \subseteq
          Range(m.row) \X Holders(m, m.integer) \X {0, 1}
    BY <2>0, DriversAreMarked
  <2>2. /\ Range(m.col) \subseteq Nat /\ Range(m.row) \subseteq Nat
        /\ EntriesOf(m) \subseteq Range(m.row) \X Range(m.col)
    BY <2>0, ShapeRefers
  <2>3. /\ Holders(m, m.integer) \subseteq Range(m.col)
        /\ Holders(m, m.semi) \subseteq Range(m.col)
        /\ Holders(m, m.quad) \subseteq Range(m.col)
        /\ PairsOf(m) \subseteq Range(m.col) \X Range(m.col)
    BY <2>0, ShapeRefers
  <2>4. /\ \A t, u \in IndOf(m) : t[1] = u[1] => t = u
        /\ Members(m, m.sos) \subseteq Nat \X Range(m.col) \X Nat
        /\ Members(m, m.cone) \subseteq Nat \X Range(m.col) \X Nat
        /\ RowQuadOf(m) \subseteq
              Range(m.row) \X Range(m.col) \X Range(m.col)
    BY <2>0, ShapeRefers
  <2> QED
    BY <2>1, <2>2, <2>3, <2>4 DEF Integrity, Data!Integrity
<1> QED
  BY <1>1, AlwaysSound, AlwaysDriven, PTL DEF Spec

-----------------------------------------------------------------------------
\* Names.

\* A non-empty set of numbers has a least one.
LEMMA LeastNat ==
    ASSUME NEW K \in SUBSET Nat, K # {}
    PROVE  \E k \in K : \A j \in K : k <= j
<1> DEFINE R == StrictSubsetOrdering(Nat)
           T == {0 .. k : k \in K}
<1>1. T \subseteq FiniteSubsetsOf(Nat) /\ T # {}
  <2>1. ASSUME NEW k \in K PROVE 0 .. k \in FiniteSubsetsOf(Nat)
    <3>1. IsFiniteSet(0 .. k) /\ 0 .. k \in SUBSET Nat
      BY FS_Interval
    <3> QED
      BY <3>1 DEF FiniteSubsetsOf
  <2> QED
    BY <2>1
<1>2. IsWellFoundedOn(R, FiniteSubsetsOf(Nat))
  BY FS_StrictSubsetOrderingWellFounded
<1>3. PICK t \in T : \A u \in T : <<u, t>> \notin R
  <2> HIDE DEF R, T
  <2> QED
    BY <1>1, <1>2, WFMin
<1>4. PICK k \in K : t = 0 .. k
  OBVIOUS
<1>5. ASSUME NEW j \in K, j < k PROVE FALSE
  <2>1. 0 .. j \subseteq 0 .. k /\ k \notin 0 .. j /\ k \in 0 .. k
    BY <1>5
  <2>2. 0 .. j \in T /\ 0 .. j \in SUBSET Nat /\ 0 .. k \in SUBSET Nat
    OBVIOUS
  <2> QED
    BY <1>3, <1>4, <2>1, <2>2 DEF StrictSubsetOrdering
<1> QED
  BY <1>5

\* The map has every name given, at a position that shows it.
LEMMA MapHolds ==
  ASSUME NEW n \in Nat, NEW names, names # NULL,
         names \in [1 .. n -> Labels], NEW k \in 1 .. n, names[k] # NULL
  PROVE  /\ names[k] \in DOMAIN MapOf(names)
         /\ MapOf(names)[names[k]] \in 1 .. n
         /\ names[MapOf(names)[names[k]]] = names[k]
<1> DEFINE given == Range(names) \ {NULL}
           At == {i \in 1 .. n : names[i] = names[k]}
<1>1. names[k] \in given
  BY DEF Range
<1>2. MapOf(names) = [x \in given |->
        CHOOSE p \in DOMAIN names :
          names[p] = x /\ \A i \in 1 .. p - 1 : names[i] # x]
  BY DEF MapOf
<1>3. PICK p \in At : \A j \in At : p <= j
  <2>1. At \in SUBSET Nat /\ At # {}
    OBVIOUS
  <2> HIDE DEF At
  <2> QED
    BY <2>1, LeastNat
<1>4. \A i \in 1 .. p - 1 : names[i] # names[k]
  <2> SUFFICES ASSUME NEW i \in 1 .. p - 1, names[i] = names[k] PROVE FALSE
    OBVIOUS
  <2>1. i \in At /\ ~(p <= i)
    OBVIOUS
  <2> QED
    BY <1>3, <2>1
<1>5. p \in DOMAIN names /\ names[p] = names[k]
  OBVIOUS
<1> DEFINE q == CHOOSE p0 \in DOMAIN names :
                  names[p0] = names[k]
                  /\ \A i \in 1 .. p0 - 1 : names[i] # names[k]
<1>6. q \in DOMAIN names /\ names[q] = names[k]
  BY <1>4, <1>5
<1>7. MapOf(names)[names[k]] = q /\ names[k] \in DOMAIN MapOf(names)
  BY <1>1, <1>2
<1> HIDE DEF q
<1> QED
  BY <1>6, <1>7

\* A lookup through the map finds the first of the columns of that name.
LEMMA NamesFound ==
  ASSUME fresh \in Nat, Shape(m, fresh), Attached
  PROVE  NamesFindTheirOwner
<1>0. NumCol \in Nat /\ NumRow \in Nat
  BY SizesAreNat DEF NumCol, NumRow
<1> SUFFICES ASSUME map.valid, NEW side \in {"col", "row"},
                    NEW k \in 1 .. Count(side)
             PROVE  LET found == Lookup(side, NameOf(side, k))
                    IN  /\ found \in 1 .. Count(side)
                        /\ NameOf(side, found) = NameOf(side, k)
  BY DEF NamesFindTheirOwner
<1> DEFINE names == m.name[side]
           n == Count(side)
<1>1. n \in Nat
  BY <1>0 DEF Count
<1>2. map[side] = MapOf(names)
  BY DEF Attached
<1>3. Optional(names, n, Labels)
  BY DEF Shape, ColsFit, RowsFit, Count, NumCol, NumRow
<1> HIDE DEF n
<1>4. CASE names # NULL /\ names[k] # NULL
  <2>1. names \in [1 .. n -> Labels] /\ k \in 1 .. n
    BY <1>3, <1>4 DEF Optional, n
  <2>2. NameOf(side, k) = names[k]
    BY <1>4 DEF NameOf
  <2>3. /\ names[k] \in DOMAIN MapOf(names)
        /\ MapOf(names)[names[k]] \in 1 .. n
        /\ names[MapOf(names)[names[k]]] = names[k]
    BY <1>1, <1>4, <2>1, MapHolds
  <2> HIDE DEF names
  <2>4. Lookup(side, NameOf(side, k)) = MapOf(names)[names[k]]
    BY <1>2, <2>2, <2>3 DEF Lookup
  <2>5. NameOf(side, MapOf(names)[names[k]]) = names[k]
    BY <1>4, <2>3 DEF NameOf, names
  <2> QED
    BY <2>2, <2>3, <2>4, <2>5 DEF n
<1>5. CASE names = NULL \/ names[k] = NULL
  <2>1. NameOf(side, k) = k
    BY <1>5 DEF NameOf
  <2>2. CASE k \notin DOMAIN MapOf(names)
    <3>1. Lookup(side, k) = k
      BY <1>2, <1>5, <2>2 DEF Lookup
    <3> QED
      BY <2>1, <3>1
  <2>3. CASE k \in DOMAIN MapOf(names)
    <3>1. names # NULL /\ k \in Range(names) \ {NULL}
      BY <2>3 DEF MapOf
    <3>2. names \in [1 .. n -> Labels]
      BY <1>3, <3>1 DEF Optional
    <3>3. PICK i \in 1 .. n : names[i] = k /\ names[i] # NULL
      BY <3>1, <3>2 DEF Range
    <3>4. MapOf(names)[k] \in 1 .. n /\ names[MapOf(names)[k]] = k
      BY <1>1, <3>1, <3>2, <3>3, MapHolds
    <3> HIDE DEF names
    <3>5. Lookup(side, k) = MapOf(names)[k]
      BY <1>2, <2>3 DEF Lookup
    <3>6. NameOf(side, MapOf(names)[k]) = k
      BY <3>1, <3>3, <3>4 DEF NameOf, names
    <3> QED
      BY <2>1, <3>4, <3>5, <3>6 DEF n
  <2> QED
    BY <2>2, <2>3
<1> QED
  BY <1>4, <1>5

\* What an edit keeps fits the model after it: the starting basis, the
\* starting point, the row-wise copy and the map of names.
THEOREM WhatIsKeptFits == Spec => []KeptFits
<1>1. Sound => KeptFits
  <2> SUFFICES ASSUME Sound PROVE KeptFits
    OBVIOUS
  <2>0. /\ fresh \in Nat /\ Shape(m, fresh) /\ Attached
        /\ NumCol \in Nat /\ NumRow \in Nat
    BY SizesAreNat DEF Sound, NumCol, NumRow
  <2>1. StartFits
    <3>1. BasisFits(start, NumCol, NumRow)
      BY <2>0 DEF Attached
    <3>2. Paired(start) => Len(start.col) = NumCol /\ Len(start.row) = NumRow
      BY <2>0, <3>1, ArrayIsSeq DEF BasisFits, BasisIsWhole, Paired, Optional
    <3> QED
      BY <2>0, <3>1, <3>2 DEF StartFits, BasisFits, BasisIsWhole, Attached
  <2>2. RowwiseAgrees
    BY <2>0 DEF Attached
  <2>3. NamesFindTheirOwner
    BY <2>0, NamesFound
  <2> QED
    BY <2>1, <2>2, <2>3 DEF KeptFits
<1> QED
  BY <1>1, AlwaysSound, PTL DEF Spec

-----------------------------------------------------------------------------
\* The relations that the arrays stand for.

\* What the relations hold, one by one.
LEMMA EntryIn ==
  ASSUME NEW mm, NEW t
  PROVE  t \in EntriesOf(mm) <=>
           \E j \in DOMAIN mm.col : \E i \in mm.a[j] :
             t = <<mm.row[i], mm.col[j]>>
BY DEF EntriesOf

LEMMA AlteredIn ==
  ASSUME NEW mm, NEW x
  PROVE  x \in AlteredOf(mm) <=>
           \/ x \in Holders(mm, mm.cost)
           \/ \E i \in DOMAIN mm.row : mm.bound[i] /\ x = mm.row[i]
           \/ mm.sense /\ x = 0
BY DEF AlteredOf

LEMMA PairIn ==
  ASSUME NEW mm, NEW t
  PROVE  t \in PairsOf(mm) <=>
           \E p \in mm.q : t = <<mm.col[p[1]], mm.col[p[2]]>>
BY DEF PairsOf

LEMMA MemberIn ==
  ASSUME NEW mm, NEW sets, NEW t
  PROVE  t \in Members(mm, sets) <=>
           \E k \in DOMAIN sets : \E u \in DOMAIN sets[k].col :
             t = <<sets[k].tag, mm.col[sets[k].col[u]], sets[k].weight[u]>>
BY DEF Members, Range

LEMMA TermIn ==
  ASSUME NEW mm, NEW t
  PROVE  t \in RowQuadOf(mm) <=>
           mm.rq # NULL /\
           \E i \in DOMAIN mm.rq : \E p \in mm.rq[i] :
             t = <<mm.row[i], mm.col[p[1]], mm.col[p[2]]>>
BY DEF RowQuadOf

\* Two models are alike but for the arrays in F.
Alike(nm, F) == DOMAIN nm = Fields /\ \A f \in Fields \ F : nm[f] = m[f]

\* An edit of some arrays leaves the relations that are in the others.
LEMMA OthersStay ==
  ASSUME NEW nm, NEW F, Alike(nm, F), "col" \notin F, "row" \notin F
  PROVE  /\ nm.col = m.col /\ nm.row = m.row
         /\ "a" \notin F => EntriesOf(nm) = EntriesOf(m)
         /\ F \cap {"cost", "bound", "sense"} = {} =>
              AlteredOf(nm) = AlteredOf(m)
         /\ "integer" \notin F =>
              Holders(nm, nm.integer) = Holders(m, m.integer)
         /\ "semi" \notin F => Holders(nm, nm.semi) = Holders(m, m.semi)
         /\ "quad" \notin F => Holders(nm, nm.quad) = Holders(m, m.quad)
         /\ "q" \notin F => PairsOf(nm) = PairsOf(m)
         /\ "ind" \notin F => IndOf(nm) = IndOf(m)
         /\ "sos" \notin F => Members(nm, nm.sos) = Members(m, m.sos)
         /\ "cone" \notin F => Members(nm, nm.cone) = Members(m, m.cone)
         /\ "rq" \notin F => RowQuadOf(nm) = RowQuadOf(m)
<1> USE DEF Alike
<1>1. nm.col = m.col /\ nm.row = m.row
  BY DEF Fields
<1>2. ASSUME "a" \notin F PROVE EntriesOf(nm) = EntriesOf(m)
  <2>1. nm.a = m.a
    BY <1>2 DEF Fields
  <2> QED
    BY <1>1, <2>1 DEF EntriesOf
<1>3. ASSUME F \cap {"cost", "bound", "sense"} = {}
      PROVE  AlteredOf(nm) = AlteredOf(m)
  <2>1. nm.cost = m.cost /\ nm.bound = m.bound /\ nm.sense = m.sense
    BY <1>3 DEF Fields
  <2> QED
    BY <1>1, <2>1 DEF AlteredOf, Holders
<1>4. ASSUME NEW s PROVE Holders(nm, s) = Holders(m, s)
  BY <1>1 DEF Holders
<1>5. ASSUME NEW sets PROVE Members(nm, sets) = Members(m, sets)
  BY <1>1 DEF Members
<1>6. /\ "integer" \notin F => nm.integer = m.integer
      /\ "semi" \notin F => nm.semi = m.semi
      /\ "quad" \notin F => nm.quad = m.quad
      /\ "sos" \notin F => nm.sos = m.sos
      /\ "cone" \notin F => nm.cone = m.cone
  BY DEF Fields
<1>7. ASSUME "q" \notin F PROVE PairsOf(nm) = PairsOf(m)
  <2>1. nm.q = m.q
    BY <1>7 DEF Fields
  <2> QED
    BY <1>1, <2>1 DEF PairsOf
<1>8. ASSUME "ind" \notin F PROVE IndOf(nm) = IndOf(m)
  <2>1. nm.ind = m.ind
    BY <1>8 DEF Fields
  <2> QED
    BY <1>1, <2>1 DEF IndOf
<1>9. ASSUME "rq" \notin F PROVE RowQuadOf(nm) = RowQuadOf(m)
  <2>1. nm.rq = m.rq
    BY <1>9 DEF Fields
  <2> QED
    BY <1>1, <2>1 DEF RowQuadOf
<1> QED
  BY <1>1, <1>2, <1>3, <1>4, <1>5, <1>6, <1>7, <1>8, <1>9

\* What a whole step of the store may be taken to know: what its arrays are
\* before and after it.
Whole ==
    /\ fresh \in Nat \ {0} /\ Shape(m, fresh) /\ DriversAreInteger(m)
    /\ fresh' \in Nat /\ Shape(m', fresh') /\ DriversAreInteger(m')

USE DEF Data!marks, Data!discrete, Data!conic

\* An edit whose fields change so is an action of the relational model.
LEMMA NumbersAreSet ==
  ASSUME Whole, NEW F \in SUBSET {"cost", "bound", "sense"}, Alike(m', F)
  PROVE  Data!SetNumbers
<1>1. "col" \notin F /\ "row" \notin F
  OBVIOUS
<1>2. AlteredOf(m') \subseteq Nat
  BY ShapeRefers DEF Whole
<1> QED
  BY <1>1, <1>2, OthersStay DEF Data!SetNumbers

LEMMA EntryIsSet ==
  ASSUME Whole, Alike(m', {"a"}) PROVE Data!SetEntry
<1>1. EntriesOf(m') \subseteq Range(m'.row) \X Range(m'.col)
  BY ShapeRefers DEF Whole
<1> QED
  BY <1>1, OthersStay DEF Data!SetEntry

LEMMA IntegerIsMarked ==
  ASSUME Whole, Alike(m', {"integer"}) PROVE Data!MarkInteger
<1>1. Holders(m', m'.integer) \subseteq Range(m'.col)
  BY ShapeRefers DEF Whole
<1>2. \A t \in IndOf(m') : t[2] \in Holders(m', m'.integer)
  BY DriversAreMarked DEF Whole
<1> QED
  BY <1>1, <1>2, OthersStay DEF Data!MarkInteger

LEMMA SemiIsMarked ==
  ASSUME Whole, Alike(m', {"semi", "integer"}),
         Holders(m', m'.integer) = Holders(m, m.integer)
  PROVE  Data!MarkSemi
<1>1. Holders(m', m'.semi) \subseteq Range(m'.col)
  BY ShapeRefers DEF Whole
<1> QED
  BY <1>1, OthersStay DEF Data!MarkSemi

LEMMA QuadraticIsSet ==
  ASSUME Whole, Alike(m', {"quad", "q"}) PROVE Data!SetQuadratic
<1>1. /\ Holders(m', m'.quad) \subseteq Range(m'.col)
      /\ PairsOf(m') \subseteq Range(m'.col) \X Range(m'.col)
  BY ShapeRefers DEF Whole
<1> QED
  BY <1>1, OthersStay DEF Data!SetQuadratic

LEMMA IndicatorIsSet ==
  ASSUME Whole, Alike(m', {"ind"}) PROVE Data!SetIndicator
<1>1. /\ IndOf(m') \subseteq
           Range(m'.row) \X Holders(m', m'.integer) \X {0, 1}
      /\ \A t, u \in IndOf(m') : t[1] = u[1] => t = u
  BY ShapeRefers, DriversAreMarked DEF Whole
<1> QED
  BY <1>1, OthersStay DEF Data!SetIndicator

LEMMA SosIsAdded ==
  ASSUME Whole, Alike(m', {"sos", "integer"}),
         Holders(m', m'.integer) = Holders(m, m.integer),
         Members(m, m.sos) \subseteq Members(m', m'.sos)
  PROVE  Data!AddSos
<1>1. Members(m', m'.sos) \subseteq Nat \X Range(m'.col) \X Nat
  BY ShapeRefers DEF Whole
<1> QED
  BY <1>1, OthersStay DEF Data!AddSos

LEMMA ConeIsAdded ==
  ASSUME Whole, Alike(m', {"cone"}),
         Members(m, m.cone) \subseteq Members(m', m'.cone)
  PROVE  Data!AddCone
<1>1. Members(m', m'.cone) \subseteq Nat \X Range(m'.col) \X Nat
  BY ShapeRefers DEF Whole
<1> QED
  BY <1>1, OthersStay DEF Data!AddCone

\* Whole cones go: no two have the same tag.
LEMMA ConesAreDeleted ==
  ASSUME Whole, Alike(m', {"cone"}), NEW kept, Places(kept),
         kept \subseteq DOMAIN m.cone, m'.cone = Only(m.cone, kept)
  PROVE  Data!DeleteCones
<1> DEFINE old == m.cone
           new == m'.cone
<1>1. m'.col = m.col
  BY OthersStay
<1>2. \A k, l \in DOMAIN old : old[k].tag = old[l].tag => k = l
  BY DEF Whole, Shape, ConesFit
<1>3. /\ DOMAIN new = 1 .. Cardinality(kept)
      /\ \A k \in DOMAIN new :
              Nth(kept, k) \in kept /\ new[k] = old[Nth(kept, k)]
  BY Positions DEF Only
<1> HIDE DEF old, new
<1>4. ASSUME NEW t \in Members(m', new)
      PROVE  \E k \in DOMAIN new : \E l \in DOMAIN old :
               /\ new[k] = old[l] /\ t[1] = old[l].tag
               /\ t \in Members(m, old)
  <2>1. PICK k \in DOMAIN new : \E u \in DOMAIN new[k].col :
          t = <<new[k].tag, m'.col[new[k].col[u]], new[k].weight[u]>>
    BY <1>4, MemberIn
  <2>2. PICK l \in DOMAIN old : new[k] = old[l]
    BY <1>3 DEF old
  <2> QED
    BY <1>1, <2>1, <2>2, MemberIn
<1>5. ASSUME NEW t \in Members(m', new), NEW u \in Members(m, old),
             t[1] = u[1]
      PROVE  u \in Members(m', new)
  <2>1. PICK k \in DOMAIN new, l \in DOMAIN old :
          new[k] = old[l] /\ t[1] = old[l].tag
    BY <1>4
  <2>2. PICK n \in DOMAIN old : \E v \in DOMAIN old[n].col :
          u = <<old[n].tag, m.col[old[n].col[v]], old[n].weight[v]>>
    BY <1>5, MemberIn
  <2>3. u[1] = old[n].tag
    BY <2>2
  <2>4. n = l
    BY <1>2, <1>5, <2>1, <2>3
  <2>5. \E v \in DOMAIN new[k].col :
          u = <<new[k].tag, m'.col[new[k].col[v]], new[k].weight[v]>>
    BY <1>1, <2>1, <2>2, <2>4
  <2> QED
    BY <2>5, MemberIn
<1>6. Members(m', new) \subseteq Members(m, old)
  BY <1>4
<1>7. \A t \in Members(m', new), u \in Members(m, old) :
        t[1] = u[1] => u \in Members(m', new)
  BY <1>5
<1>8. /\ m'.col = m.col /\ m'.row = m.row
      /\ EntriesOf(m') = EntriesOf(m) /\ AlteredOf(m') = AlteredOf(m)
      /\ Holders(m', m'.integer) = Holders(m, m.integer)
      /\ Holders(m', m'.semi) = Holders(m, m.semi)
      /\ Holders(m', m'.quad) = Holders(m, m.quad)
      /\ PairsOf(m') = PairsOf(m) /\ IndOf(m') = IndOf(m)
      /\ Members(m', m'.sos) = Members(m, m.sos)
      /\ RowQuadOf(m') = RowQuadOf(m)
  BY OthersStay
<1>9. \A t \in Members(m', m'.cone), u \in Members(m, m.cone) :
        t[1] = u[1] => u \in Members(m', m'.cone)
  BY <1>7 DEF old, new
<1>10. Members(m', m'.cone) \subseteq Members(m, m.cone)
  BY <1>6 DEF old, new
<1> QED
  BY <1>8, <1>9, <1>10 DEF Data!DeleteCones

\* The quadratic part of a row is replaced whole.
LEMMA RowQuadraticIsSet ==
  ASSUME Whole, Alike(m', {"rq"}), NEW i \in Rows, NEW terms,
         m'.rq = [(IF m.rq = NULL THEN [r \in Rows |-> {}] ELSE m.rq)
                    EXCEPT ![i] = terms],
         m'.rq # NULL
  PROVE  Data!SetRowQuadratic
<1>1. m'.col = m.col /\ m'.row = m.row
  BY OthersStay
<1>2. RowQuadOf(m') \subseteq Range(m'.row) \X Range(m'.col) \X Range(m'.col)
  BY ShapeRefers DEF Whole
<1>3. m.rq # NULL => DOMAIN m.rq = Rows
  BY DEF Whole, Shape, RowsFit, Optional, Rows, NumRow
<1>4. /\ DOMAIN m'.rq = Rows
      /\ \A r \in Rows \ {i} : m'.rq[r] = IF m.rq = NULL THEN {} ELSE m.rq[r]
  BY <1>3
<1>5. ASSUME NEW t \in RowQuadOf(m), t \notin RowQuadOf(m')
      PROVE  t[1] = m.row[i]
  <2>1. PICK r \in Rows : \E p \in m.rq[r] :
          m.rq # NULL /\ t = <<m.row[r], m.col[p[1]], m.col[p[2]]>>
    BY <1>3, <1>5, TermIn
  <2>2. r # i => m'.rq[r] = m.rq[r]
    BY <1>4, <2>1
  <2>3. r = i
    BY <1>1, <1>4, <1>5, <2>1, <2>2, TermIn
  <2> QED
    BY <2>1, <2>3
<1>6. ASSUME NEW t \in RowQuadOf(m'), t \notin RowQuadOf(m)
      PROVE  t[1] = m.row[i]
  <2>1. PICK r \in Rows : \E p \in m'.rq[r] :
          t = <<m'.row[r], m'.col[p[1]], m'.col[p[2]]>>
    BY <1>4, <1>6, TermIn
  <2>2. r # i => m.rq # NULL /\ m'.rq[r] = m.rq[r]
    BY <1>4, <2>1
  <2>3. r = i
    BY <1>1, <1>3, <1>6, <2>1, <2>2, TermIn
  <2> QED
    BY <1>1, <2>1, <2>3
<1>7. \A t \in (RowQuadOf(m) \ RowQuadOf(m')) \cup
               (RowQuadOf(m') \ RowQuadOf(m)) : t[1] = m.row[i]
  BY <1>5, <1>6
<1>8. /\ m'.col = m.col /\ m'.row = m.row
      /\ EntriesOf(m') = EntriesOf(m) /\ AlteredOf(m') = AlteredOf(m)
      /\ Holders(m', m'.integer) = Holders(m, m.integer)
      /\ Holders(m', m'.semi) = Holders(m, m.semi)
      /\ Holders(m', m'.quad) = Holders(m, m.quad)
      /\ PairsOf(m') = PairsOf(m) /\ IndOf(m') = IndOf(m)
      /\ Members(m', m'.sos) = Members(m, m.sos)
      /\ Members(m', m'.cone) = Members(m, m.cone)
  BY OthersStay
<1>9. \A t, u \in (RowQuadOf(m) \ RowQuadOf(m')) \cup
                  (RowQuadOf(m') \ RowQuadOf(m)) : t[1] = u[1]
  BY <1>7
<1> QED
  BY <1>1, <1>2, <1>8, <1>9 DEF Data!SetRowQuadratic

-----------------------------------------------------------------------------
\* An edit in place is one action of the relational model.

\* A step of the arrays is an edit of the relations, or none.
IsEdit == Data!Next \/ UNCHANGED Data!data

\* A refusal changes nothing of it.
LEMMA SameIsNoEdit ==
  ASSUME Relations(m') = Relations(m) PROVE IsEdit
<1>1. /\ m'.col = m.col /\ m'.row = m.row
      /\ EntriesOf(m') = EntriesOf(m) /\ AlteredOf(m') = AlteredOf(m)
      /\ Holders(m', m'.integer) = Holders(m, m.integer)
      /\ Holders(m', m'.semi) = Holders(m, m.semi)
      /\ Holders(m', m'.quad) = Holders(m, m.quad)
      /\ PairsOf(m') = PairsOf(m) /\ IndOf(m') = IndOf(m)
      /\ Members(m', m'.sos) = Members(m, m.sos)
      /\ Members(m', m'.cone) = Members(m, m.cone)
      /\ RowQuadOf(m') = RowQuadOf(m)
  BY DEF Relations
<1> QED
  BY <1>1 DEF IsEdit, Data!data, Data!marks, Data!discrete, Data!conic

LEMMA RefusedIsNoEdit ==
  ASSUME NEW code, Refuse(code) PROVE IsEdit
BY SameIsNoEdit DEF Refuse

\* A coefficient is set, or taken away when it is zero.
LEMMA CoefficientIsEdit ==
  ASSUME Whole, NEW i, NEW j \in Cols, NEW zero \in BOOLEAN,
         SetCoefficient(i, j, zero)
  PROVE  IsEdit
<1>1. /\ DOMAIN m = Fields
      /\ m.a \in [Cols -> SUBSET Rows] /\ m.cost \in [Cols -> BOOLEAN]
  BY DEF Whole, Shape, ColsFit, Cols, Rows, NumCol, NumRow
<1> DEFINE new == [m EXCEPT
             !.a[j] = IF zero THEN @ \ {i} ELSE @ \cup {i},
             !.cost[j] = IF i \in m.a[j] /\ ~zero THEN ~@ ELSE @]
<1>2. CASE m' = new
  <2>1. /\ DOMAIN m' = Fields
        /\ \A f \in Fields \ {"a", "cost"} : m'[f] = m[f]
        /\ m'.a = [m.a EXCEPT ![j] = IF zero THEN m.a[j] \ {i}
                                     ELSE m.a[j] \cup {i}]
        /\ m'.cost = [m.cost EXCEPT ![j] = IF i \in m.a[j] /\ ~zero
                                           THEN ~m.cost[j] ELSE m.cost[j]]
    BY <1>1, <1>2 DEF Fields
  <2>2. CASE i \in m.a[j] /\ ~zero
    <3>1. m.a[j] \cup {i} = m.a[j]
      BY <2>2
    <3>2. m'.a = m.a
      BY <1>1, <2>1, <2>2, <3>1
    <3>3. Alike(m', {"cost"})
      BY <2>1, <3>2 DEF Alike
    <3> QED
      BY <3>3, NumbersAreSet DEF IsEdit, Data!Next
  <2>3. CASE ~(i \in m.a[j] /\ ~zero)
    <3>1. m'.cost = m.cost
      BY <1>1, <2>1, <2>3
    <3>2. Alike(m', {"a"})
      BY <2>1, <3>1 DEF Alike
    <3> QED
      BY <3>2, EntryIsSet DEF IsEdit, Data!Next
  <2> QED
    BY <2>2, <2>3
<1> QED
  BY <1>2, RefusedIsNoEdit DEF SetCoefficient, Nothing, OutOfMemory

\* A column becomes semicontinuous or stops being so.
LEMMA SemiIsEdit ==
  ASSUME Whole, NEW j, NEW on, SetSemi(j, on) PROVE IsEdit
<1>1. DOMAIN m = Fields
  BY DEF Whole, Shape
<1>2. CASE m' \in MarksMade(on)
  BY <1>1, <1>2, MarksSayNothing, SameIsNoEdit
<1>3. CASE m' = [[m EXCEPT !.semi = SemisFor(on),
                           !.integer = IntegersFor(on)] EXCEPT !.semi[j] = on]
  <2>1. /\ DOMAIN m' = Fields
        /\ \A f \in Fields \ {"semi", "integer"} : m'[f] = m[f]
        /\ m'.integer = IntegersFor(on)
    BY <1>1, <1>3 DEF Fields
  <2>2. Alike(m', {"semi", "integer"})
    BY <2>1 DEF Alike
  <2>3. m'.col = m.col
    BY <2>1 DEF Fields
  <2>4. Holders(m', m'.integer) = Holders(m, m.integer)
    <3>1. CASE m.integer = NULL /\ on
      BY <3>1, <2>1, BlankSaysNothing DEF IntegersFor
    <3>2. CASE ~(m.integer = NULL /\ on)
      BY <3>2, <2>1, <2>3 DEF IntegersFor, Holders
    <3> QED
      BY <3>1, <3>2
  <2> QED
    BY <2>2, <2>4, SemiIsMarked DEF IsEdit, Data!Next
<1> QED
  BY <1>2, <1>3, SemiIs, RefusedIsNoEdit DEF OutOfMemory, Edits

\* Setting costs, bounds, senses, marks and coefficients.
LEMMA AttributesAreEdits == Whole /\ Attributes => IsEdit
<1> SUFFICES ASSUME Whole, Attributes PROVE IsEdit
  OBVIOUS
<1>1. DOMAIN m = Fields
  BY DEF Whole, Shape
<1>2. CASE Nothing \/ Invalid \/ OutOfMemory
  BY <1>2, RefusedIsNoEdit DEF Nothing, Invalid, OutOfMemory
<1>3. ASSUME NEW F \in SUBSET {"cost", "bound", "sense"}, Alike(m', F)
      PROVE  IsEdit
  BY <1>3, NumbersAreSet DEF IsEdit, Data!Next
<1>4. ASSUME NEW j, SetColNumbers(j) PROVE IsEdit
  <2>1. Alike(m', {"cost"})
    BY <1>1, <1>4 DEF SetColNumbers, Edits, Alike
  <2> QED
    BY <1>3, <2>1
<1>5. ASSUME NEW i, SetRowBounds(i) PROVE IsEdit
  <2>1. Alike(m', {"bound"})
    BY <1>1, <1>5 DEF SetRowBounds, Edits, Alike
  <2> QED
    BY <1>3, <2>1
<1>6. CASE SetObjective
  <2>1. Alike(m', {"sense"})
    BY <1>1, <1>6 DEF SetObjective, Edits, Alike
  <2> QED
    BY <1>3, <2>1
<1>7. ASSUME NEW j, NEW on, SetInteger(j, on) PROVE IsEdit
  <2>1. CASE \E integers : Edits([m EXCEPT !.integer = integers])
    <3>1. Alike(m', {"integer"})
      BY <1>1, <2>1 DEF Edits, Alike
    <3> QED
      BY <3>1, IntegerIsMarked DEF IsEdit, Data!Next
  <2> QED
    BY <1>2, <1>7, <2>1 DEF SetInteger
<1>8. ASSUME NEW j, NEW on, SetColQuadratic(j, on) PROVE IsEdit
  <2>1. CASE \E quads : Edits([m EXCEPT !.quad = quads])
    <3>1. Alike(m', {"quad", "q"})
      BY <1>1, <2>1 DEF Edits, Alike
    <3> QED
      BY <3>1, QuadraticIsSet DEF IsEdit, Data!Next
  <2> QED
    BY <1>2, <1>8, <2>1 DEF SetColQuadratic
<1>9. ASSUME NEW terms, SetQuadratic(terms) PROVE IsEdit
  <2>1. CASE \E quads, q : Edits([m EXCEPT !.quad = quads, !.q = q])
    <3>1. Alike(m', {"quad", "q"})
      BY <1>1, <2>1 DEF Edits, Alike
    <3> QED
      BY <3>1, QuadraticIsSet DEF IsEdit, Data!Next
  <2> QED
    BY <1>2, <1>9, <2>1 DEF SetQuadratic
<1> QED
  BY <1>4, <1>5, <1>6, <1>7, <1>8, <1>9, CoefficientIsEdit, SemiIsEdit
     DEF Attributes

\* Appending a set leaves those before it where they were.
LEMMA AppendKeeps ==
  ASSUME NEW sets, sets \in Seq(Range(sets)), NEW s
  PROVE  \A k \in DOMAIN sets :
           k \in DOMAIN Append(sets, s) /\ Append(sets, s)[k] = sets[k]
<1>1. /\ Len(sets) \in Nat /\ DOMAIN sets = 1 .. Len(sets)
      /\ DOMAIN Append(sets, s) = 1 .. Len(sets) + 1
      /\ \A k \in 1 .. Len(sets) : Append(sets, s)[k] = sets[k]
  <2>1. sets \in Seq(Range(sets) \cup {s}) /\ s \in Range(sets) \cup {s}
    BY SeqIsArray, ArrayIsSeq
  <2> QED
    BY <2>1, SeqIsArray, AppendProperties
<1> QED
  BY <1>1

LEMMA SetsKeepMembers ==
  ASSUME NEW sets, sets \in Seq(Range(sets)), NEW s, NEW mm,
         mm.col = m.col
  PROVE  Members(m, sets) \subseteq Members(mm, Append(sets, s))
<1> SUFFICES ASSUME NEW t \in Members(m, sets)
             PROVE  t \in Members(mm, Append(sets, s))
  OBVIOUS
<1>1. PICK k \in DOMAIN sets : \E u \in DOMAIN sets[k].col :
        t = <<sets[k].tag, mm.col[sets[k].col[u]], sets[k].weight[u]>>
  BY MemberIn
<1>2. k \in DOMAIN Append(sets, s) /\ Append(sets, s)[k] = sets[k]
  BY AppendKeeps
<1> QED
  BY <1>1, <1>2, MemberIn

\* Setting quadratic parts, sets, cones and indicators.
LEMMA StructureIsEdit == Whole /\ Structure => IsEdit
<1> SUFFICES ASSUME Whole, Structure PROVE IsEdit
  OBVIOUS
<1>1. /\ DOMAIN m = Fields
      /\ m.sos \in Seq(Range(m.sos)) /\ m.cone \in Seq(Range(m.cone))
  BY DEF Whole, Shape, ConesFit, SetsFit
<1>2. CASE Nothing \/ Invalid \/ OutOfMemory
  BY <1>2, RefusedIsNoEdit DEF Nothing, Invalid, OutOfMemory
<1>3. ASSUME NEW col, AddSos(col) PROVE IsEdit
  <2>1. CASE m' = [m EXCEPT !.sos = Append(@, Set(col)),
                            !.integer = IF @ = NULL THEN Blank(NumCol) ELSE @]
    <3>1. /\ Alike(m', {"sos", "integer"}) /\ m'.col = m.col
          /\ m'.sos = Append(m.sos, Set(col))
          /\ m'.integer = IF m.integer = NULL THEN Blank(NumCol)
                          ELSE m.integer
      BY <1>1, <2>1 DEF Alike, Fields
    <3>2. Holders(m', m'.integer) = Holders(m, m.integer)
      <4>1. CASE m.integer = NULL
        BY <4>1, <3>1, BlankSaysNothing
      <4>2. CASE m.integer # NULL
        BY <4>2, <3>1 DEF Holders
      <4> QED
        BY <4>1, <4>2
    <3>3. Members(m, m.sos) \subseteq Members(m', m'.sos)
      BY <1>1, <3>1, SetsKeepMembers
    <3> QED
      BY <3>1, <3>2, <3>3, SosIsAdded DEF IsEdit, Data!Next
  <2> QED
    BY <1>2, <1>3, <2>1 DEF AddSos, WithTag
<1>4. ASSUME NEW col, AddCone(col) PROVE IsEdit
  <2>1. CASE m' = [m EXCEPT !.cone = Append(@, Set(col))]
    <3>1. /\ Alike(m', {"cone"}) /\ m'.col = m.col
          /\ m'.cone = Append(m.cone, Set(col))
      BY <1>1, <2>1 DEF Alike, Fields
    <3>2. Members(m, m.cone) \subseteq Members(m', m'.cone)
      BY <1>1, <3>1, SetsKeepMembers
    <3> QED
      BY <3>1, <3>2, ConeIsAdded DEF IsEdit, Data!Next
  <2> QED
    BY <1>2, <1>4, <2>1 DEF AddCone, WithTag
<1>5. ASSUME NEW i, NEW j, SetIndicator(i, j, 1) PROVE IsEdit
  <2>1. CASE Alike(m', {"ind"})
    BY <2>1, IndicatorIsSet DEF IsEdit, Data!Next
  <2>2. ASSUME NEW new, DOMAIN new = Fields,
               \A f \in Fields \ {"ind"} : new[f] = m[f], Edits(new)
        PROVE  IsEdit
    BY <2>1, <2>2 DEF Edits, Alike
  <2> QED
    BY <1>1, <1>2, <1>5, <2>2 DEF SetIndicator
<1>6. ASSUME NEW gone, DeleteCones(gone) PROVE IsEdit
  <2> DEFINE kept == KeptOf(Len(m.cone), gone)
  <2>1. CASE m' = [m EXCEPT !.cone = Only(@, kept)]
    <3>1. Alike(m', {"cone"}) /\ m'.cone = Only(m.cone, kept)
      BY <1>1, <2>1 DEF Alike, Fields
    <3>2. kept \subseteq DOMAIN m.cone /\ Len(m.cone) \in Nat
            /\ kept \subseteq 1 .. Len(m.cone)
      BY <1>1, SeqIsArray DEF KeptOf
    <3>3. Places(kept)
      BY <3>2, PlacesOf
    <3> QED
      BY <3>1, <3>2, <3>3, ConesAreDeleted DEF IsEdit, Data!Next
  <2> QED
    BY <1>2, <1>6, <2>1 DEF DeleteCones, Edits
<1>7. ASSUME NEW i \in Rows, NEW terms, SetRowQuadratic(i, terms)
      PROVE  IsEdit
  <2> DEFINE old == IF m.rq = NULL THEN [r \in Rows |-> {}] ELSE m.rq
  <2>1. CASE m' = PartsMade
    BY <1>1, <2>1, PartsSayNothing, SameIsNoEdit
  <2>2. CASE /\ terms \subseteq Cols \X Cols
             /\ m' = [m EXCEPT !.rq = [old EXCEPT ![i] = terms]]
    <3>1. Alike(m', {"rq"}) /\ m'.rq = [old EXCEPT ![i] = terms]
      BY <1>1, <2>2 DEF Alike, Fields
    <3> DEFINE S == SUBSET ((1 .. NumCol) \X (1 .. NumCol))
    <3>2. /\ NumCol \in Nat /\ NumRow \in Nat
          /\ m.rq = NULL \/ m.rq \in [1 .. NumRow -> S]
      <4>1. Len(m.col) \in Nat /\ Len(m.row) \in Nat
        BY SizesAreNat DEF Whole
      <4> QED
        BY <4>1 DEF Whole, Shape, RowsFit, Optional, NumCol, NumRow
    <3>3. m'.rq \in [1 .. NumRow -> S]
      <4>1. {} \in S /\ terms \in S
        BY <2>2 DEF Cols
      <4> HIDE DEF S
      <4>2. old \in [1 .. NumRow -> S]
        BY <3>2, <4>1 DEF Rows
      <4> QED
        BY <3>1, <4>1, <4>2
    <3>4. NULL \notin Seq(S)
      BY <3>2, NullIsNoArray
    <3>5. m'.rq # NULL
      BY <3>2, <3>3, <3>4, ArrayIsSeq
    <3> QED
      BY <3>1, <3>5, RowQuadraticIsSet DEF IsEdit, Data!Next
  <2> QED
    BY <1>2, <1>7, <2>1, <2>2 DEF SetRowQuadratic, PartsMade, Edits
<1> QED
  BY <1>3, <1>4, <1>5, <1>6, <1>7 DEF Structure

-----------------------------------------------------------------------------
\* An append is one action of it.

\* Every column of m keeps its place.
ColsInPlace(nm) == \A j \in Cols : nm.col[j] = m.col[j]

\* What refers to columns in their places says what it said.
LEMMA ReferencesStay ==
  ASSUME NEW next, Shape(m, next), NEW nm, ColsInPlace(nm)
  PROVE  /\ nm.q = m.q => PairsOf(nm) = PairsOf(m)
         /\ nm.sos = m.sos => Members(nm, nm.sos) = Members(m, m.sos)
         /\ nm.cone = m.cone => Members(nm, nm.cone) = Members(m, m.cone)
         /\ nm.ind = m.ind /\ nm.row = m.row => IndOf(nm) = IndOf(m)
         /\ nm.rq = m.rq /\ nm.row = m.row => RowQuadOf(nm) = RowQuadOf(m)
<1> USE DEF ColsInPlace
<1>1. ASSUME nm.q = m.q PROVE PairsOf(nm) = PairsOf(m)
  <2>1. m.q \subseteq Cols \X Cols
    BY DEF Shape, ColsFit, Cols, NumCol
  <2>2. \A p \in m.q : nm.col[p[1]] = m.col[p[1]] /\ nm.col[p[2]] = m.col[p[2]]
    BY <2>1
  <2> QED
    BY <1>1, <2>2 DEF PairsOf
<1>2. ASSUME NEW sets, SetsFit(sets, NumCol, next)
      PROVE  Members(nm, sets) = Members(m, sets)
  <2>1. ASSUME NEW k \in DOMAIN sets, NEW u \in DOMAIN sets[k].col
        PROVE  sets[k].col[u] \in Cols
    <3>1. sets[k].col \in Seq(1 .. NumCol)
      BY <1>2 DEF SetsFit, SetFits
    <3> DEFINE c == sets[k].col
    <3> HIDE DEF c
    <3>2. c \in [1 .. Len(c) -> 1 .. NumCol] /\ DOMAIN c = 1 .. Len(c)
      BY <3>1, SeqIsArray DEF c
    <3>3. u \in DOMAIN c
      BY DEF c
    <3>4. c[u] \in 1 .. NumCol
      BY <3>2, <3>3
    <3> QED
      BY <3>4 DEF c, Cols
  <2>2. \A k \in DOMAIN sets : \A u \in DOMAIN sets[k].col :
          nm.col[sets[k].col[u]] = m.col[sets[k].col[u]]
    BY <2>1
  <2>3. ASSUME NEW t PROVE t \in Members(nm, sets) <=> t \in Members(m, sets)
    BY <2>2, MemberIn
  <2> QED
    BY <2>3
<1>3. ASSUME nm.ind = m.ind, nm.row = m.row PROVE IndOf(nm) = IndOf(m)
  <2>1. ASSUME NEW i \in DOMAIN m.row, m.ind # NULL, m.ind[i].col > 0
        PROVE  m.ind[i].col \in Cols
    <3>1. NumCol \in Nat /\ DOMAIN m.row = 1 .. Len(m.row)
      BY SizesAreNat DEF NumCol
    <3>2. m.ind[i] \in Indicators(NumCol)
      BY <2>1, <3>1, ShapeIndicators DEF Optional, NumCol
    <3>3. m.ind[i].col \in 0 .. NumCol
      BY <3>2 DEF Indicators
    <3> QED
      BY <2>1, <3>1, <3>3 DEF Cols
  <2>2. ASSUME NEW t PROVE t \in IndOf(nm) <=> t \in IndOf(m)
    BY <1>3, <2>1, IndicatorIn
  <2> QED
    BY <2>2
<1>4. ASSUME nm.rq = m.rq, nm.row = m.row PROVE RowQuadOf(nm) = RowQuadOf(m)
  <2>1. m.rq # NULL => m.rq \in [Rows -> SUBSET (Cols \X Cols)]
    BY DEF Shape, RowsFit, Optional, Cols, NumCol, Rows, NumRow
  <2>2. ASSUME m.rq # NULL, NEW i \in DOMAIN m.rq, NEW p \in m.rq[i]
        PROVE  nm.col[p[1]] = m.col[p[1]] /\ nm.col[p[2]] = m.col[p[2]]
    BY <2>1, <2>2
  <2>3. ASSUME NEW t PROVE t \in RowQuadOf(nm) <=> t \in RowQuadOf(m)
    BY <1>4, <2>2, TermIn
  <2> QED
    BY <2>3
<1>5. SetsFit(m.sos, NumCol, next) /\ SetsFit(m.cone, NumCol, next)
  BY DEF Shape, ConesFit, NumCol
<1> QED
  BY <1>1, <1>2, <1>3, <1>4, <1>5

\* Marks grown by the columns that arrive.
MarksLonger(t, s, k) == LongerBy(t, s, NumCol, k, BOOLEAN, FALSE)
MarksGrown(t, s, k) == GrownBy(t, s, NumCol, k, BOOLEAN, FALSE)

\* The marks that arrive mark nothing.
LEMMA MarksArrive ==
  ASSUME NumCol \in Nat, NEW nm, ColsInPlace(nm), NEW k \in Nat,
         NEW s, s \in [Cols -> BOOLEAN], s # NULL, NEW t, t # NULL,
         MarksLonger(t, s, k)
  PROVE  Holders(nm, t) = Holders(m, s)
<1> USE DEF MarksLonger
<1>1. DOMAIN t = 1 .. NumCol + k /\ DOMAIN s = Cols
  BY DEF LongerBy
<1>2. ASSUME NEW j \in DOMAIN t, t[j] PROVE j \in Cols
  <2>1. CASE j \notin Cols
    <3>1. j - NumCol \in 1 .. k /\ NumCol + (j - NumCol) = j
      BY <1>1, <2>1 DEF Cols
    <3>2. t[j] = FALSE
      BY <3>1 DEF LongerBy
    <3> QED
      BY <1>2, <3>2
  <2> QED
    BY <2>1
<1>3. \A j \in Cols : j \in DOMAIN t /\ t[j] = s[j] /\ nm.col[j] = m.col[j]
  BY <1>1 DEF LongerBy, ColsInPlace, Cols
<1>4. ASSUME NEW x PROVE x \in Holders(nm, t) <=> x \in Holders(m, s)
  BY <1>1, <1>2, <1>3, HolderIn
<1> QED
  BY <1>4

LEMMA MarksGrow ==
  ASSUME NumCol \in Nat, NEW nm, ColsInPlace(nm), NEW k \in Nat,
         NEW s, Optional(s, NumCol, BOOLEAN), NEW t,
         MarksGrown(t, s, k)
  PROVE  Holders(nm, t) = Holders(m, s)
<1>1. CASE s = NULL
  BY <1>1 DEF MarksGrown, GrownBy, Holders
<1>2. CASE s # NULL
  <2>1. t # NULL /\ MarksLonger(t, s, k)
    BY <1>2 DEF MarksGrown, GrownBy, MarksLonger
  <2>2. s \in [Cols -> BOOLEAN]
    BY <1>2 DEF Optional, Cols
  <2> QED
    BY <1>2, <2>1, <2>2, MarksArrive
<1> QED
  BY <1>1, <1>2

\* The columns that arrive, with their entries, are all that is new.
ColsAreAdded(nm) ==
    /\ Range(m.col) \subseteq Range(nm.col) /\ Range(nm.row) = Range(m.row)
    /\ EntriesOf(m) \subseteq EntriesOf(nm)
    /\ EntriesOf(nm) \ EntriesOf(m) \subseteq
         Range(m.row) \X (Range(nm.col) \ Range(m.col))
    /\ AlteredOf(nm) = AlteredOf(m)
    /\ Holders(nm, nm.integer) = Holders(m, m.integer)
    /\ Holders(nm, nm.semi) = Holders(m, m.semi)
    /\ Holders(nm, nm.quad) = Holders(m, m.quad)
    /\ PairsOf(nm) = PairsOf(m) /\ IndOf(nm) = IndOf(m)
    /\ Members(nm, nm.sos) = Members(m, m.sos)
    /\ Members(nm, nm.cone) = Members(m, m.cone)
    /\ RowQuadOf(nm) = RowQuadOf(m)

\* What jaos_add_cols makes, every relation as that action has it.
LEMMA ColsLongerAdds ==
  ASSUME fresh \in Nat \ {0}, Shape(m, fresh), NEW new, Len(new) \in Nat,
         NEW nm, ColsLonger(nm, new)
  PROVE  ColsAreAdded(nm)
<1> DEFINE k == Len(new)
<1>1. /\ k \in Nat /\ NumCol \in Nat /\ NumRow \in Nat
      /\ DOMAIN m.col = 1 .. NumCol /\ DOMAIN m.row = Rows
      /\ m.col \in [1 .. NumCol -> 1 .. fresh - 1]
  BY SizesAreNat DEF NumCol, NumRow, Rows
<1>2. /\ DOMAIN nm.col = 1 .. NumCol + k
      /\ \A j \in 1 .. NumCol : nm.col[j] = m.col[j]
      /\ \A j \in 1 .. k : nm.col[NumCol + j] = (fresh + j) - 1
  BY DEF ColsLonger, TagsLonger
<1> HIDE DEF k
<1>3. ColsInPlace(nm) /\ nm.row = m.row
  BY <1>2 DEF ColsInPlace, Cols, ColsLonger
<1>4. Range(m.col) \subseteq Range(nm.col) /\ Range(nm.row) = Range(m.row)
  <2>1. \A j \in 1 .. NumCol : j \in DOMAIN nm.col
    BY <1>1, <1>2
  <2> QED
    BY <1>1, <1>2, <1>3, <2>1 DEF Range
<1>5. /\ m.a \in [1 .. NumCol -> SUBSET Rows]
      /\ nm.a \in [1 .. NumCol + k -> SUBSET Rows]
      /\ \A j \in 1 .. NumCol : nm.a[j] = m.a[j]
  BY DEF ColsLonger, Shape, ColsFit, Cols, NumCol, Rows, NumRow, k
<1>6. EntriesOf(m) \subseteq EntriesOf(nm)
  <2> SUFFICES ASSUME NEW t \in EntriesOf(m) PROVE t \in EntriesOf(nm)
    OBVIOUS
  <2>1. PICK j \in 1 .. NumCol : \E i \in m.a[j] : t = <<m.row[i], m.col[j]>>
    BY <1>1, EntryIn
  <2>2. j \in DOMAIN nm.col /\ nm.a[j] = m.a[j] /\ nm.col[j] = m.col[j]
    BY <1>1, <1>2, <1>5
  <2> QED
    BY <1>3, <2>1, <2>2, EntryIn
<1>7. ASSUME NEW t \in EntriesOf(nm), t \notin EntriesOf(m)
      PROVE  t \in Range(m.row) \X (Range(nm.col) \ Range(m.col))
  <2>1. PICK j \in 1 .. NumCol + k :
          \E i \in nm.a[j] : t = <<m.row[i], nm.col[j]>>
    <3>1. \E j \in DOMAIN nm.col :
            \E i \in nm.a[j] : t = <<nm.row[i], nm.col[j]>>
      BY <1>7, EntryIn
    <3> QED
      BY <1>2, <1>3, <3>1
  <2>2. j \notin 1 .. NumCol
    <3>1. CASE j \in 1 .. NumCol
      <4>1. nm.a[j] = m.a[j] /\ nm.col[j] = m.col[j] /\ j \in DOMAIN m.col
        BY <1>1, <1>2, <1>5, <3>1
      <4> QED
        BY <1>7, <2>1, <4>1, EntryIn
    <3> QED
      BY <3>1
  <2>3. j - NumCol \in 1 .. k /\ NumCol + (j - NumCol) = j
    BY <1>1, <2>1, <2>2
  <2>4. nm.col[j] = (fresh + (j - NumCol)) - 1
    BY <1>2, <2>3
  <2>5. nm.col[j] \notin 1 .. fresh - 1
    BY <1>1, <2>3, <2>4
  <2>6. nm.col[j] \notin Range(m.col) /\ nm.col[j] \in Range(nm.col)
    BY <1>1, <1>2, <2>1, <2>5 DEF Range
  <2>7. \A i \in nm.a[j] : m.row[i] \in Range(m.row)
    BY <1>1, <1>5, <2>1 DEF Range
  <2> QED
    BY <2>1, <2>6, <2>7
<1>8. /\ Optional(m.integer, NumCol, BOOLEAN) /\ Optional(m.semi, NumCol, BOOLEAN)
      /\ Optional(m.quad, NumCol, BOOLEAN) /\ m.cost \in [1 .. NumCol -> BOOLEAN]
  BY DEF Shape, ColsFit, NumCol
<1>9. /\ MarksGrown(nm.integer, m.integer, k)
      /\ MarksGrown(nm.semi, m.semi, k)
      /\ MarksGrown(nm.quad, m.quad, k)
      /\ MarksLonger(nm.cost, m.cost, k)
  BY DEF ColsLonger, MarksGrown, MarksLonger, k
<1>10. /\ Holders(nm, nm.integer) = Holders(m, m.integer)
       /\ Holders(nm, nm.semi) = Holders(m, m.semi)
       /\ Holders(nm, nm.quad) = Holders(m, m.quad)
  BY <1>1, <1>3, <1>8, <1>9, MarksGrow
<1>11. AlteredOf(nm) = AlteredOf(m)
  <2>1. m.cost # NULL /\ nm.cost # NULL
    BY <1>1, <1>8, <1>9, ArrayIsSeq, NullIsNoArray DEF MarksLonger, LongerBy
  <2>2. Holders(nm, nm.cost) = Holders(m, m.cost)
    BY <1>1, <1>3, <1>8, <1>9, <2>1, MarksArrive DEF Cols
  <2>3. nm.bound = m.bound /\ nm.sense = m.sense
    BY DEF ColsLonger
  <2> QED
    BY <1>3, <2>2, <2>3 DEF AlteredOf
<1>12. /\ nm.q = m.q /\ nm.ind = m.ind /\ nm.sos = m.sos /\ nm.cone = m.cone
       /\ nm.rq = m.rq
  BY DEF ColsLonger
<1>13. /\ PairsOf(nm) = PairsOf(m) /\ IndOf(nm) = IndOf(m)
       /\ Members(nm, nm.sos) = Members(m, m.sos)
       /\ Members(nm, nm.cone) = Members(m, m.cone)
       /\ RowQuadOf(nm) = RowQuadOf(m)
  BY <1>3, <1>12, ReferencesStay
<1> QED
  BY <1>4, <1>6, <1>7, <1>10, <1>11, <1>13 DEF ColsAreAdded

LEMMA ColsAdded ==
  ASSUME Whole, ColsAreAdded(m') PROVE Data!AddCols
<1>1. Range(m'.col) \subseteq Nat
  BY ShapeRefers DEF Whole
<1> QED
  BY <1>1 DEF ColsAreAdded, Data!AddCols

\* The rows that arrive, with their entries, are all that is new.
RowsAreAdded(nm) ==
    /\ Range(m.row) \subseteq Range(nm.row) /\ Range(nm.col) = Range(m.col)
    /\ EntriesOf(m) \subseteq EntriesOf(nm)
    /\ EntriesOf(nm) \ EntriesOf(m) \subseteq
         (Range(nm.row) \ Range(m.row)) \X Range(m.col)
    /\ AlteredOf(nm) = AlteredOf(m)
    /\ Holders(nm, nm.integer) = Holders(m, m.integer)
    /\ Holders(nm, nm.semi) = Holders(m, m.semi)
    /\ Holders(nm, nm.quad) = Holders(m, m.quad)
    /\ PairsOf(nm) = PairsOf(m) /\ IndOf(nm) = IndOf(m)
    /\ Members(nm, nm.sos) = Members(m, m.sos)
    /\ Members(nm, nm.cone) = Members(m, m.cone)
    /\ RowQuadOf(nm) = RowQuadOf(m)

\* The same of jaos_add_rows.
LEMMA RowsLongerAdds ==
  ASSUME fresh \in Nat \ {0}, Shape(m, fresh), NEW new, Len(new) \in Nat,
         NEW nm, RowsLonger(nm, new), IndicatorsFail = FALSE
  PROVE  RowsAreAdded(nm)
<1> DEFINE k == Len(new)
           N == NumRow
<1>1. /\ k \in Nat /\ NumCol \in Nat /\ N \in Nat
      /\ DOMAIN m.col = Cols /\ DOMAIN m.row = 1 .. N
      /\ m.row \in [1 .. N -> 1 .. fresh - 1]
  BY SizesAreNat DEF NumCol, NumRow, Cols
<1>2. /\ DOMAIN nm.row = 1 .. N + k
      /\ \A i \in 1 .. N : nm.row[i] = m.row[i]
      /\ \A i \in 1 .. k : nm.row[N + i] = (fresh + i) - 1
      /\ nm.col = m.col
  BY DEF RowsLonger, TagsLonger
<1>3. Range(m.row) \subseteq Range(nm.row) /\ Range(nm.col) = Range(m.col)
  <2> HIDE DEF k, N
  <2> QED
    BY <1>1, <1>2 DEF Range
<1>4. m.a \in [Cols -> SUBSET (1 .. N)]
  BY DEF Shape, ColsFit, Cols, NumCol, NumRow
<1>5. \A j \in Cols :
        nm.a[j] = m.a[j] \cup {N + p : p \in {q \in 1 .. k : j \in new[q]}}
  BY DEF RowsLonger
<1>6. /\ \A i \in 1 .. N + k : i \in 1 .. N \/ (i - N \in 1 .. k /\ N + (i - N) = i)
      /\ \A p \in 1 .. k : N + p \in 1 .. N + k /\ N + p \notin 1 .. N
  <2> HIDE DEF k, N
  <2> QED
    BY <1>1
<1>7. EntriesOf(m) \subseteq EntriesOf(nm)
  <2> SUFFICES ASSUME NEW t \in EntriesOf(m) PROVE t \in EntriesOf(nm)
    OBVIOUS
  <2> HIDE DEF k, N
  <2>1. PICK j \in Cols : \E i \in m.a[j] : t = <<m.row[i], m.col[j]>>
    BY <1>1, EntryIn
  <2>2. PICK i \in m.a[j] : t = <<m.row[i], m.col[j]>>
    BY <2>1
  <2>3. i \in nm.a[j] /\ i \in 1 .. N
    BY <1>4, <1>5
  <2>4. t = <<nm.row[i], nm.col[j]>> /\ j \in DOMAIN nm.col
    BY <1>1, <1>2, <2>2, <2>3
  <2> QED
    BY <2>3, <2>4, EntryIn
<1>8. ASSUME NEW t \in EntriesOf(nm), t \notin EntriesOf(m)
      PROVE  t \in (Range(nm.row) \ Range(m.row)) \X Range(m.col)
  <2> HIDE DEF k, N
  <2>1. \E j \in DOMAIN nm.col : \E i \in nm.a[j] :
          t = <<nm.row[i], nm.col[j]>>
    BY <1>8, EntryIn
  <2>2. PICK j \in Cols : \E i \in nm.a[j] : t = <<nm.row[i], m.col[j]>>
    BY <1>1, <1>2, <2>1
  <2>3. PICK i \in nm.a[j] : t = <<nm.row[i], m.col[j]>>
    BY <2>2
  <2>4. i \notin m.a[j]
    <3>1. CASE i \in m.a[j]
      <4>1. nm.row[i] = m.row[i]
        BY <1>2, <1>4, <3>1
      <4> QED
        BY <1>1, <1>8, <2>3, <3>1, <4>1, EntryIn
    <3> QED
      BY <3>1
  <2>5. PICK p \in 1 .. k : i = N + p
    BY <1>5, <2>3, <2>4
  <2>6. nm.row[i] = (fresh + p) - 1
    BY <1>2, <2>5
  <2>7. nm.row[i] \notin 1 .. fresh - 1
    BY <1>1, <2>5, <2>6
  <2>8. nm.row[i] \in Range(nm.row) /\ nm.row[i] \notin Range(m.row)
    BY <1>1, <1>2, <1>6, <2>5, <2>7 DEF Range
  <2>9. m.col[j] \in Range(m.col)
    BY <1>1 DEF Range
  <2> QED
    BY <2>3, <2>8, <2>9
<1>9. AlteredOf(nm) = AlteredOf(m)
  <2>1. LongerBy(nm.bound, m.bound, N, k, BOOLEAN, FALSE)
    BY DEF RowsLonger
  <2>2. /\ \A i \in 1 .. N : nm.bound[i] = m.bound[i]
        /\ \A i \in 1 .. k : nm.bound[N + i] = FALSE
    BY <2>1 DEF LongerBy
  <2> HIDE DEF k, N
  <2>3. nm.cost = m.cost /\ nm.sense = m.sense
    BY DEF RowsLonger
  <2>4. Holders(nm, nm.cost) = Holders(m, m.cost)
    BY <1>2, <2>3 DEF Holders
  <2>5. ASSUME NEW i \in DOMAIN nm.row, nm.bound[i]
        PROVE  i \in DOMAIN m.row /\ m.bound[i] /\ nm.row[i] = m.row[i]
    <3>1. i \in 1 .. N
      BY <1>2, <1>6, <2>2, <2>5
    <3> QED
      BY <1>1, <1>2, <2>2, <2>5, <3>1
  <2>6. ASSUME NEW i \in DOMAIN m.row, m.bound[i]
        PROVE  i \in DOMAIN nm.row /\ nm.bound[i] /\ nm.row[i] = m.row[i]
    BY <1>1, <1>2, <2>2, <2>6
  <2>7. ASSUME NEW x PROVE x \in AlteredOf(nm) <=> x \in AlteredOf(m)
    BY <2>3, <2>4, <2>5, <2>6, AlteredIn
  <2> QED
    BY <2>7
<1>10. IndOf(nm) = IndOf(m)
  <2>1. GrownBy(nm.ind, m.ind, N, k, Indicators(NumCol), NoIndicator)
    BY DEF RowsLonger
  <2>2. /\ m.ind = NULL => nm.ind = NULL
        /\ m.ind # NULL =>
             /\ nm.ind # NULL
             /\ \A i \in 1 .. N : nm.ind[i] = m.ind[i]
             /\ \A i \in 1 .. k : nm.ind[N + i] = NoIndicator
    BY <2>1 DEF GrownBy, LongerBy
  <2> HIDE DEF k, N
  <2>3. CASE m.ind = NULL
    BY <2>2, <2>3 DEF IndOf
  <2>4. CASE m.ind # NULL
    <3>1. ASSUME NEW i \in DOMAIN nm.row, nm.ind[i].col > 0
          PROVE  /\ i \in DOMAIN m.row /\ nm.row[i] = m.row[i]
                 /\ nm.ind[i] = m.ind[i]
      <4>1. ~(NoIndicator.col > 0)
        BY DEF NoIndicator
      <4>2. i \in 1 .. N
        BY <1>2, <1>6, <2>2, <2>4, <3>1, <4>1
      <4> QED
        BY <1>1, <1>2, <2>2, <2>4, <4>2
    <3>2. ASSUME NEW i \in DOMAIN m.row
          PROVE  /\ i \in DOMAIN nm.row /\ nm.row[i] = m.row[i]
                 /\ nm.ind[i] = m.ind[i]
      BY <1>1, <1>2, <2>2, <2>4
    <3>3. ASSUME NEW t \in IndOf(nm) PROVE t \in IndOf(m)
      <4>1. PICK i \in DOMAIN nm.row :
              /\ nm.ind[i].col > 0
              /\ t = <<nm.row[i], nm.col[nm.ind[i].col], nm.ind[i].val>>
        BY <3>3, IndicatorIn
      <4> QED
        BY <1>2, <2>4, <3>1, <4>1, IndicatorIn
    <3>4. ASSUME NEW t \in IndOf(m) PROVE t \in IndOf(nm)
      <4>1. PICK i \in DOMAIN m.row :
              /\ m.ind[i].col > 0
              /\ t = <<m.row[i], m.col[m.ind[i].col], m.ind[i].val>>
        BY <3>4, IndicatorIn
      <4> QED
        BY <1>2, <2>2, <2>4, <3>2, <4>1, IndicatorIn
    <3> QED
      BY <3>3, <3>4
  <2> QED
    BY <2>3, <2>4
<1>11. RowQuadOf(nm) = RowQuadOf(m)
  <2>1. /\ GrownBy(nm.rq, m.rq, N, k, SUBSET (Cols \X Cols), {})
        /\ m.rq = NULL \/ DOMAIN m.rq = 1 .. N
    BY DEF RowsLonger, Shape, RowsFit, Optional, NumRow
  <2>2. /\ m.rq = NULL => nm.rq = NULL
        /\ m.rq # NULL =>
             /\ nm.rq # NULL /\ DOMAIN nm.rq = 1 .. N + k
             /\ \A i \in 1 .. N : nm.rq[i] = m.rq[i]
             /\ \A i \in 1 .. k : nm.rq[N + i] = {}
    BY <2>1 DEF GrownBy, LongerBy
  <2> HIDE DEF k, N
  <2>3. CASE m.rq = NULL
    BY <2>2, <2>3 DEF RowQuadOf
  <2>4. CASE m.rq # NULL
    <3>1. ASSUME NEW i \in DOMAIN nm.rq, NEW p \in nm.rq[i]
          PROVE  /\ i \in DOMAIN m.rq /\ nm.row[i] = m.row[i]
                 /\ nm.rq[i] = m.rq[i]
      <4>1. i \in 1 .. N
        BY <1>6, <2>2, <2>4, <3>1
      <4> QED
        BY <1>2, <2>1, <2>2, <2>4, <4>1
    <3>2. ASSUME NEW i \in DOMAIN m.rq
          PROVE  /\ i \in DOMAIN nm.rq /\ nm.row[i] = m.row[i]
                 /\ nm.rq[i] = m.rq[i]
      BY <1>1, <1>2, <2>1, <2>2, <2>4
    <3>3. ASSUME NEW t PROVE t \in RowQuadOf(nm) <=> t \in RowQuadOf(m)
      BY <1>2, <2>2, <2>4, <3>1, <3>2, TermIn
    <3> QED
      BY <3>3
  <2> QED
    BY <2>3, <2>4
<1>12. /\ nm.integer = m.integer /\ nm.semi = m.semi /\ nm.quad = m.quad
       /\ nm.q = m.q /\ nm.sos = m.sos /\ nm.cone = m.cone
  BY DEF RowsLonger
<1>13. /\ Holders(nm, nm.integer) = Holders(m, m.integer)
       /\ Holders(nm, nm.semi) = Holders(m, m.semi)
       /\ Holders(nm, nm.quad) = Holders(m, m.quad)
  BY <1>2, <1>12 DEF Holders
<1>14. /\ PairsOf(nm) = PairsOf(m)
       /\ Members(nm, nm.sos) = Members(m, m.sos)
       /\ Members(nm, nm.cone) = Members(m, m.cone)
  BY <1>2, <1>12 DEF PairsOf, Members
<1> QED
  BY <1>3, <1>7, <1>8, <1>9, <1>10, <1>11, <1>13, <1>14 DEF RowsAreAdded

LEMMA RowsAdded ==
  ASSUME Whole, RowsAreAdded(m') PROVE Data!AddRows
<1>1. Range(m'.row) \subseteq Nat
  BY ShapeRefers DEF Whole
<1> QED
  BY <1>1 DEF RowsAreAdded, Data!AddRows

-----------------------------------------------------------------------------
\* A deletion is one action of it.

\* The columns that stay are where they are counted to, and no other stays.
ColsAt(nm, kept) ==
    /\ DOMAIN nm.col = 1 .. Cardinality(kept)
    /\ \A k \in DOMAIN nm.col :
         Nth(kept, k) \in kept /\ nm.col[k] = m.col[Nth(kept, k)]
    /\ \A p \in kept :
         /\ NewIndex(kept, p) \in DOMAIN nm.col
         /\ Nth(kept, NewIndex(kept, p)) = p
         /\ nm.col[NewIndex(kept, p)] = m.col[p]
    /\ \A p \in Cols : m.col[p] \in Range(nm.col) <=> p \in kept

\* The columns left are the kept ones, in their order.
LEMMA ColsAreAt ==
  ASSUME NEW next, Shape(m, next), NEW kept, Places(kept), kept \subseteq Cols,
         NEW nm, NEW S, ShorterBy(nm.col, m.col, kept, S)
  PROVE  ColsAt(nm, kept)
<1>1. DOMAIN m.col = Cols /\ IsInjective(m.col)
  BY SizesAreNat DEF Shape, TagsFit, Cols, NumCol
<1>2. /\ DOMAIN nm.col = 1 .. Cardinality(kept)
      /\ \A k \in DOMAIN nm.col : nm.col[k] = m.col[Nth(kept, k)]
  BY DEF ShorterBy
<1>3. \A k \in DOMAIN nm.col : Nth(kept, k) \in kept
  BY <1>2, Positions
<1>4. \A p \in kept : /\ NewIndex(kept, p) \in DOMAIN nm.col
                      /\ Nth(kept, NewIndex(kept, p)) = p
  BY <1>2, Positions
<1>5. \A p \in kept : nm.col[NewIndex(kept, p)] = m.col[p]
  BY <1>2, <1>4
<1>6. ASSUME NEW p \in Cols, m.col[p] \in Range(nm.col) PROVE p \in kept
  <2>1. PICK k \in DOMAIN nm.col : m.col[p] = nm.col[k]
    BY <1>6 DEF Range
  <2>2. m.col[p] = m.col[Nth(kept, k)] /\ Nth(kept, k) \in Cols
    BY <1>2, <1>3, <2>1
  <2>3. p = Nth(kept, k)
    BY <1>1, <2>2 DEF IsInjective
  <2> QED
    BY <1>3, <2>3
<1>7. ASSUME NEW p \in kept PROVE m.col[p] \in Range(nm.col)
  BY <1>4, <1>5 DEF Range
<1> QED
  BY <1>2, <1>3, <1>4, <1>5, <1>6, <1>7 DEF ColsAt

\* The marks of the columns that stay.
LEMMA MarksLeft ==
  ASSUME NEW nm, NEW kept, kept \subseteq Cols, ColsAt(nm, kept),
         NEW s, s \in [Cols -> BOOLEAN], s # NULL,
         NEW t, t # NULL, ShorterBy(t, s, kept, BOOLEAN)
  PROVE  Holders(nm, t) = Holders(m, s) \cap Range(nm.col)
<1>1. /\ DOMAIN t = DOMAIN nm.col /\ DOMAIN s = Cols
      /\ \A k \in DOMAIN t : t[k] = s[Nth(kept, k)]
  BY DEF ColsAt, ShorterBy
<1>2. ASSUME NEW x \in Holders(nm, t)
      PROVE  x \in Holders(m, s) /\ x \in Range(nm.col)
  <2>1. PICK k \in DOMAIN nm.col : t[k] /\ x = nm.col[k]
    BY <1>1, <1>2, HolderIn
  <2>2. Nth(kept, k) \in DOMAIN s /\ s[Nth(kept, k)] /\ x = m.col[Nth(kept, k)]
    BY <1>1, <2>1 DEF ColsAt
  <2> QED
    BY <2>1, <2>2, HolderIn DEF Range
<1>3. ASSUME NEW x \in Holders(m, s), x \in Range(nm.col)
      PROVE  x \in Holders(nm, t)
  <2>1. PICK p \in Cols : s[p] /\ x = m.col[p]
    BY <1>1, <1>3, HolderIn
  <2>2. p \in kept
    BY <1>3, <2>1 DEF ColsAt
  <2>3. /\ NewIndex(kept, p) \in DOMAIN t /\ t[NewIndex(kept, p)]
        /\ x = nm.col[NewIndex(kept, p)]
    BY <1>1, <2>1, <2>2 DEF ColsAt
  <2> QED
    BY <2>3, HolderIn
<1> QED
  BY <1>2, <1>3

LEMMA MarksCut ==
  ASSUME NEW nm, NEW kept, kept \subseteq Cols, ColsAt(nm, kept),
         NEW s, Optional(s, NumCol, BOOLEAN),
         NEW t, CutBy(t, s, kept, BOOLEAN)
  PROVE  Holders(nm, t) = Holders(m, s) \cap Range(nm.col)
<1>1. CASE s = NULL
  BY <1>1 DEF CutBy, Holders
<1>2. CASE s # NULL
  BY <1>2, MarksLeft DEF CutBy, Optional, Cols
<1> QED
  BY <1>1, <1>2

\* The pairs of columns that both stay.
LEMMA PairsLeft ==
  ASSUME NEW nm, NEW kept, kept \subseteq Cols, ColsAt(nm, kept),
         NEW q, q \subseteq Cols \X Cols
  PROVE  /\ \A p \in PairsWithout(q, kept) : \E r \in q :
              /\ r[1] \in kept /\ r[2] \in kept
              /\ nm.col[p[1]] = m.col[r[1]] /\ nm.col[p[2]] = m.col[r[2]]
         /\ \A r \in q : r[1] \in kept /\ r[2] \in kept =>
              \E p \in PairsWithout(q, kept) :
                nm.col[p[1]] = m.col[r[1]] /\ nm.col[p[2]] = m.col[r[2]]
<1>1. ASSUME NEW p \in PairsWithout(q, kept)
      PROVE  \E r \in q :
               /\ r[1] \in kept /\ r[2] \in kept
               /\ nm.col[p[1]] = m.col[r[1]] /\ nm.col[p[2]] = m.col[r[2]]
  <2>1. PICK r \in q : /\ r[1] \in kept /\ r[2] \in kept
                       /\ p = <<NewIndex(kept, r[1]), NewIndex(kept, r[2])>>
    BY <1>1 DEF PairsWithout
  <2>2. p[1] = NewIndex(kept, r[1]) /\ p[2] = NewIndex(kept, r[2])
    BY <2>1
  <2> QED
    BY <2>1, <2>2 DEF ColsAt
<1>2. ASSUME NEW r \in q, r[1] \in kept, r[2] \in kept
      PROVE  \E p \in PairsWithout(q, kept) :
               nm.col[p[1]] = m.col[r[1]] /\ nm.col[p[2]] = m.col[r[2]]
  <2> DEFINE p == <<NewIndex(kept, r[1]), NewIndex(kept, r[2])>>
  <2>1. p \in PairsWithout(q, kept)
    BY <1>2 DEF PairsWithout
  <2>2. p[1] = NewIndex(kept, r[1]) /\ p[2] = NewIndex(kept, r[2])
    OBVIOUS
  <2> HIDE DEF p
  <2> QED
    BY <1>2, <2>1, <2>2 DEF ColsAt
<1> QED
  BY <1>1, <1>2

\* The quadratic pairs left are those of two kept columns.
LEMMA PairsOfLeft ==
  ASSUME NEW nm, NEW kept, kept \subseteq Cols, ColsAt(nm, kept),
         m.q \subseteq Cols \X Cols, nm.q = PairsWithout(m.q, kept)
  PROVE  PairsOf(nm) = {t \in PairsOf(m) : t[1] \in Range(nm.col)
                                             /\ t[2] \in Range(nm.col)}
<1>1. \A p \in m.q : p[1] \in Cols /\ p[2] \in Cols
  OBVIOUS
<1>2. \A p \in kept : m.col[p] \in Range(nm.col)
  BY DEF ColsAt
<1>3. ASSUME NEW t \in PairsOf(nm)
      PROVE  /\ t \in PairsOf(m)
             /\ t[1] \in Range(nm.col) /\ t[2] \in Range(nm.col)
  <2>1. PICK p \in PairsWithout(m.q, kept) :
          t = <<nm.col[p[1]], nm.col[p[2]]>>
    BY <1>3, PairIn
  <2>2. PICK r \in m.q :
          /\ r[1] \in kept /\ r[2] \in kept
          /\ nm.col[p[1]] = m.col[r[1]] /\ nm.col[p[2]] = m.col[r[2]]
    BY PairsLeft
  <2>3. t = <<m.col[r[1]], m.col[r[2]]>>
    BY <2>1, <2>2
  <2> QED
    BY <1>2, <2>2, <2>3, PairIn
<1>4. ASSUME NEW t \in PairsOf(m),
             t[1] \in Range(nm.col), t[2] \in Range(nm.col)
      PROVE  t \in PairsOf(nm)
  <2>1. PICK r \in m.q : t = <<m.col[r[1]], m.col[r[2]]>>
    BY <1>4, PairIn
  <2>2. r[1] \in kept /\ r[2] \in kept
    BY <1>1, <1>4, <2>1 DEF ColsAt
  <2>3. PICK p \in PairsWithout(m.q, kept) :
          nm.col[p[1]] = m.col[r[1]] /\ nm.col[p[2]] = m.col[r[2]]
    BY <2>2, PairsLeft
  <2> QED
    BY <2>1, <2>3, PairIn
<1> QED
  BY <1>3, <1>4

\* So are the quadratic terms of the rows.
LEMMA TermsLeft ==
  ASSUME NEW nm, NEW kept, kept \subseteq Cols, ColsAt(nm, kept),
         m.rq = NULL \/ m.rq \in [Rows -> SUBSET (Cols \X Cols)],
         nm.row = m.row, m.rq # NULL => nm.rq # NULL,
         nm.rq = IF m.rq = NULL THEN NULL
                 ELSE [i \in Rows |-> PairsWithout(m.rq[i], kept)]
  PROVE  RowQuadOf(nm) = {t \in RowQuadOf(m) : t[2] \in Range(nm.col)
                                                 /\ t[3] \in Range(nm.col)}
<1>1. CASE m.rq = NULL
  BY <1>1 DEF RowQuadOf
<1>2. CASE m.rq # NULL
  <2>1. /\ \A i \in Rows : m.rq[i] \subseteq Cols \X Cols
        /\ DOMAIN m.rq = Rows /\ DOMAIN nm.rq = Rows
        /\ \A i \in Rows : nm.rq[i] = PairsWithout(m.rq[i], kept)
    BY <1>2
  <2>2. \A p \in kept : m.col[p] \in Range(nm.col)
    BY DEF ColsAt
  <2>3. ASSUME NEW t \in RowQuadOf(nm)
        PROVE  /\ t \in RowQuadOf(m)
               /\ t[2] \in Range(nm.col) /\ t[3] \in Range(nm.col)
    <3>1. PICK i \in Rows : \E p \in PairsWithout(m.rq[i], kept) :
            t = <<m.row[i], nm.col[p[1]], nm.col[p[2]]>>
      BY <2>1, <2>3, TermIn
    <3>2. PICK p \in PairsWithout(m.rq[i], kept) :
            t = <<m.row[i], nm.col[p[1]], nm.col[p[2]]>>
      BY <3>1
    <3>3. PICK r \in m.rq[i] :
            /\ r[1] \in kept /\ r[2] \in kept
            /\ nm.col[p[1]] = m.col[r[1]] /\ nm.col[p[2]] = m.col[r[2]]
      BY <2>1, PairsLeft
    <3>4. t = <<m.row[i], m.col[r[1]], m.col[r[2]]>>
      BY <3>2, <3>3
    <3>5. t \in RowQuadOf(m)
      BY <1>2, <2>1, <3>4, TermIn
    <3> QED
      BY <2>2, <3>3, <3>4, <3>5
  <2>4. ASSUME NEW t \in RowQuadOf(m),
               t[2] \in Range(nm.col), t[3] \in Range(nm.col)
        PROVE  t \in RowQuadOf(nm)
    <3>1. PICK i \in Rows : \E r \in m.rq[i] :
            t = <<m.row[i], m.col[r[1]], m.col[r[2]]>>
      BY <2>1, <2>4, TermIn
    <3>2. PICK r \in m.rq[i] : t = <<m.row[i], m.col[r[1]], m.col[r[2]]>>
      BY <3>1
    <3>3. r[1] \in Cols /\ r[2] \in Cols
      BY <2>1
    <3>4. r[1] \in kept /\ r[2] \in kept
      BY <2>4, <3>2, <3>3 DEF ColsAt
    <3>5. PICK p \in PairsWithout(m.rq[i], kept) :
            nm.col[p[1]] = m.col[r[1]] /\ nm.col[p[2]] = m.col[r[2]]
      BY <2>1, <3>4, PairsLeft
    <3>6. t = <<nm.row[i], nm.col[p[1]], nm.col[p[2]]>>
      BY <3>2, <3>5
    <3> QED
      BY <1>2, <2>1, <3>5, <3>6, TermIn
  <2> QED
    BY <2>3, <2>4
<1> QED
  BY <1>1, <1>2

\* The members of a set whose columns stay.
LEMMA SetLeft ==
  ASSUME NEW s, NEW kept, Places(MembersLeft(s, kept)),
         NEW w, w = SetWithout(s, kept)
  PROVE  /\ w.tag = s.tag
         /\ \A u \in DOMAIN w.col : \E v \in DOMAIN s.col :
              /\ s.col[v] \in kept
              /\ w.col[u] = NewIndex(kept, s.col[v])
              /\ w.weight[u] = s.weight[v]
         /\ \A v \in DOMAIN s.col : s.col[v] \in kept =>
              \E u \in DOMAIN w.col :
                /\ w.col[u] = NewIndex(kept, s.col[v])
                /\ w.weight[u] = s.weight[v]
<1> DEFINE on == MembersLeft(s, kept)
           c == Cardinality(on)
<1>1. \A v : v \in on <=> v \in DOMAIN s.col /\ s.col[v] \in kept
  BY DEF MembersLeft
<1>2. /\ w.tag = s.tag /\ DOMAIN w.col = 1 .. c
      /\ \A u \in 1 .. c :
           w.col[u] = [t \in DOMAIN s.col |->
                         NewIndex(kept, s.col[t])][Nth(on, u)]
      /\ \A u \in 1 .. c : w.weight[u] = s.weight[Nth(on, u)]
  BY DEF SetWithout, Only
<1>3. /\ \A u \in 1 .. c : Nth(on, u) \in on
      /\ \A v \in on : NewIndex(on, v) \in 1 .. c
                       /\ Nth(on, NewIndex(on, v)) = v
  BY Positions
<1> HIDE DEF on, c
<1>4. \A u \in 1 .. c : w.col[u] = NewIndex(kept, s.col[Nth(on, u)])
  BY <1>1, <1>2, <1>3
<1>5. ASSUME NEW u \in DOMAIN w.col
      PROVE  \E v \in DOMAIN s.col :
               /\ s.col[v] \in kept
               /\ w.col[u] = NewIndex(kept, s.col[v])
               /\ w.weight[u] = s.weight[v]
  BY <1>1, <1>2, <1>3, <1>4
<1>6. ASSUME NEW v \in DOMAIN s.col, s.col[v] \in kept
      PROVE  \E u \in DOMAIN w.col :
               /\ w.col[u] = NewIndex(kept, s.col[v])
               /\ w.weight[u] = s.weight[v]
  <2>1. v \in on
    BY <1>1, <1>6
  <2>2. NewIndex(on, v) \in 1 .. c /\ Nth(on, NewIndex(on, v)) = v
    BY <1>3, <2>1
  <2> QED
    BY <1>2, <1>4, <2>2
<1> QED
  BY <1>2, <1>5, <1>6

\* The sets left hold the kept members of each, in their order.
LEMMA MembersAreLeft ==
  ASSUME NEW next, NEW sets, SetsFit(sets, NumCol, next), NumCol \in Nat,
         NEW nm, NEW kept, kept \subseteq Cols, Places(kept), ColsAt(nm, kept)
  PROVE  Members(nm, SetsWithout(sets, kept)) =
           {t \in Members(m, sets) : t[2] \in Range(nm.col)}
<1> DEFINE new == SetsWithout(sets, kept)
           left == SetsLeft(sets, kept)
<1>1. /\ Places(left) /\ DOMAIN new = 1 .. Cardinality(left)
      /\ \A k \in DOMAIN new :
           Nth(left, k) \in left
           /\ new[k] = SetWithout(sets[Nth(left, k)], kept)
  <2>1. kept \subseteq 1 .. NumCol
    BY DEF Cols
  <2>2. Places(left)
    BY <2>1, SetsShorter
  <2>3. DOMAIN new = 1 .. Cardinality(left)
    BY <2>1, SetsShorter
  <2>4. ASSUME NEW k \in 1 .. Cardinality(left)
        PROVE  Nth(left, k) \in left
    BY <2>2, Positions
  <2>5. ASSUME NEW k \in 1 .. Cardinality(left)
        PROVE  new[k] = SetWithout(sets[Nth(left, k)], kept)
    <3>1. new[k] = [l \in DOMAIN sets |-> SetWithout(sets[l], kept)][Nth(left, k)]
      BY <2>5 DEF SetsWithout, Only, SetsLeft
    <3>2. Nth(left, k) \in DOMAIN sets
      BY <2>4 DEF SetsLeft
    <3> HIDE DEF new, left
    <3> QED
      BY <3>1, <3>2
  <2> HIDE DEF new, left
  <2> QED
    BY <2>2, <2>3, <2>4, <2>5
<1>2. \A l \in left : NewIndex(left, l) \in DOMAIN new
                      /\ Nth(left, NewIndex(left, l)) = l
  BY <1>1, Positions
<1>3. \A l : l \in left <=> l \in DOMAIN sets
                            /\ MembersLeft(sets[l], kept) # {}
  BY DEF SetsLeft
<1> HIDE DEF new, left
<1>4. \A l \in DOMAIN sets : Places(MembersLeft(sets[l], kept))
  BY SetShorter DEF SetsFit, Cols
<1>5. \A l \in DOMAIN sets : \A v \in DOMAIN sets[l].col :
        sets[l].col[v] \in Cols
  <2> SUFFICES ASSUME NEW l \in DOMAIN sets, NEW v \in DOMAIN sets[l].col
               PROVE  sets[l].col[v] \in Cols
    OBVIOUS
  <2> DEFINE c == sets[l].col
  <2>1. c \in Seq(1 .. NumCol) /\ v \in DOMAIN c
    BY DEF SetsFit, SetFits
  <2> HIDE DEF c
  <2>2. c \in [1 .. Len(c) -> 1 .. NumCol] /\ DOMAIN c = 1 .. Len(c)
    BY <2>1, SeqIsArray
  <2>3. c[v] \in 1 .. NumCol
    BY <2>1, <2>2
  <2> QED
    BY <2>3 DEF c, Cols
<1>6. ASSUME NEW t \in Members(nm, new)
      PROVE  t \in Members(m, sets) /\ t[2] \in Range(nm.col)
  <2>1. PICK k \in DOMAIN new : \E u \in DOMAIN new[k].col :
          t = <<new[k].tag, nm.col[new[k].col[u]], new[k].weight[u]>>
    BY <1>6, MemberIn
  <2>2. PICK u \in DOMAIN new[k].col :
          t = <<new[k].tag, nm.col[new[k].col[u]], new[k].weight[u]>>
    BY <2>1
  <2> DEFINE s == sets[Nth(left, k)]
             w == new[k]
  <2>3. /\ Nth(left, k) \in DOMAIN sets /\ w = SetWithout(s, kept)
        /\ Places(MembersLeft(s, kept))
    BY <1>1, <1>3, <1>4
  <2>4. t = <<w.tag, nm.col[w.col[u]], w.weight[u]>> /\ u \in DOMAIN w.col
    BY <2>2
  <2>5. \A v \in DOMAIN s.col : s.col[v] \in Cols
    BY <1>5, <2>3
  <2>6. ASSUME NEW v \in DOMAIN s.col,
               t = <<s.tag, m.col[s.col[v]], s.weight[v]>>
        PROVE  t \in Members(m, sets)
    BY <2>3, <2>6, MemberIn
  <2> HIDE DEF s, w
  <2>7. w.tag = s.tag
    BY <2>3, SetLeft
  <2>8. PICK v \in DOMAIN s.col :
          /\ s.col[v] \in kept /\ w.col[u] = NewIndex(kept, s.col[v])
          /\ w.weight[u] = s.weight[v]
    BY <2>3, <2>4, SetLeft
  <2>9. /\ nm.col[w.col[u]] = m.col[s.col[v]]
        /\ m.col[s.col[v]] \in Range(nm.col)
    BY <2>5, <2>8 DEF ColsAt
  <2>10. t = <<s.tag, m.col[s.col[v]], s.weight[v]>>
    BY <2>4, <2>7, <2>8, <2>9
  <2> QED
    BY <2>6, <2>9, <2>10
<1>7. ASSUME NEW t \in Members(m, sets), t[2] \in Range(nm.col)
      PROVE  t \in Members(nm, new)
  <2>1. PICK l \in DOMAIN sets : \E v \in DOMAIN sets[l].col :
          t = <<sets[l].tag, m.col[sets[l].col[v]], sets[l].weight[v]>>
    BY <1>7, MemberIn
  <2>2. PICK v \in DOMAIN sets[l].col :
          t = <<sets[l].tag, m.col[sets[l].col[v]], sets[l].weight[v]>>
    BY <2>1
  <2>3. sets[l].col[v] \in kept
    BY <1>5, <1>7, <2>2 DEF ColsAt
  <2>4. l \in left
    BY <1>3, <2>3 DEF MembersLeft
  <2> DEFINE k == NewIndex(left, l)
             s == sets[l]
             w == new[k]
  <2>5. k \in DOMAIN new /\ w = SetWithout(s, kept)
          /\ Places(MembersLeft(s, kept))
    BY <1>1, <1>2, <1>4, <2>4
  <2>6. /\ t = <<s.tag, m.col[s.col[v]], s.weight[v]>>
        /\ v \in DOMAIN s.col /\ s.col[v] \in kept
    BY <2>2, <2>3
  <2>7. ASSUME NEW u \in DOMAIN w.col,
               t = <<w.tag, nm.col[w.col[u]], w.weight[u]>>
        PROVE  t \in Members(nm, new)
    BY <2>5, <2>7, MemberIn
  <2> HIDE DEF k, s, w
  <2>8. w.tag = s.tag
    BY <2>5, SetLeft
  <2>9. PICK u \in DOMAIN w.col :
          w.col[u] = NewIndex(kept, s.col[v]) /\ w.weight[u] = s.weight[v]
    BY <2>5, <2>6, SetLeft
  <2>10. nm.col[w.col[u]] = m.col[s.col[v]]
    BY <2>6, <2>9 DEF ColsAt
  <2> QED
    BY <2>6, <2>7, <2>8, <2>9, <2>10
<1>8. Members(nm, new) = {t \in Members(m, sets) : t[2] \in Range(nm.col)}
  BY <1>6, <1>7
<1> QED
  BY <1>8 DEF new

\* The coefficients left are those of the kept columns.
LEMMA EntriesLeft ==
  ASSUME NEW nm, NEW kept, kept \subseteq Cols, ColsAt(nm, kept),
         DOMAIN m.col = Cols, nm.row = m.row,
         NEW S, ShorterBy(nm.a, m.a, kept, S)
  PROVE  EntriesOf(nm) = {t \in EntriesOf(m) : t[2] \in Range(nm.col)}
<1>1. \A k \in DOMAIN nm.col :
        /\ nm.a[k] = m.a[Nth(kept, k)] /\ nm.col[k] = m.col[Nth(kept, k)]
        /\ Nth(kept, k) \in kept
  BY DEF ColsAt, ShorterBy
<1>2. ASSUME NEW t \in EntriesOf(nm)
      PROVE  t \in EntriesOf(m) /\ t[2] \in Range(nm.col)
  <2>1. PICK k \in DOMAIN nm.col : \E i \in nm.a[k] :
          t = <<nm.row[i], nm.col[k]>>
    BY <1>2, EntryIn
  <2>2. \E i \in m.a[Nth(kept, k)] : t = <<m.row[i], m.col[Nth(kept, k)]>>
    BY <1>1, <2>1
  <2>3. Nth(kept, k) \in DOMAIN m.col
    BY <1>1
  <2>4. t[2] = nm.col[k]
    BY <2>1
  <2> QED
    BY <2>2, <2>3, <2>4, EntryIn DEF Range
<1>3. ASSUME NEW t \in EntriesOf(m), t[2] \in Range(nm.col)
      PROVE  t \in EntriesOf(nm)
  <2>1. PICK j \in Cols : \E i \in m.a[j] : t = <<m.row[i], m.col[j]>>
    BY <1>3, EntryIn
  <2>2. j \in kept
    BY <1>3, <2>1 DEF ColsAt
  <2>3. /\ NewIndex(kept, j) \in DOMAIN nm.col
        /\ nm.col[NewIndex(kept, j)] = m.col[j]
        /\ nm.a[NewIndex(kept, j)] = m.a[j]
    BY <1>1, <2>2 DEF ColsAt
  <2> QED
    BY <2>1, <2>3, EntryIn
<1> QED
  BY <1>2, <1>3

\* The columns of the indicators all stay, and so do the indicators.
LEMMA IndicatorsStay ==
  ASSUME NEW next, Shape(m, next), NEW kept, kept \subseteq Cols,
         Places(kept), DriversStay(kept),
         NEW nm, ColsAt(nm, kept), nm.row = m.row, m.ind # NULL =>
                 nm.ind # NULL,
         nm.ind = IF m.ind = NULL THEN NULL
                  ELSE [i \in Rows |-> Renumbered(m.ind[i], kept)]
  PROVE  /\ IndOf(nm) = IndOf(m)
         /\ \A t \in IndOf(m) : t[2] \in Range(nm.col)
<1>1. CASE m.ind = NULL
  BY <1>1 DEF IndOf
<1>2. CASE m.ind # NULL
  <2>1. DOMAIN m.row = Rows
    BY SizesAreNat DEF Rows, NumRow
  <2>2. ASSUME NEW i \in Rows, m.ind[i].col > 0
        PROVE  /\ nm.ind[i].col > 0 /\ nm.ind[i].val = m.ind[i].val
               /\ nm.col[nm.ind[i].col] = m.col[m.ind[i].col]
               /\ m.col[m.ind[i].col] \in Range(nm.col)
    <3> DEFINE r == m.ind[i]
               s == nm.ind[i]
    <3>1. r.col > 0 /\ (r.col = 0 \/ r.col \in kept)
      BY <1>2, <2>2 DEF DriversStay
    <3>2. s = Renumbered(r, kept)
      BY <1>2
    <3> HIDE DEF r, s
    <3>3. r.col # 0 /\ r.col \in kept
      BY <3>1
    <3>4. s.col = NewIndex(kept, r.col) /\ s.val = r.val
      BY <3>2, <3>3 DEF Renumbered
    <3>5. NewIndex(kept, r.col) \in 1 .. Cardinality(kept)
            /\ Cardinality(kept) \in Nat
      BY <3>3, Positions
    <3>6. s.col > 0
      BY <3>4, <3>5
    <3>7. nm.col[s.col] = m.col[r.col] /\ m.col[r.col] \in Range(nm.col)
      BY <3>3, <3>4 DEF ColsAt
    <3> QED
      BY <3>4, <3>6, <3>7 DEF r, s
  <2>3. ASSUME NEW i \in Rows, nm.ind[i].col > 0 PROVE m.ind[i].col > 0
    <3> DEFINE r == m.ind[i]
               s == nm.ind[i]
    <3>1. s = Renumbered(r, kept) /\ s.col > 0
      BY <1>2, <2>3
    <3>2. r \in [col : Nat, val : {0, 1}]
      BY <1>2, ShapeIndicators DEF Optional, Rows, NumRow
    <3> HIDE DEF r, s
    <3>3. r.col \in Nat /\ r.col # 0
      BY <3>1, <3>2 DEF Renumbered
    <3>4. r.col > 0
      BY <3>3
    <3> QED
      BY <3>4 DEF r
  <2>4. ASSUME NEW t \in IndOf(nm) PROVE t \in IndOf(m)
    <3>1. PICK i \in Rows :
            /\ nm.ind[i].col > 0
            /\ t = <<m.row[i], nm.col[nm.ind[i].col], nm.ind[i].val>>
      BY <2>1, <2>4, IndicatorIn
    <3>2. m.ind[i].col > 0
      BY <2>3, <3>1
    <3>3. t = <<m.row[i], m.col[m.ind[i].col], m.ind[i].val>>
      BY <2>2, <3>1, <3>2
    <3> QED
      BY <1>2, <2>1, <3>2, <3>3, IndicatorIn
  <2>5. ASSUME NEW t \in IndOf(m)
        PROVE  t \in IndOf(nm) /\ t[2] \in Range(nm.col)
    <3>1. PICK i \in Rows :
            /\ m.ind[i].col > 0
            /\ t = <<m.row[i], m.col[m.ind[i].col], m.ind[i].val>>
      BY <2>1, <2>5, IndicatorIn
    <3>2. /\ nm.ind[i].col > 0 /\ m.col[m.ind[i].col] \in Range(nm.col)
          /\ t = <<nm.row[i], nm.col[nm.ind[i].col], nm.ind[i].val>>
      BY <2>2, <3>1
    <3>3. t \in IndOf(nm)
      BY <1>2, <2>1, <3>2, IndicatorIn
    <3> QED
      BY <3>1, <3>2, <3>3
  <2> QED
    BY <2>4, <2>5
<1> QED
  BY <1>1, <1>2

\* The columns that went took with them what referred to them, and nothing
\* else.
ColsAreRemoved(nm) ==
    /\ Range(nm.col) \subseteq Range(m.col) /\ nm.row = m.row
    /\ EntriesOf(nm) = {t \in EntriesOf(m) : t[2] \in Range(nm.col)}
    /\ AlteredOf(nm) = AlteredOf(m) \ (Range(m.col) \ Range(nm.col))
    /\ Holders(nm, nm.integer) = Holders(m, m.integer) \cap Range(nm.col)
    /\ Holders(nm, nm.semi) = Holders(m, m.semi) \cap Range(nm.col)
    /\ Holders(nm, nm.quad) = Holders(m, m.quad) \cap Range(nm.col)
    /\ PairsOf(nm) = {t \in PairsOf(m) : t[1] \in Range(nm.col)
                                           /\ t[2] \in Range(nm.col)}
    /\ Members(nm, nm.sos) = {t \in Members(m, m.sos) : t[2] \in Range(nm.col)}
    /\ RowQuadOf(nm) = {t \in RowQuadOf(m) : t[2] \in Range(nm.col)
                                               /\ t[3] \in Range(nm.col)}
    /\ IndOf(nm) = IndOf(m) /\ Members(nm, nm.cone) = Members(m, m.cone)
    /\ \A t \in IndOf(m) \cup Members(m, m.cone) : t[2] \in Range(nm.col)

\* The numbers left are those of the kept columns, rows and the sense.
LEMMA AlteredLeft ==
  ASSUME NEW next \in Nat, Shape(m, next), NEW nm,
         Range(nm.col) \subseteq Range(m.col),
         nm.row = m.row, nm.bound = m.bound, nm.sense = m.sense,
         Holders(nm, nm.cost) = Holders(m, m.cost) \cap Range(nm.col)
  PROVE  AlteredOf(nm) = AlteredOf(m) \ (Range(m.col) \ Range(nm.col))
<1>1. /\ Range(m.col) \cap Range(m.row) = {}
      /\ m.col \in [1 .. Len(m.col) -> 1 .. next - 1]
      /\ DOMAIN m.col = 1 .. Len(m.col)
  BY SizesAreNat DEF Shape, TagsFit
<1>2. 0 \notin Range(m.col)
  BY <1>1 DEF Range
<1>3. \A i \in DOMAIN m.row : m.row[i] \notin Range(m.col)
  BY <1>1 DEF Range
<1>4. Holders(m, m.cost) \subseteq Range(m.col)
  <2>1. m.cost \in [1 .. Len(m.col) -> BOOLEAN]
    BY DEF Shape, ColsFit
  <2> SUFFICES ASSUME NEW x \in Holders(m, m.cost) PROVE x \in Range(m.col)
    OBVIOUS
  <2>2. PICK j \in DOMAIN m.cost : x = m.col[j]
    BY HolderIn
  <2> QED
    BY <1>1, <2>1, <2>2 DEF Range
<1>5. ASSUME NEW x
      PROVE  x \in AlteredOf(nm) <=>
               x \in AlteredOf(m) /\ x \notin Range(m.col) \ Range(nm.col)
  BY <1>2, <1>3, <1>4, AlteredIn
<1> QED
  BY <1>5

\* What jaos_delete_cols leaves, every relation as that action has it.
LEMMA ColsShorterRemoves ==
  ASSUME fresh \in Nat, Shape(m, fresh), NEW kept, Places(kept),
         kept \subseteq Cols, DriversStay(kept), MembersStay(kept),
         NEW nm, ColsShorter(nm, kept), Shape(nm, fresh)
  PROVE  ColsAreRemoved(nm)
<1>1. /\ NumCol \in Nat /\ DOMAIN m.col = Cols
  BY SizesAreNat DEF NumCol, Cols
<1>2. ColsAt(nm, kept)
  BY ColsAreAt DEF ColsShorter
<1>3. /\ nm.row = m.row /\ nm.bound = m.bound /\ nm.sense = m.sense
      /\ ShorterBy(nm.cost, m.cost, kept, BOOLEAN)
      /\ ShorterBy(nm.a, m.a, kept, SUBSET Rows)
      /\ nm.q = PairsWithout(m.q, kept)
      /\ nm.sos = SetsWithout(m.sos, kept)
      /\ nm.cone = SetsWithout(m.cone, kept)
      /\ nm.ind = IF m.ind = NULL THEN NULL
                  ELSE [i \in Rows |-> Renumbered(m.ind[i], kept)]
      /\ nm.rq = IF m.rq = NULL THEN NULL
                 ELSE [i \in Rows |-> PairsWithout(m.rq[i], kept)]
  BY DEF ColsShorter
<1>4. Range(nm.col) \subseteq Range(m.col)
  BY <1>1, <1>2 DEF ColsAt, Range
<1>5. EntriesOf(nm) = {t \in EntriesOf(m) : t[2] \in Range(nm.col)}
  BY <1>1, <1>2, <1>3, EntriesLeft
<1>6. /\ Optional(m.integer, NumCol, BOOLEAN)
      /\ Optional(m.semi, NumCol, BOOLEAN)
      /\ Optional(m.quad, NumCol, BOOLEAN)
      /\ m.cost \in [Cols -> BOOLEAN] /\ m.cost \in [1 .. NumCol -> BOOLEAN]
      /\ m.q \subseteq Cols \X Cols
      /\ m.rq = NULL \/ m.rq \in [Rows -> SUBSET (Cols \X Cols)]
  BY DEF Shape, ColsFit, RowsFit, Optional, NumCol, Cols, NumRow, Rows
<1>7. /\ CutBy(nm.integer, m.integer, kept, BOOLEAN)
      /\ CutBy(nm.semi, m.semi, kept, BOOLEAN)
      /\ CutBy(nm.quad, m.quad, kept, BOOLEAN)
  BY DEF ColsShorter
<1>8. /\ Holders(nm, nm.integer) = Holders(m, m.integer) \cap Range(nm.col)
      /\ Holders(nm, nm.semi) = Holders(m, m.semi) \cap Range(nm.col)
      /\ Holders(nm, nm.quad) = Holders(m, m.quad) \cap Range(nm.col)
  BY <1>2, <1>6, <1>7, MarksCut
<1>9. m.cost # NULL /\ nm.cost # NULL
  <2>1. m.cost \in Seq(BOOLEAN)
    BY <1>1, <1>6, ArrayIsSeq
  <2>2. nm.cost \in Seq(BOOLEAN)
    <3>1. Len(nm.col) \in Nat /\ nm.cost \in [1 .. Len(nm.col) -> BOOLEAN]
      BY SizesAreNat DEF Shape, ColsFit
    <3> QED
      BY <3>1, ArrayIsSeq
  <2> QED
    BY <2>1, <2>2, NullIsNoArray
<1>10. Holders(nm, nm.cost) = Holders(m, m.cost) \cap Range(nm.col)
  BY <1>2, <1>3, <1>6, <1>9, MarksLeft
<1>11. AlteredOf(nm) = AlteredOf(m) \ (Range(m.col) \ Range(nm.col))
  BY <1>3, <1>4, <1>10, AlteredLeft
<1>12. PairsOf(nm) = {t \in PairsOf(m) : t[1] \in Range(nm.col)
                                           /\ t[2] \in Range(nm.col)}
  BY <1>2, <1>3, <1>6, PairsOfLeft
<1>13. /\ m.ind # NULL => nm.ind # NULL
       /\ m.rq # NULL => nm.rq # NULL
  <2>1. NumRow \in Nat
    BY SizesAreNat DEF NumRow
  <2>2. ASSUME NEW f, DOMAIN f = Rows, f = [i \in Rows |-> f[i]], NEW S,
               \A i \in Rows : f[i] \in S
        PROVE  f \in Seq(S)
    <3>1. f \in [1 .. NumRow -> S]
      BY <2>2 DEF Rows
    <3> QED
      BY <2>1, <3>1, ArrayIsSeq
  <2>3. ASSUME m.ind # NULL PROVE nm.ind # NULL
    <3> DEFINE f == [i \in Rows |-> Renumbered(m.ind[i], kept)]
    <3>1. nm.ind = f
      BY <1>3, <2>3
    <3>2. \A i \in Rows : f[i] \in [col : Nat, val : {0, 1}]
      <4> SUFFICES ASSUME NEW i \in Rows
                   PROVE  Renumbered(m.ind[i], kept) \in [col : Nat, val :
                           {0, 1}]
        OBVIOUS
      <4> DEFINE r == m.ind[i]
      <4>1. r \in [col : Nat, val : {0, 1}]
        BY <2>3, ShapeIndicators DEF Optional, Rows, NumRow
      <4>2. r.col = 0 \/ r.col \in kept
        BY <2>3 DEF DriversStay
      <4> HIDE DEF r
      <4>3. r.col \in kept => NewIndex(kept, r.col) \in Nat
        BY Positions
      <4>4. Renumbered(r, kept) \in [col : Nat, val : {0, 1}]
        BY <4>1, <4>2, <4>3 DEF Renumbered
      <4> QED
        BY <4>4 DEF r
    <3>3. f \in Seq([col : Nat, val : {0, 1}])
      BY <2>2, <3>2
    <3> QED
      BY <3>1, <3>3, NullAssumption
  <2>4. ASSUME m.rq # NULL PROVE nm.rq # NULL
    <3> DEFINE f == [i \in Rows |-> PairsWithout(m.rq[i], kept)]
               S == SUBSET ((1 .. NumCol) \X (1 .. NumCol))
               k == Cardinality(kept)
               T == SUBSET ((1 .. k) \X (1 .. k))
    <3>1. nm.rq = f
      BY <1>3, <2>4
    <3>2. k \in Nat
      BY Positions
    <3>3. \A i \in Rows : f[i] \in T
      <4> SUFFICES ASSUME NEW i \in Rows
                   PROVE  PairsWithout(m.rq[i], kept) \subseteq
                            (1 .. k) \X (1 .. k)
        OBVIOUS
      <4>1. m.rq[i] \subseteq (1 .. NumCol) \X (1 .. NumCol)
        BY <1>6, <2>4 DEF Cols
      <4>2. kept \subseteq 1 .. NumCol
        BY DEF Cols
      <4> QED
        BY <1>1, <4>1, <4>2, PairsWithoutFit
    <3>4. f \in Seq(T)
      BY <2>2, <3>3
    <3>5. NULL \notin Seq(T)
      BY <3>2, NullIsNoArray
    <3> QED
      BY <3>1, <3>4, <3>5
  <2> QED
    BY <2>3, <2>4
<1>14. RowQuadOf(nm) = {t \in RowQuadOf(m) : t[2] \in Range(nm.col)
                                               /\ t[3] \in Range(nm.col)}
  BY <1>2, <1>3, <1>6, <1>13, TermsLeft
<1>15. SetsFit(m.sos, NumCol, fresh) /\ SetsFit(m.cone, NumCol, fresh)
  BY DEF Shape, ConesFit, NumCol
<1>16. /\ Members(nm, nm.sos) =
            {t \in Members(m, m.sos) : t[2] \in Range(nm.col)}
       /\ Members(nm, nm.cone) =
            {t \in Members(m, m.cone) : t[2] \in Range(nm.col)}
  BY <1>1, <1>2, <1>3, <1>15, MembersAreLeft
<1>17. ASSUME NEW t \in Members(m, m.cone) PROVE t[2] \in Range(nm.col)
  <2>1. PICK k \in DOMAIN m.cone : \E u \in DOMAIN m.cone[k].col :
          t = <<m.cone[k].tag, m.col[m.cone[k].col[u]], m.cone[k].weight[u]>>
    BY <1>17, MemberIn
  <2>2. PICK u \in DOMAIN m.cone[k].col :
          t = <<m.cone[k].tag, m.col[m.cone[k].col[u]], m.cone[k].weight[u]>>
    BY <2>1
  <2>3. m.cone[k].col[u] \in kept
    BY DEF MembersStay
  <2>4. m.col[m.cone[k].col[u]] \in Range(nm.col)
    BY <1>2, <2>3 DEF ColsAt
  <2>5. t[2] = m.col[m.cone[k].col[u]]
    BY <2>2
  <2> QED
    BY <2>4, <2>5
<1>18. Members(nm, nm.cone) = Members(m, m.cone)
  BY <1>16, <1>17
<1>19. IndOf(nm) = IndOf(m) /\ \A t \in IndOf(m) : t[2] \in Range(nm.col)
  BY <1>2, <1>3, <1>13, IndicatorsStay
<1>20. Members(nm, nm.sos) =
         {t \in Members(m, m.sos) : t[2] \in Range(nm.col)}
  BY <1>16
<1> QED
  BY <1>3, <1>4, <1>5, <1>8, <1>11, <1>12, <1>14, <1>17, <1>18, <1>19, <1>20
     DEF ColsAreRemoved

LEMMA ColsRemoved == ASSUME ColsAreRemoved(m') PROVE Data!DeleteCols
BY DEF ColsAreRemoved, Data!DeleteCols

\* The rows that went took with them what referred to them, and nothing else.
RowsAreRemoved(nm) ==
    /\ Range(nm.row) \subseteq Range(m.row) /\ nm.col = m.col
    /\ EntriesOf(nm) = {t \in EntriesOf(m) : t[1] \in Range(nm.row)}
    /\ AlteredOf(nm) = AlteredOf(m) \ (Range(m.row) \ Range(nm.row))
    /\ IndOf(nm) = {t \in IndOf(m) : t[1] \in Range(nm.row)}
    /\ RowQuadOf(nm) = {t \in RowQuadOf(m) : t[1] \in Range(nm.row)}
    /\ Holders(nm, nm.integer) = Holders(m, m.integer)
    /\ Holders(nm, nm.semi) = Holders(m, m.semi)
    /\ Holders(nm, nm.quad) = Holders(m, m.quad)
    /\ PairsOf(nm) = PairsOf(m)
    /\ Members(nm, nm.sos) = Members(m, m.sos)
    /\ Members(nm, nm.cone) = Members(m, m.cone)

\* The rows that stay are where they are counted to, and no other stays.
RowsAt(nm, kept) ==
    /\ DOMAIN nm.row = 1 .. Cardinality(kept)
    /\ \A k \in DOMAIN nm.row :
         Nth(kept, k) \in kept /\ nm.row[k] = m.row[Nth(kept, k)]
    /\ \A p \in kept :
         /\ NewIndex(kept, p) \in DOMAIN nm.row
         /\ Nth(kept, NewIndex(kept, p)) = p
         /\ nm.row[NewIndex(kept, p)] = m.row[p]
    /\ \A p \in Rows : m.row[p] \in Range(nm.row) <=> p \in kept

\* The rows left are the kept ones, in their order.
LEMMA RowsAreAt ==
  ASSUME NEW next, Shape(m, next), NEW kept, Places(kept), kept \subseteq Rows,
         NEW nm, NEW S, ShorterBy(nm.row, m.row, kept, S)
  PROVE  RowsAt(nm, kept)
<1>1. DOMAIN m.row = Rows /\ IsInjective(m.row)
  BY SizesAreNat DEF Shape, TagsFit, Rows, NumRow
<1>2. /\ DOMAIN nm.row = 1 .. Cardinality(kept)
      /\ \A k \in DOMAIN nm.row : nm.row[k] = m.row[Nth(kept, k)]
  BY DEF ShorterBy
<1>3. \A k \in DOMAIN nm.row : Nth(kept, k) \in kept
  BY <1>2, Positions
<1>4. \A p \in kept : /\ NewIndex(kept, p) \in DOMAIN nm.row
                      /\ Nth(kept, NewIndex(kept, p)) = p
  BY <1>2, Positions
<1>5. \A p \in kept : nm.row[NewIndex(kept, p)] = m.row[p]
  BY <1>2, <1>4
<1>6. ASSUME NEW p \in Rows, m.row[p] \in Range(nm.row) PROVE p \in kept
  <2>1. PICK k \in DOMAIN nm.row : m.row[p] = nm.row[k]
    BY <1>6 DEF Range
  <2>2. m.row[p] = m.row[Nth(kept, k)] /\ Nth(kept, k) \in Rows
    BY <1>2, <1>3, <2>1
  <2>3. p = Nth(kept, k)
    BY <1>1, <2>2 DEF IsInjective
  <2> QED
    BY <1>3, <2>3
<1>7. ASSUME NEW p \in kept PROVE m.row[p] \in Range(nm.row)
  BY <1>4, <1>5 DEF Range
<1> QED
  BY <1>2, <1>3, <1>4, <1>5, <1>6, <1>7 DEF RowsAt

\* Their coefficients, numbers, indicators and quadratic terms are left.
LEMMA RowEntriesLeft ==
  ASSUME NEW nm, NEW kept, kept \subseteq Rows, RowsAt(nm, kept),
         DOMAIN m.col = Cols, nm.col = m.col, m.a \in [Cols -> SUBSET Rows],
         nm.a = [j \in Cols |-> {NewIndex(kept, i) : i \in m.a[j] \cap kept}]
  PROVE  EntriesOf(nm) = {t \in EntriesOf(m) : t[1] \in Range(nm.row)}
<1>1. \A j \in Cols :
        nm.a[j] = {NewIndex(kept, i) : i \in m.a[j] \cap kept}
  OBVIOUS
<1>2. \A p \in kept : nm.row[NewIndex(kept, p)] = m.row[p]
                      /\ m.row[p] \in Range(nm.row)
  BY DEF RowsAt
<1>3. ASSUME NEW t \in EntriesOf(nm)
      PROVE  t \in EntriesOf(m) /\ t[1] \in Range(nm.row)
  <2>1. \E j \in DOMAIN nm.col : \E i \in nm.a[j] :
          t = <<nm.row[i], nm.col[j]>>
    BY <1>3, EntryIn
  <2>2. PICK j \in Cols : \E i \in nm.a[j] : t = <<nm.row[i], m.col[j]>>
    BY <2>1
  <2>3. PICK i \in nm.a[j] : t = <<nm.row[i], m.col[j]>>
    BY <2>2
  <2>4. PICK p \in m.a[j] \cap kept : i = NewIndex(kept, p)
    BY <1>1, <2>3
  <2>5. t = <<m.row[p], m.col[j]>> /\ m.row[p] \in Range(nm.row)
    BY <1>2, <2>3, <2>4
  <2>6. t \in EntriesOf(m)
    BY <2>4, <2>5, EntryIn
  <2> QED
    BY <2>5, <2>6
<1>4. ASSUME NEW t \in EntriesOf(m), t[1] \in Range(nm.row)
      PROVE  t \in EntriesOf(nm)
  <2>1. PICK j \in Cols : \E p \in m.a[j] : t = <<m.row[p], m.col[j]>>
    BY <1>4, EntryIn
  <2>2. PICK p \in m.a[j] : t = <<m.row[p], m.col[j]>>
    BY <2>1
  <2>3. p \in kept
    BY <1>4, <2>2 DEF RowsAt
  <2>4. NewIndex(kept, p) \in nm.a[j]
    BY <1>1, <2>2, <2>3
  <2>5. t = <<nm.row[NewIndex(kept, p)], nm.col[j]>>
    BY <1>2, <2>2, <2>3
  <2> QED
    BY <2>4, <2>5, EntryIn
<1> QED
  BY <1>3, <1>4

LEMMA RowsAlteredLeft ==
  ASSUME NEW next \in Nat, Shape(m, next), NEW kept, kept \subseteq Rows,
         NEW nm, RowsAt(nm, kept),
         nm.col = m.col, nm.cost = m.cost, nm.sense = m.sense,
         NEW S, ShorterBy(nm.bound, m.bound, kept, S)
  PROVE  AlteredOf(nm) = AlteredOf(m) \ (Range(m.row) \ Range(nm.row))
<1>1. /\ Range(m.col) \cap Range(m.row) = {}
      /\ m.row \in [1 .. Len(m.row) -> 1 .. next - 1]
      /\ DOMAIN m.row = Rows
  BY SizesAreNat DEF Shape, TagsFit, Rows, NumRow
<1>2. 0 \notin Range(m.row)
  BY <1>1 DEF Range, Rows, NumRow
<1>3. Holders(m, m.cost) \cap Range(m.row) = {}
  <2>1. m.cost \in [1 .. Len(m.col) -> BOOLEAN]
          /\ DOMAIN m.col = 1 .. Len(m.col)
    BY SizesAreNat DEF Shape, ColsFit
  <2>2. ASSUME NEW x \in Holders(m, m.cost) PROVE x \in Range(m.col)
    <3>1. PICK j \in DOMAIN m.cost : x = m.col[j]
      BY <2>2, HolderIn
    <3> QED
      BY <2>1, <3>1 DEF Range
  <2> QED
    BY <1>1, <2>2
<1>4. Holders(nm, nm.cost) = Holders(m, m.cost)
  BY DEF Holders
<1>5. \A k \in DOMAIN nm.row :
        /\ Nth(kept, k) \in Rows /\ nm.row[k] = m.row[Nth(kept, k)]
        /\ nm.bound[k] = m.bound[Nth(kept, k)]
  BY DEF RowsAt, ShorterBy
<1>6. \A p \in kept :
        /\ NewIndex(kept, p) \in DOMAIN nm.row
        /\ nm.row[NewIndex(kept, p)] = m.row[p]
        /\ nm.bound[NewIndex(kept, p)] = m.bound[p]
  BY <1>5 DEF RowsAt
<1>7. ASSUME NEW x \in AlteredOf(nm)
      PROVE  x \in AlteredOf(m) /\ x \notin Range(m.row) \ Range(nm.row)
  <2>1. CASE x \in Holders(nm, nm.cost)
    BY <1>3, <1>4, <2>1, AlteredIn
  <2>2. CASE \E k \in DOMAIN nm.row : nm.bound[k] /\ x = nm.row[k]
    <3>1. PICK k \in DOMAIN nm.row : nm.bound[k] /\ x = nm.row[k]
      BY <2>2
    <3>2. x \in Range(nm.row)
      BY <3>1 DEF Range
    <3>3. /\ Nth(kept, k) \in DOMAIN m.row /\ m.bound[Nth(kept, k)]
          /\ x = m.row[Nth(kept, k)]
      BY <1>1, <1>5, <3>1
    <3> QED
      BY <3>2, <3>3, AlteredIn
  <2>3. CASE nm.sense /\ x = 0
    BY <1>2, <2>3, AlteredIn
  <2> QED
    BY <1>7, <2>1, <2>2, <2>3, AlteredIn
<1>8. ASSUME NEW x \in AlteredOf(m), x \notin Range(m.row) \ Range(nm.row)
      PROVE  x \in AlteredOf(nm)
  <2>1. CASE x \in Holders(m, m.cost)
    BY <1>4, <2>1, AlteredIn
  <2>2. CASE \E i \in DOMAIN m.row : m.bound[i] /\ x = m.row[i]
    <3>1. PICK i \in Rows : m.bound[i] /\ x = m.row[i]
      BY <1>1, <2>2
    <3>2. x \in Range(m.row)
      BY <1>1, <3>1 DEF Range
    <3>3. i \in kept
      BY <1>8, <3>1, <3>2 DEF RowsAt
    <3> QED
      BY <1>6, <3>1, <3>3, AlteredIn
  <2>3. CASE m.sense /\ x = 0
    BY <2>3, AlteredIn
  <2> QED
    BY <1>8, <2>1, <2>2, <2>3, AlteredIn
<1> QED
  BY <1>7, <1>8

LEMMA IndicatorsLeft ==
  ASSUME NEW kept, kept \subseteq Rows, NEW nm, RowsAt(nm, kept),
         DOMAIN m.row = Rows, nm.col = m.col,
         NEW S, CutBy(nm.ind, m.ind, kept, S)
  PROVE  IndOf(nm) = {t \in IndOf(m) : t[1] \in Range(nm.row)}
<1>1. CASE m.ind = NULL
  BY <1>1 DEF CutBy, IndOf
<1>2. CASE m.ind # NULL
  <2>1. /\ nm.ind # NULL
        /\ \A k \in DOMAIN nm.row :
             /\ Nth(kept, k) \in kept /\ nm.row[k] = m.row[Nth(kept, k)]
             /\ nm.ind[k] = m.ind[Nth(kept, k)]
    BY <1>2 DEF CutBy, ShorterBy, RowsAt
  <2>2. \A p \in kept :
          /\ NewIndex(kept, p) \in DOMAIN nm.row
          /\ nm.row[NewIndex(kept, p)] = m.row[p]
          /\ nm.ind[NewIndex(kept, p)] = m.ind[p]
          /\ m.row[p] \in Range(nm.row)
    BY <2>1 DEF RowsAt
  <2>3. ASSUME NEW t \in IndOf(nm)
        PROVE  t \in IndOf(m) /\ t[1] \in Range(nm.row)
    <3>1. PICK k \in DOMAIN nm.row :
            /\ nm.ind[k].col > 0
            /\ t = <<nm.row[k], nm.col[nm.ind[k].col], nm.ind[k].val>>
      BY <2>3, IndicatorIn
    <3> DEFINE p == Nth(kept, k)
    <3>2. /\ p \in DOMAIN m.row /\ m.ind[p].col > 0
          /\ t = <<m.row[p], m.col[m.ind[p].col], m.ind[p].val>>
      BY <2>1, <3>1
    <3>3. t \in IndOf(m)
      BY <1>2, <3>2, IndicatorIn
    <3>4. t[1] = nm.row[k]
      BY <3>1
    <3> QED
      BY <3>3, <3>4 DEF Range
  <2>4. ASSUME NEW t \in IndOf(m), t[1] \in Range(nm.row)
        PROVE  t \in IndOf(nm)
    <3>1. PICK p \in Rows :
            /\ m.ind[p].col > 0
            /\ t = <<m.row[p], m.col[m.ind[p].col], m.ind[p].val>>
      BY <2>4, IndicatorIn
    <3>2. p \in kept
      BY <2>4, <3>1 DEF RowsAt
    <3> DEFINE k == NewIndex(kept, p)
    <3>3. /\ k \in DOMAIN nm.row /\ nm.ind[k].col > 0
          /\ t = <<nm.row[k], nm.col[nm.ind[k].col], nm.ind[k].val>>
      BY <2>2, <3>1, <3>2
    <3> QED
      BY <2>1, <3>3, IndicatorIn
  <2> QED
    BY <2>3, <2>4
<1> QED
  BY <1>1, <1>2

LEMMA RowTermsLeft ==
  ASSUME NEW kept, kept \subseteq Rows, NEW nm, RowsAt(nm, kept),
         m.rq # NULL => DOMAIN m.rq = Rows, nm.col = m.col,
         NEW S, CutBy(nm.rq, m.rq, kept, S)
  PROVE  RowQuadOf(nm) = {t \in RowQuadOf(m) : t[1] \in Range(nm.row)}
<1>1. CASE m.rq = NULL
  BY <1>1 DEF CutBy, RowQuadOf
<1>2. CASE m.rq # NULL
  <2>1. /\ nm.rq # NULL /\ DOMAIN nm.rq = DOMAIN nm.row
        /\ \A k \in DOMAIN nm.row :
             /\ Nth(kept, k) \in kept /\ nm.row[k] = m.row[Nth(kept, k)]
             /\ nm.rq[k] = m.rq[Nth(kept, k)]
    BY <1>2 DEF CutBy, ShorterBy, RowsAt
  <2>2. \A p \in kept :
          /\ NewIndex(kept, p) \in DOMAIN nm.row
          /\ nm.row[NewIndex(kept, p)] = m.row[p]
          /\ nm.rq[NewIndex(kept, p)] = m.rq[p]
    BY <2>1 DEF RowsAt
  <2>3. ASSUME NEW t \in RowQuadOf(nm)
        PROVE  t \in RowQuadOf(m) /\ t[1] \in Range(nm.row)
    <3>1. PICK k \in DOMAIN nm.row : \E p \in nm.rq[k] :
            t = <<nm.row[k], nm.col[p[1]], nm.col[p[2]]>>
      BY <2>1, <2>3, TermIn
    <3> DEFINE i == Nth(kept, k)
    <3>2. i \in DOMAIN m.rq /\ \E p \in m.rq[i] :
            t = <<m.row[i], m.col[p[1]], m.col[p[2]]>>
      BY <1>2, <2>1, <3>1
    <3>3. t \in RowQuadOf(m)
      BY <1>2, <3>2, TermIn
    <3>4. t[1] = nm.row[k]
      BY <3>1
    <3> QED
      BY <3>3, <3>4 DEF Range
  <2>4. ASSUME NEW t \in RowQuadOf(m), t[1] \in Range(nm.row)
        PROVE  t \in RowQuadOf(nm)
    <3>1. PICK i \in Rows : \E p \in m.rq[i] :
            t = <<m.row[i], m.col[p[1]], m.col[p[2]]>>
      BY <1>2, <2>4, TermIn
    <3>2. t[1] = m.row[i]
      BY <3>1
    <3>3. i \in kept
      BY <2>4, <3>2 DEF RowsAt
    <3> DEFINE k == NewIndex(kept, i)
    <3>4. k \in DOMAIN nm.rq /\ \E p \in nm.rq[k] :
            t = <<nm.row[k], nm.col[p[1]], nm.col[p[2]]>>
      BY <2>1, <2>2, <3>1, <3>3
    <3> QED
      BY <2>1, <3>4, TermIn
  <2> QED
    BY <2>3, <2>4
<1> QED
  BY <1>1, <1>2

\* What jaos_delete_rows leaves, every relation as that action has it.
LEMMA RowsShorterRemoves ==
  ASSUME fresh \in Nat, Shape(m, fresh), NEW kept, Places(kept),
         kept \subseteq Rows, NEW nm, RowsShorter(nm, kept)
  PROVE  RowsAreRemoved(nm)
<1>1. DOMAIN m.col = Cols /\ DOMAIN m.row = Rows
  BY SizesAreNat DEF NumCol, Cols, NumRow, Rows
<1>2. RowsAt(nm, kept)
  BY RowsAreAt DEF RowsShorter
<1>3. /\ nm.col = m.col /\ nm.cost = m.cost /\ nm.sense = m.sense
      /\ nm.integer = m.integer /\ nm.semi = m.semi /\ nm.quad = m.quad
      /\ nm.q = m.q /\ nm.sos = m.sos /\ nm.cone = m.cone
      /\ nm.a = [j \in Cols |-> {NewIndex(kept, i) : i \in m.a[j] \cap kept}]
      /\ ShorterBy(nm.bound, m.bound, kept, BOOLEAN)
      /\ CutBy(nm.ind, m.ind, kept, Indicators(NumCol))
      /\ CutBy(nm.rq, m.rq, kept, SUBSET (Cols \X Cols))
  BY DEF RowsShorter
<1>4. Range(nm.row) \subseteq Range(m.row)
  BY <1>1, <1>2 DEF RowsAt, Range
<1>5. /\ m.a \in [Cols -> SUBSET Rows]
      /\ m.rq # NULL => DOMAIN m.rq = Rows
  BY DEF Shape, ColsFit, RowsFit, Optional, NumCol, Cols, NumRow, Rows
<1>6. EntriesOf(nm) = {t \in EntriesOf(m) : t[1] \in Range(nm.row)}
  BY <1>1, <1>2, <1>3, <1>5, RowEntriesLeft
<1>7. AlteredOf(nm) = AlteredOf(m) \ (Range(m.row) \ Range(nm.row))
  BY <1>2, <1>3, RowsAlteredLeft
<1>8. IndOf(nm) = {t \in IndOf(m) : t[1] \in Range(nm.row)}
  BY <1>1, <1>2, <1>3, IndicatorsLeft
<1>9. RowQuadOf(nm) = {t \in RowQuadOf(m) : t[1] \in Range(nm.row)}
  BY <1>2, <1>3, <1>5, RowTermsLeft
<1>10. /\ Holders(nm, nm.integer) = Holders(m, m.integer)
       /\ Holders(nm, nm.semi) = Holders(m, m.semi)
       /\ Holders(nm, nm.quad) = Holders(m, m.quad)
       /\ PairsOf(nm) = PairsOf(m)
       /\ Members(nm, nm.sos) = Members(m, m.sos)
       /\ Members(nm, nm.cone) = Members(m, m.cone)
  BY <1>3 DEF Holders, PairsOf, Members
<1> QED
  BY <1>3, <1>4, <1>6, <1>7, <1>8, <1>9, <1>10 DEF RowsAreRemoved

LEMMA RowsRemoved == ASSUME RowsAreRemoved(m') PROVE Data!DeleteRows
BY DEF RowsAreRemoved, Data!DeleteRows

-----------------------------------------------------------------------------
\* The refinement.

\* jaos_load_lp replaces the whole of it.
LEMMA LoadIsEdit ==
  ASSUME Whole, NEW col, NEW row, NEW a, m' = Bare(col, row, a)
  PROVE  Data!Load
<1>1. /\ m'.col = col /\ m'.row = row
      /\ m'.cost = Blank(Len(col)) /\ m'.bound = Blank(Len(row))
      /\ m'.sense = FALSE /\ m'.integer = NULL /\ m'.semi = NULL
      /\ m'.quad = NULL /\ m'.q = {} /\ m'.ind = NULL /\ m'.rq = NULL
      /\ m'.sos = <<>> /\ m'.cone = <<>>
  BY DEF Bare
<1>2. /\ Range(m'.col) \subseteq Nat /\ Range(m'.row) \subseteq Nat
      /\ EntriesOf(m') \subseteq Range(m'.row) \X Range(m'.col)
  BY ShapeRefers DEF Whole
<1>3. AlteredOf(m') = {}
  <2>1. Holders(m', m'.cost) = {}
    BY <1>1, BlankSaysNothing
  <2>2. \A i \in DOMAIN m'.row : ~m'.bound[i]
    <3>1. DOMAIN m'.row = 1 .. Len(row)
      BY <1>1, SizesAreNat DEF Whole
    <3> QED
      BY <1>1, <3>1 DEF Blank
  <2>3. ASSUME NEW x PROVE x \notin AlteredOf(m')
    BY <1>1, <2>1, <2>2, AlteredIn
  <2> QED
    BY <2>3
<1>4. /\ Holders(m', m'.integer) = {} /\ Holders(m', m'.semi) = {}
      /\ Holders(m', m'.quad) = {} /\ PairsOf(m') = {} /\ IndOf(m') = {}
      /\ RowQuadOf(m') = {}
  BY <1>1 DEF Holders, PairsOf, IndOf, RowQuadOf
<1>5. Members(m', m'.sos) = {} /\ Members(m', m'.cone) = {}
  <2>1. DOMAIN m'.sos = {} /\ DOMAIN m'.cone = {}
    BY <1>1
  <2> QED
    BY <2>1, MemberIn
<1> QED
  BY <1>2, <1>3, <1>4, <1>5 DEF Data!Load

\* Every call that resizes the model is one action of the relational model.
LEMMA EditIsEdit == Whole /\ ~IndicatorsFail /\ Edit => IsEdit
<1> SUFFICES ASSUME Whole, ~IndicatorsFail, Edit PROVE IsEdit
  OBVIOUS
<1>1. /\ fresh \in Nat \ {0} /\ fresh \in Nat /\ Shape(m, fresh)
      /\ IndicatorsFail = FALSE
      /\ NumCol \in Nat /\ NumRow \in Nat
  BY SizesAreNat, ModelStoreAssumption DEF Whole, NumCol, NumRow
<1>2. CASE m' = m
  BY <1>2, SameIsNoEdit
<1>3. ASSUME NEW new \in NewCols, AddCols(new) PROVE IsEdit
  <2>1. CASE /\ m' = ColsGrown(new)
             /\ \A k \in DOMAIN new : new[k].rows \subseteq Rows
    <3>1. Len(new) \in Nat /\ ColsLonger(m', new)
      BY <1>1, <2>1, ColsGrownIs
    <3>2. ColsAreAdded(m')
      BY <1>1, <3>1, ColsLongerAdds
    <3> QED
      BY <3>2, ColsAdded DEF IsEdit, Data!Next
  <2> QED
    BY <1>2, <1>3, <2>1
       DEF AddCols, ColsCannotGrow, Invalid, OutOfMemory, Refuse
<1>4. ASSUME NEW new \in NewRows, AddRows(new) PROVE IsEdit
  <2>1. CASE m' = RowsGrown(new)
    <3>1. Len(new) \in Nat /\ RowsLonger(m', new)
      BY <1>1, <2>1, RowsGrownIs
    <3>2. RowsAreAdded(m')
      BY <1>1, <3>1, RowsLongerAdds
    <3> QED
      BY <3>2, RowsAdded DEF IsEdit, Data!Next
  <2> QED
    BY <1>1, <1>2, <1>4, <2>1 DEF AddRows, Invalid, OutOfMemory, Refuse
<1>5. ASSUME NEW gone \in SUBSET Cols, DeleteCols(gone) PROVE IsEdit
  <2> DEFINE kept == KeptOf(NumCol, gone)
  <2>1. CASE /\ \A j \in gone : ~Drives(j) /\ ~InCone(j)
             /\ m' = ColsWithout(kept)
    <3>1. kept = Cols \ gone /\ kept \subseteq Cols
      BY DEF KeptOf, Cols
    <3>2. DriversStay(kept) /\ MembersStay(kept)
      BY <1>1, <2>1, <3>1, NeededStay
    <3> HIDE DEF kept
    <3>3. Places(kept) /\ ColsShorter(m', kept)
      BY <1>1, <2>1, <3>1, ColsWithoutIs
    <3>4. Shape(m', fresh)
      BY <1>1, <3>1, <3>2, <3>3, ColsShorterShape
    <3>5. ColsAreRemoved(m')
      BY <1>1, <3>1, <3>2, <3>3, <3>4, ColsShorterRemoves
    <3> QED
      BY <3>5, ColsRemoved DEF IsEdit, Data!Next
  <2> HIDE DEF kept
  <2> QED
    BY <1>2, <1>5, <2>1 DEF DeleteCols, Invalid, OutOfMemory, Refuse, kept
<1>6. ASSUME NEW gone \in SUBSET Rows, DeleteRows(gone) PROVE IsEdit
  <2> DEFINE kept == KeptOf(NumRow, gone)
  <2>1. CASE m' = RowsWithout(kept)
    <3>1. kept \subseteq Rows
      BY DEF KeptOf, Rows
    <3> HIDE DEF kept
    <3>2. Places(kept) /\ RowsShorter(m', kept)
      BY <1>1, <2>1, <3>1, RowsWithoutIs
    <3>3. RowsAreRemoved(m')
      BY <1>1, <3>1, <3>2, RowsShorterRemoves
    <3> QED
      BY <3>3, RowsRemoved DEF IsEdit, Data!Next
  <2> HIDE DEF kept
  <2> QED
    BY <1>2, <1>6, <2>1 DEF DeleteRows, OutOfMemory, Refuse, kept
<1>7. ASSUME NEW a, NEW nrow, Load(a, nrow) PROVE IsEdit
  <2>1. CASE \E col, row : m' = Bare(col, row, a)
    BY <2>1, LoadIsEdit DEF IsEdit, Data!Next
  <2> QED
    BY <1>2, <1>7, <2>1 DEF Load, Invalid, OutOfMemory, Refuse
<1> QED
  BY <1>3, <1>4, <1>5, <1>6, <1>7 DEF Edit

\* What hangs on the model is no part of it.
LEMMA AttachIsNoEdit == Whole /\ Attach => IsEdit
<1> SUFFICES ASSUME Whole, Attach PROVE IsEdit
  OBVIOUS
<1>1. DOMAIN m = Fields
  BY DEF Whole, Shape
<1>2. CASE m' = m
  BY <1>2, SameIsNoEdit
<1>3. ASSUME NEW side, NEW names, m' = [m EXCEPT !.name[side] = names]
      PROVE  IsEdit
  BY <1>1, <1>3, NamesSayNothing, SameIsNoEdit DEF D
<1>4. ASSUME NEW side, NEW k, NEW name, SetName(side, k, name) PROVE IsEdit
  BY <1>2, <1>3, <1>4 DEF SetName, Nothing, OutOfMemory, Refuse
<1> QED
  BY <1>2, <1>4
     DEF Attach, SetBasis, ClearBasis, SetMipStart, SetOptions, FindByName,
         EnsureRowwise, Copy, Solve, Nothing, Invalid, OutOfMemory, Refuse

\* The arrays are those of one relational model, edited as docs/api.md says:
\* whatever their lengths, however many columns a deletion takes and wherever
\* they are.  Not so where add_rows goes on without the indicators that it
\* had no memory for.
THEOREM ArraysAreOneModel ==
  ASSUME ~IndicatorsFail PROVE Spec => IsModelData
<1>1. Sound /\ DriversAreInteger(m) /\ Sound' /\ DriversAreInteger(m)'
        /\ [Next]_vars => [Data!Next]_(Data!data)
  <2> SUFFICES ASSUME Sound, DriversAreInteger(m), Sound',
                      DriversAreInteger(m)', [Next]_vars
               PROVE  IsEdit
    BY DEF IsEdit
  <2>1. Whole
    BY DEF Whole, Sound
  <2>2. CASE UNCHANGED vars
    BY <2>2, SameIsNoEdit DEF vars
  <2> QED
    BY <2>1, <2>2, AttributesAreEdits, StructureIsEdit, EditIsEdit,
       AttachIsNoEdit DEF Next, Call
<1> QED
  BY <1>1, AlwaysSound, AlwaysDriven, PTL DEF Spec, IsModelData

-----------------------------------------------------------------------------
\* The model by identity, whatever the arrays.

\* ModelData over the relations that the arrays are.  One edit keeps the
\* references whole: what it removes takes its referrers with it, or may not
\* go, and what it adds refers to what is there.
LEMMA RelationsKeepIntegrity ==
  Data!Integrity /\ [Data!Next]_(Data!data) => Data!Integrity'
<1> SUFFICES ASSUME Data!Integrity, [Data!Next]_(Data!data) PROVE Data!Integrity'
  OBVIOUS
<1> DEFINE cols == Range(m.col)
           rows == Range(m.row)
           entries == EntriesOf(m)
           integer == Holders(m, m.integer)
           semi == Holders(m, m.semi)
           quad == Holders(m, m.quad)
           pairs == PairsOf(m)
           ind == IndOf(m)
           sos == Members(m, m.sos)
           cone == Members(m, m.cone)
           rowquad == RowQuadOf(m)
<1> USE DEF Data!Integrity, Data!marks, Data!discrete, Data!conic
<1>1. CASE Data!Load
  BY <1>1 DEF Data!Load
<1>2. CASE Data!AddCols
  BY <1>2 DEF Data!AddCols
<1>3. CASE Data!AddRows
  BY <1>3 DEF Data!AddRows
<1>4. CASE Data!DeleteCols
  <2>1. cols' \subseteq Nat /\ rows' \subseteq Nat
    BY <1>4 DEF Data!DeleteCols
  <2>2. entries' \subseteq rows' \X cols' /\ pairs' \subseteq cols' \X cols'
    BY <1>4 DEF Data!DeleteCols
  <2>3. integer' \subseteq cols' /\ semi' \subseteq cols'
          /\ quad' \subseteq cols'
    BY <1>4 DEF Data!DeleteCols
  <2>4. ind' \subseteq rows' \X integer' \X {0, 1}
          /\ \A t, u \in ind' : t[1] = u[1] => t = u
    BY <1>4 DEF Data!DeleteCols
  <2>5. sos' \subseteq Nat \X cols' \X Nat
    BY <1>4 DEF Data!DeleteCols
  <2>6. cone' \subseteq Nat \X cols' \X Nat
    BY <1>4 DEF Data!DeleteCols
  <2>7. rowquad' \subseteq rows' \X cols' \X cols'
    BY <1>4 DEF Data!DeleteCols
  <2> QED
    BY <2>1, <2>2, <2>3, <2>4, <2>5, <2>6, <2>7
<1>5. CASE Data!DeleteRows
  BY <1>5 DEF Data!DeleteRows
<1>6. CASE Data!SetNumbers
  BY <1>6 DEF Data!SetNumbers
<1>7. CASE Data!SetEntry
  BY <1>7 DEF Data!SetEntry
<1>8. CASE Data!MarkInteger
  <2>1. ind' \subseteq rows' \X integer' \X {0, 1}
    BY <1>8 DEF Data!MarkInteger
  <2> QED
    BY <1>8, <2>1 DEF Data!MarkInteger
<1>9. CASE Data!MarkSemi
  BY <1>9 DEF Data!MarkSemi
<1>10. CASE Data!SetQuadratic
  BY <1>10 DEF Data!SetQuadratic
<1>11. CASE Data!AddSos
  BY <1>11 DEF Data!AddSos
<1>12. CASE Data!SetIndicator
  BY <1>12 DEF Data!SetIndicator
<1>13. CASE Data!AddCone
  BY <1>13 DEF Data!AddCone
<1>14. CASE Data!DeleteCones
  BY <1>14 DEF Data!DeleteCones
<1>15. CASE Data!SetRowQuadratic
  BY <1>15 DEF Data!SetRowQuadratic
<1>16. CASE UNCHANGED Data!data
  BY <1>16 DEF Data!data
<1> QED
  BY <1>1, <1>2, <1>3, <1>4, <1>5, <1>6, <1>7, <1>8, <1>9, <1>10, <1>11,
     <1>12, <1>13, <1>14, <1>15, <1>16 DEF Data!Next

\* Whatever edits are made, of any model and in any order, an entry, a mark,
\* a quadratic term, an SOS set, an indicator and a cone refer to columns and
\* rows that are there, an indicator's column is integer and a row has one
\* indicator at most.
THEOREM ReferencesStayWhole == Data!Spec => []Data!Integrity
<1>1. Data!Init => Data!Integrity
  BY DEF Data!Init, Data!Integrity
<1> QED
  BY <1>1, RelationsKeepIntegrity, PTL DEF Data!Spec

=============================================================================
