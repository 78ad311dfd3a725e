----------------------------- MODULE FilesProofs -----------------------------
(***************************************************************************)
(* What a writer leaves on the disk when it fails, whatever the model, the *)
(* format and the file that was there before.                              *)
(***************************************************************************)
EXTENDS Files, TLAPS

\* Until the path is opened the disk is as it was, and the files of names are
\* written only by a call that has not failed yet.  The disk holds nothing
\* under another name.
DiskByPhase ==
    /\ DOMAIN disk = {"main", "col", "row"}
    /\ pc = "call" => disk = before
    /\ pc \in {"col", "row"} => status = "ok"

LEMMA DiskInit == Init => DiskByPhase
BY DEF Init, DiskByPhase, Empty, OlderFiles

LEMMA PhaseStep ==
  ASSUME DiskByPhase, [Next]_fileVars PROVE DiskByPhase'
<1> USE DEF DiskByPhase
<1>1. CASE Refuse
  BY <1>1 DEF Refuse
<1>2. CASE Open
  BY <1>2 DEF Open
<1>3. CASE OpenFails
  BY <1>3 DEF OpenFails
<1>4. CASE Body
  BY <1>4 DEF Body
<1>5. CASE CloseFails
  BY <1>5 DEF CloseFails
<1>6. CASE Close
  BY <1>6 DEF Close
<1>7. CASE NlColumnNames
  BY <1>7 DEF NlColumnNames
<1>8. CASE NlRowNames
  BY <1>8 DEF NlRowNames
<1>9. CASE NlNamesFail
  BY <1>9 DEF NlNamesFail
<1>10. CASE ReadIt
  BY <1>10 DEF ReadIt
<1>11. CASE ReadForeign
  BY <1>11 DEF ReadForeign
<1>12. CASE UNCHANGED fileVars
  BY <1>12 DEF fileVars
<1> QED
  BY <1>1, <1>2, <1>3, <1>4, <1>5, <1>6, <1>7, <1>8, <1>9, <1>10, <1>11,
     <1>12 DEF Next

\* A failure that ends the call leaves the path as it was, with what stands
\* beside it, or takes it away.
LEMMA FailureStep ==
  ASSUME DiskByPhase, NoHalfFile, [Next]_fileVars PROVE NoHalfFile'
<1> USE DEF DiskByPhase, NoHalfFile
<1>1. CASE Refuse
  BY <1>1 DEF Refuse
<1>2. CASE Open
  BY <1>2 DEF Open
<1>3. CASE OpenFails
  BY <1>3 DEF OpenFails
<1>4. CASE Body
  BY <1>4 DEF Body
<1>5. CASE CloseFails
  BY <1>5 DEF CloseFails
<1>6. CASE Close
  BY <1>6 DEF Close
<1>7. CASE NlColumnNames
  BY <1>7 DEF NlColumnNames
<1>8. CASE NlRowNames
  BY <1>8 DEF NlRowNames
<1>9. CASE NlNamesFail
  BY <1>9 DEF NlNamesFail
<1>10. CASE ReadIt
  BY <1>10 DEF ReadIt
<1>11. CASE ReadForeign
  BY <1>11 DEF ReadForeign
<1>12. CASE UNCHANGED fileVars
  BY <1>12 DEF fileVars
<1> QED
  BY <1>1, <1>2, <1>3, <1>4, <1>5, <1>6, <1>7, <1>8, <1>9, <1>10, <1>11,
     <1>12 DEF Next

\* A writer that failed, in any format, packed or not and wherever it failed,
\* leaves under the path what was there before the call or nothing, and never
\* a .nl file beside names of another model.
THEOREM NoWriterLeavesHalf == Spec => []NoHalfFile
<1>1. Init => NoHalfFile
  BY DEF Init, NoHalfFile
<1> QED
  BY <1>1, DiskInit, PhaseStep, FailureStep, PTL DEF Spec

=============================================================================
