-------------------------------- MODULE Files ---------------------------------
(***************************************************************************)
(* Writing a model to a file and reading it back, whatever the format:     *)
(* the writers of src/src/write.c with wr_open and wr_close, which every   *)
(* one of them goes through, and the readers of the same formats.          *)
(*                                                                         *)
(* One call of a writer meets a disk that is empty or holds what an        *)
(* earlier call wrote under the same name.  A write can fail before the    *)
(* file is open, while the body is written, while it is closed or packed,  *)
(* and, for .nl, at each of the two files of names.  A call that answered  *)
(* JAOS_OK is followed by a read of the file.                              *)
(***************************************************************************)
EXTENDS MpsFile, LpFile, NlFile, QplibFile, OsilFile, CbfFile

CONSTANTS
    Models,     \* the models that are written
    Older,      \* the model an earlier call wrote, where there was one
    Foreign     \* CBF files that other programs wrote

VARIABLES
    model,      \* the model of the call
    fmt,        \* its format
    gz,         \* the path ends in .gz
    pc,         \* where the call is
    status,     \* w->st
    disk,       \* main, col, row: what is under each name
    before,     \* the disk before the call
    got         \* what the reader gave

fileVars == <<model, fmt, gz, pc, status, disk, before, got>>

Formats == {"mps", "lp", "nl", "qplib", "osil", "cbf"}

None == [is |-> "absent"]
Half == [is |-> "half"]
Whole(data) == [is |-> "whole", data |-> data]

Empty == [main |-> None, col |-> None, row |-> None]

Refuses(f, m) ==
    CASE f = "mps" -> MpsRefuses(m)
      [] f = "lp" -> LpRefuses(m)
      [] f = "nl" -> NlRefuses(m)
      [] f = "qplib" -> QplibRefuses(m)
      [] f = "osil" -> OsilRefuses(m)
      [] OTHER -> CbfRefuses(m)

\* The body of the file under the path itself.
Written(f, m) ==
    CASE f = "mps" -> MpsWrite(m)
      [] f = "lp" -> LpWrite(m)
      [] f = "nl" -> NlBody(m)
      [] f = "qplib" -> QplibWrite(m)
      [] f = "osil" -> OsilWrite(m)
      [] OTHER -> CbfWrite(m)

\* A side file that is absent or half written gives no names.
SideNames(side) == IF side.is = "whole" THEN side.data ELSE << >>

ReadBack(f, d) ==
    CASE f = "mps" -> MpsRead(d.main.data)
      [] f = "lp" -> LpRead(d.main.data)
      [] f = "nl" -> NlRead([nl |-> d.main.data, col |-> SideNames(d.col),
                             row |-> SideNames(d.row)])
      [] f = "qplib" -> QplibReadFile(d.main.data)
      [] f = "osil" -> OsilRead(d.main.data)
      [] OTHER -> CbfRead(d.main.data)

OlderFiles(f) ==
    IF f = "nl" THEN [main |-> Whole(NlBody(Older)),
                      col |-> Whole(NlColFile(Older)),
                      row |-> Whole(NlRowFile(Older))]
    ELSE [Empty EXCEPT !.main = Whole(Written(f, Older))]

Init ==
    /\ model \in Models
    /\ fmt \in Formats
    /\ gz \in BOOLEAN
    /\ disk \in {Empty, OlderFiles(fmt)}
    /\ before = disk
    /\ pc = "call" /\ status = "ok"
    /\ got = Refused

\* The writer finds a shape its format does not carry, or has no memory for
\* what it writes from: nothing is opened.
Refuse ==
    /\ pc = "call"
    /\ status' \in {"oom"} \cup (IF Refuses(fmt, model) THEN {"invalid"}
                                 ELSE {})
    /\ pc' = "done"
    /\ UNCHANGED <<model, fmt, gz, disk, before, got>>

\* wr_open: a plain file is cut to nothing; a packed one is built in memory.
Open ==
    /\ pc = "call" /\ ~Refuses(fmt, model)
    /\ pc' = "body"
    /\ disk' = IF gz THEN disk ELSE [disk EXCEPT !.main = Half]
    /\ UNCHANGED <<model, fmt, gz, status, before, got>>

OpenFails ==
    /\ pc = "call" /\ ~Refuses(fmt, model)
    /\ pc' = "done" /\ status' = "io"
    /\ UNCHANGED <<model, fmt, gz, disk, before, got>>

\* The body.  MPS finds only here that a semi-continuous column has no upper
\* bound; LP can run out of memory naming the sides of its ranged rows; any
\* write can fail.
Body ==
    /\ pc = "body"
    /\ pc' = "close"
    /\ IF fmt = "mps" /\ MpsFailsInBounds(model)
       THEN status' = "invalid"
       ELSE status' \in {"ok", "io"} \cup (IF fmt = "lp" THEN {"oom"} ELSE {})
    /\ UNCHANGED <<model, fmt, gz, disk, before, got>>

\* Fault: a file that failed is left as it is.
CloseFails_Leaves ==
    /\ pc = "close"
    /\ pc' = "done"
    /\ status' \in IF status # "ok" THEN {status}
                  ELSE IF gz THEN {"io", "oom"} ELSE {"io"}
    /\ UNCHANGED <<model, fmt, gz, disk, before, got>>

\* wr_close on a failure, an earlier one or one of its own (the close, the
\* packing, the second open): the file goes.
CloseFails ==
    /\ pc = "close"
    /\ pc' = "done"
    /\ status' \in IF status # "ok" THEN {status}
                  ELSE IF gz THEN {"io", "oom"} ELSE {"io"}
    /\ disk' = [disk EXCEPT !.main = None]
    /\ UNCHANGED <<model, fmt, gz, before, got>>

Close ==
    /\ pc = "close" /\ status = "ok"
    /\ disk' = [disk EXCEPT !.main = Whole(Written(fmt, model))]
    /\ pc' = IF fmt = "nl" THEN "col" ELSE "done"
    /\ UNCHANGED <<model, fmt, gz, status, before, got>>

\* nl_names_file for the columns, then for the rows and the objective.
NlColumnNames ==
    /\ pc = "col"
    /\ disk' = [disk EXCEPT !.col = Whole(NlColFile(model))]
    /\ pc' = "row"
    /\ UNCHANGED <<model, fmt, gz, status, before, got>>

NlRowNames ==
    /\ pc = "row"
    /\ disk' = [disk EXCEPT !.row = Whole(NlRowFile(model))]
    /\ pc' = "done"
    /\ UNCHANGED <<model, fmt, gz, status, before, got>>

\* The names fail where their base, a path or a file cannot be had, or while a
\* file is written, which then goes.  jaos_write_nl removes the .nl file, and
\* the columns' names if it has the memory to name them.
NlNamesFail ==
    /\ pc \in {"col", "row"}
    /\ \E at \in {"base", "path", "open", "write"}, cleans \in BOOLEAN :
         /\ at = "base" => pc = "col" /\ ~cleans
         /\ status' = IF at \in {"base", "path"} THEN "oom" ELSE "io"
         /\ disk' = [main |-> None,
                     col |-> IF cleans \/ (at = "write" /\ pc = "col")
                             THEN None ELSE disk.col,
                     row |-> IF at = "write" /\ pc = "row"
                             THEN None ELSE disk.row]
    /\ pc' = "done"
    /\ UNCHANGED <<model, fmt, gz, before, got>>

\* The file a call that answered JAOS_OK wrote is read.
ReadIt ==
    /\ pc = "done" /\ status = "ok"
    /\ pc' = "read"
    /\ got' = ReadBack(fmt, disk)
    /\ UNCHANGED <<model, fmt, gz, status, disk, before>>

\* A CBF file another program wrote is read.
ReadForeign ==
    /\ pc = "call" /\ fmt = "cbf" /\ ~gz
    /\ pc' = "foreign"
    /\ \E f \in Foreign :
         /\ disk' = [disk EXCEPT !.main = Whole(f)]
         /\ got' = ReadBack(fmt, disk')
    /\ UNCHANGED <<model, fmt, gz, status, before>>

Next ==
    \/ Refuse \/ Open \/ OpenFails \/ Body \/ CloseFails \/ Close
    \/ NlColumnNames \/ NlRowNames \/ NlNamesFail \/ ReadIt
    \/ ReadForeign

Spec == Init /\ [][Next]_fileVars

------------------------------------------------------------------------------
(* What the files promise.                                                   *)

CONSTANT Points   \* for each number of columns, the points CBF is compared at

Expects(f, m) ==
    CASE f = "mps" -> MpsExpects(m)
      [] f = "lp" -> LpExpects(m)
      [] f = "nl" -> NlExpects(m)
      [] f = "qplib" -> QplibExpects(m)
      [] OTHER -> OsilExpects(m)

\* What JAOS writes, JAOS reads back as the same model
\* (docs/format-support.md): whatever was under the names before, a writer
\* that answered JAOS_OK has left files that the reader takes and that give
\* the model back, bounds, integers, curvature, sets, cones, indicators and
\* names, under the names and in the column order the format can say.
SameModel ==
    pc = "read" /\ fmt # "cbf" =>
        /\ ~got.bad
        /\ got.model = Expects(fmt, model)

\* CBF gives back a model with the same columns, costs and feasible points,
\* cones included, though not the same rows.  A file of another program, with
\* cones over affine expressions, reads as a model with the points the file
\* says: a block that only picks columns becomes a cone over them, any other
\* one gets columns of its own that equality rows fix.
SamePoints ==
    LET f == disk.main.data
    IN  /\ pc = "read" /\ fmt = "cbf" =>
             /\ ~got.bad
             /\ CbfEquivalent(model, got.model, f,
                              Points[NumCol(model)])
        /\ pc = "foreign" =>
             /\ ~got.bad
             /\ \A x \in Points[f.nvar] :
                  Admits(got.model, CbfLift(f, x)) <=> CbfSays(f, x)

\* A writer that failed leaves no file that is not whole: under the path there
\* is what was there before the call or nothing, and never a .nl file beside
\* names of another model.
NoHalfFile ==
    pc = "done" /\ status # "ok" =>
        /\ disk.main \in {before.main, None}
        /\ disk.main # None => disk = before
=============================================================================
