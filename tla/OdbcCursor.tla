----------------------------- MODULE OdbcCursor -----------------------------
(* The cursor of one ODBC statement (src/vxodbc/statement.cc, results.cc,    *)
(* bind.cc, options.cc, execute.cc): what executing, fetching, positioning,  *)
(* binding, reading in pieces and changing the options in between do to the  *)
(* statement, its result, its row descriptor and its SQLGetData state.       *)
(*                                                                           *)
(* One API call is one action: every entry point holds the statement's mutex *)
(* from its first line to its last (ENTER_STMT_CS).  The handlers are        *)
(* functions from the statement's record to [s, ret, ...]; an action applies *)
(* one of them and leaves what the application sees in `out'.                *)
(*                                                                           *)
(* A result is the whole answer of the server: VxResultSet appends every row *)
(* before the call returns (module ChunkRecordset).  A cell is one of        *)
(*   "short"  fits the application's buffer,                                 *)
(*   "long"   is truncated in a bound buffer, read in two pieces by GetData, *)
(*   "bad"    cannot be converted to the type asked for.                     *)
EXTENDS Integers, Sequences, FiniteSets

CONSTANTS Results,       \* the answers a query may get: [cols, rows]
          MaxCol,        \* columns of a result, at most
          BindCols,      \* the columns the application binds
          RowsetSizes,   \* values of SQL_ATTR_ROW_ARRAY_SIZE, SQL_ROWSET_SIZE
          MaxRowsValues, \* values of SQL_ATTR_MAX_ROWS (0: no limit)
          Offsets,       \* offsets of SQLFetchScroll
          Directions,    \* fetch directions the application uses
          StatementTypes,\* what is prepared: "SELECT", "OTHER"
          Bookmark,      \* what SQL_ATTR_FETCH_BOOKMARK_PTR points to
          RetrieveValues \* values of SQL_RETRIEVE_DATA

Min2(a, b) == IF a <= b THEN a ELSE b
Pick(test, a, b) == IF test THEN a ELSE b

ASSUME ResultsAssumption ==
  \A r \in Results : /\ r = [cols |-> r.cols, rows |-> r.rows]
                     /\ r.cols \in 0..MaxCol
                     /\ r.rows \in Seq([1..r.cols -> {"short", "long", "bad"}])
ASSUME SizesAssumption ==
  /\ MaxCol \in Nat /\ BindCols \subseteq 1..MaxCol
  /\ RowsetSizes \subseteq Nat \ {0}
  /\ MaxRowsValues \subseteq Nat
  /\ Offsets \subseteq Int
  /\ Directions \subseteq {"NEXT", "PRIOR", "FIRST", "LAST", "ABSOLUTE", "RELATIVE", "BOOKMARK"}
  /\ StatementTypes \subseteq {"SELECT", "OTHER"}
  /\ Bookmark \in Int
  /\ RetrieveValues \subseteq BOOLEAN

VARIABLES s,     \* StatementClass, its result, its ARD and its GetDataInfo
          api,   \* "odbc3": SQLFetch, SQLFetchScroll; "odbc2": SQLExtendedFetch
          out,   \* what the last call told the application
          seen   \* what SQLGetData has met since the cursor moved: the column
                 \* it reads, and whether the move loaded the row
vars == <<s, api, out, seen>>

-----------------------------------------------------------------------------
(* The result (QResultClass) and the two ways of counting rows.              *)

NoResult == [cols |-> -1, rows |-> <<>>, base |-> -1, valid |-> FALSE]

\* QR_Constructor and the rows QR_AddNew appended
NewResult(r) == [cols |-> r.cols, rows |-> r.rows, base |-> -1, valid |-> FALSE]

HasResult(t) == t.res # NoResult

\* QR_get_num_total_tuples: without a row reached_eof is never set, and
\* num_total_read is 0 as well
Total(t) == Len(t.res.rows)

\* a row number of the result as an index of the cached rows
GIdx2CacheIdx(t, g) == g - Pick(t.res.valid, t.start - t.res.base, 0)
RowIdx2GIdx(t, i) == i + t.start

\* a bug: the base is not moved along
SetRowsetStartOnly(t, start, validBase) ==
  [t EXCEPT !.start = start,
            !.res = Pick(HasResult(t), [@ EXCEPT !.valid = validBase], @)]

\* SC_set_rowset_start: the cache's base follows the rowset by increments
SetRowsetStart(t, start, validBase) ==
  LET r == t.res
      base == Pick(r.valid, Pick(validBase, r.base + (start - t.start), r.base),
                Pick(validBase, Pick(start < 0, -1, 0), r.base))
  IN  [t EXCEPT !.start = start,
                !.res = Pick(HasResult(t),
                             [r EXCEPT !.base = base, !.valid = validBase], r)]

IncRowsetStart(t, n) == SetRowsetStart(t, t.start + n, TRUE)

-----------------------------------------------------------------------------
(* Row descriptor (bind.cc) and the SQLGetData state of every column:        *)
(* left[c] is data_left: -1 fresh, 1 some data left, 0 all read, -2 the      *)
(* end was reported.                                                         *)

FreshCols == [c \in 1..MaxCol |-> -1]

NewARD == [allocated |-> 0, bound |-> {}, size |-> 1, size2 |-> 1]
NewGData == [allocated |-> 0, left |-> FreshCols]

\* a bug: no room is made
ExtendColumnBindingsNever(a, n) == a

\* extend_column_bindings
ExtendColumnBindings(a, n) == IF a.allocated < n THEN [a EXCEPT !.allocated = n] ELSE a

\* reset_a_getdata_info: only a column the array has
ResetAGetDataInfo(g, c) ==
  IF c \in 1..g.allocated THEN [g EXCEPT !.left[c] = -1] ELSE g

\* extend_getdata_info: new columns are fresh, dropped ones are reset
ExtendGetDataInfo(g, n, shrink) ==
  IF g.allocated < n \/ (shrink /\ g.allocated > n)
  THEN [allocated |-> n,
        left |-> [c \in 1..MaxCol |-> Pick(c <= Min2(n, g.allocated), g.left[c], -1)]]
  ELSE g

ArdUnbindCols(a) == [a EXCEPT !.bound = {}]
GDataUnbindCols(g) == [g EXCEPT !.left = FreshCols]

\* SC_set_current_col: another column than the last one is read from its start
SetCurrentCol(t, c) ==
  IF c = t.col THEN t
  ELSE [t EXCEPT !.col = c,
                 !.gd = IF c >= 0 THEN ResetAGetDataInfo(t.gd, c + 1) ELSE t.gd]

-----------------------------------------------------------------------------
(* The statement (statement.cc).                                             *)

DefaultOptions == [cursor |-> "FORWARD_ONLY", maxRows |-> 0, retrieve |-> TRUE]

NewStatement ==
  [status |-> "ALLOCATED", text |-> FALSE, type |-> "UNKNOWN",
   res |-> NoResult, curr |-> -1, start |-> -1, save |-> -1, lfc |-> 0,
   col |-> -1, bindRow |-> 0, err |-> "NONE",
   opt |-> DefaultOptions, orig |-> DefaultOptions,
   ard |-> NewARD, gd |-> NewGData]

\* SC_set_error; the numbers told apart are those a later line asks for
SetError(t, e) == [t EXCEPT !.err = e]
ClearError(t) == SetError(t, "NONE")

\* SC_opencheck: a result with rows is an open cursor
OpenCheck(t) == HasResult(t) /\ t.res.rows # <<>>

InitializeStmts(t) == [t EXCEPT !.text = FALSE, !.type = "UNKNOWN"]

\* SC_recycle_statement: the result goes, the settings made while it was open
\* come into force; save and the bindings stay
Recycle(t) ==
  IF t.status = "ALLOCATED" THEN ClearError(t)
  ELSE LET u == SetCurrentCol(
                  SetRowsetStart([t EXCEPT !.res = NoResult, !.status = "READY",
                                           !.curr = -1], -1, FALSE), -1)
       IN  [u EXCEPT !.bindRow = 0, !.lfc = 0, !.err = "NONE",
                     !.opt.cursor = t.orig.cursor, !.opt.maxRows = t.orig.maxRows]

\* VxStatement: set_result, then the destructor
Answered(t, r) ==
  LET u == [t EXCEPT !.res = NewResult(r), !.status = "FINISHED", !.curr = -1,
                     !.ard = ExtendColumnBindings(t.ard, r.cols)]
  IN  SetCurrentCol(SetRowsetStart(u, -1, FALSE), -1)

Done(t, code) == [s |-> t, ret |-> code]
Fail(t, e) == Done(SetError(t, e), "ERROR")

\* SQLExecDirect: PGAPI_ExecDirect_Vx when no cursor is open
ExecDirect(t0, r) ==
  LET t == ClearError(t0)
  IN  IF OpenCheck(t) THEN Fail(t, "OTHER")
      ELSE Done([Answered(Recycle(InitializeStmts(t)), r)
                   EXCEPT !.text = TRUE, !.type = "SELECT"], "SUCCESS")

\* SQLExecute: PGAPI_Execute_Vx runs stmt->statement and recycles nothing
Execute(t0, r) ==
  LET t == ClearError(t0)
  IN  IF OpenCheck(t) THEN Fail(t, "OTHER") ELSE Done(Answered(t, r), "SUCCESS")

\* SQLPrepare: a finished statement is recycled first
Prepare(t0, type) ==
  LET t == ClearError(t0)
      u == IF t.status = "FINISHED" THEN Recycle(t) ELSE [t EXCEPT !.status = "READY"]
  IN  Done([InitializeStmts(u) EXCEPT !.text = TRUE, !.type = type],
           "SUCCESS")

\* PGAPI_FreeStmt(SQL_CLOSE), and SQLCloseCursor
CloseStmt(t) == Done(Recycle(ClearError(t)), "SUCCESS")
\* PGAPI_FreeStmt(SQL_UNBIND)
UnbindStmt(t) ==
  Done([ClearError(t) EXCEPT !.ard = ArdUnbindCols(t.ard), !.gd = GDataUnbindCols(t.gd)],
       "SUCCESS")

\* SQLMoreResults: there is never a second result, the statement is closed
MoreResults(t) == [CloseStmt(t) EXCEPT !.ret = "NO_DATA"]

-----------------------------------------------------------------------------
(* One row: SC_fetch.                                                        *)

\* QR_NumPublicResultCols; the cells SC_fetch copies out of a row
Delivered(t, row) == {c \in t.ard.bound : c <= t.res.cols}
                       
\* copy_and_convert_field on every bound column, left to right: the last
\* column that is not in order decides
RowResult(t, row) ==
  LET wrong == {c \in Delivered(t, row) : t.res.rows[row + 1][c] # "short"}
  IN  IF wrong = {} THEN "SUCCESS"
      ELSE LET last == CHOOSE c \in wrong : \A d \in wrong : d <= c
           IN  IF t.res.rows[row + 1][last] = "long" THEN "INFO" ELSE "ERROR"

AtEnd(t) == \/ t.curr >= Total(t) - 1
            \/ t.opt.maxRows > 0 /\ t.curr = t.opt.maxRows - 1

\* a bug: data_left is not reset
FetchedGDataKept(t) == ExtendGetDataInfo(t.gd, t.ard.allocated, TRUE)

\* the SQLGetData state after the columns of a row were copied
FetchedGData(t) ==
  LET g == ExtendGetDataInfo(t.gd, t.ard.allocated, TRUE)
  IN  [g EXCEPT !.left = [c \in 1..MaxCol |-> Pick(c <= t.res.cols, -1, g.left[c])]]

FetchRow(t0) ==
  LET t == [t0 EXCEPT !.lfc = 0]
      u == [t EXCEPT !.curr = t.curr + 1, !.lfc = 1]
      copied == [u EXCEPT !.gd = FetchedGData(u),
                          !.col = Pick(Delivered(u, u.curr) # {}, -1, u.col),
                          !.err = Pick(RowResult(u, u.curr) = "SUCCESS", u.err, "ROW")]
  IN  IF AtEnd(t) THEN Done([t EXCEPT !.curr = Total(t)], "NO_DATA")
      ELSE IF ~t.opt.retrieve THEN Done(u, "SUCCESS")
      ELSE Done(copied, RowResult(u, u.curr))

-----------------------------------------------------------------------------
(* A rowset: PGAPI_ExtendedFetch.                                            *)

\* EXTFETCH_RETURN_BOF, EXTFETCH_RETURN_EOF
BeforeStart(t) == Done([SetRowsetStart(t, -1, TRUE) EXCEPT !.curr = -1], "NO_DATA")
AfterEnd(t) == Done([SetRowsetStart(t, Total(t), TRUE) EXCEPT !.curr = -1], "NO_DATA")

\* getNthValid with no row deleted: the nth row from `from' on, or outside.
\* A result without rows never reached its end: any row seems to be there.
Outside == -100
Forward(t, from, n) ==
  LET p == from - 1 + n IN Pick(Total(t) = 0 \/ p < Total(t), p, Total(t))
Backward(t, from, n) == Pick(from + 1 >= n, from + 1 - n, Outside)

\* SQL_FETCH_NEXT steps over the rowset as it was fetched, SQL_FETCH_PRIOR
\* back by the one to come; behind the end PRIOR is LAST
NextStart(t, size, saved) == Pick(t.start < 0, 0, t.start + Pick(saved > 0, saved, size))
LastStart(t, size) == Pick(Total(t) <= 0, 0, Total(t) - size)
PriorStart(t, size) ==
  IF t.start <= 0 THEN Outside
  ELSE IF t.start >= Total(t) THEN LastStart(t, size)
  ELSE Pick(t.start < size, 0, t.start - size)

AbsoluteStart(t, off) ==
  IF off = 0 THEN Outside
  ELSE IF off > 0 THEN Forward(t, 0, off)
  ELSE Backward(t, Total(t) - 1, -off)

\* 0 refreshes the rowset: it is fetched again
RelativeStart(t, off) ==
  IF off = 0 THEN t.start
  ELSE IF off > 0 THEN Forward(t, t.start + 1, off)
  ELSE Backward(t, t.start - 1, -off)

\* a bookmark is a row number from 1 on; a negative one counts added rows, and
\* every row of a result is an added one
BookmarkStart(t, mark, off) ==
  LET i == Pick(mark < 0, Total(t) - 1 - Total(t) - mark, mark - 1)
  IN  IF off >= 0 THEN Forward(t, i, off + 1) ELSE Backward(t, i, 1 - off)

\* where the new rowset starts; outside the result: before it, or after it
Target(t, dir, off, size, saved) ==
  CASE dir = "NEXT" -> NextStart(t, size, saved)
    [] dir = "PRIOR" -> PriorStart(t, size)
    [] dir = "FIRST" -> 0
    [] dir = "LAST" -> LastStart(t, size)
    [] dir = "ABSOLUTE" -> AbsoluteStart(t, off)
    [] dir = "RELATIVE" -> RelativeStart(t, off)
    [] dir = "BOOKMARK" -> BookmarkStart(t, Bookmark, off)

\* the rowset would begin before the first row: delivered from there, a warning
Clipped(t, dir, size) ==
  /\ dir = "PRIOR"
  /\ \/ t.start >= Total(t) /\ size > Total(t)
     \/ t.start < Total(t) /\ t.start < size

\* a bug: the truncation of an earlier row is forgotten
RowLoopForgetful(t, size) ==
  LET step[i \in 0..size] ==
        IF i = 0 THEN [s |-> t, ret |-> "SUCCESS", i |-> 0, info |-> FALSE]
        ELSE LET p == step[i - 1]
                 f == FetchRow([p.s EXCEPT !.bindRow = i - 1])
             IN  IF p.ret \in {"NO_DATA", "ERROR"} THEN p
                 ELSE [s |-> f.s, ret |-> f.ret,
                       i |-> p.i + Pick(f.ret \in {"NO_DATA", "ERROR"}, 0, 1),
                       info |-> f.ret = "INFO"]
  IN  step[size]

\* the loop over the rows: [s, ret, i] as it is left
RowLoop(t, size) ==
  LET step[i \in 0..size] ==
        IF i = 0 THEN [s |-> t, ret |-> "SUCCESS", i |-> 0, info |-> FALSE]
        ELSE LET p == step[i - 1]
                 f == FetchRow([p.s EXCEPT !.bindRow = i - 1])
             IN  IF p.ret \in {"NO_DATA", "ERROR"} THEN p
                 ELSE [s |-> f.s, ret |-> f.ret,
                       i |-> p.i + Pick(f.ret \in {"NO_DATA", "ERROR"}, 0, 1),
                       info |-> p.info \/ f.ret = "INFO"]
  IN  step[size]

\* after the loop: a row in error ends the call at once, with the cursor and
\* the binding row still on it; otherwise the cursor is put on the first row
Finish(l, start, clipped) ==
  IF l.ret = "ERROR" THEN Done(l.s, "ERROR")
  ELSE Done([l.s EXCEPT !.lfc = l.i, !.bindRow = 0, !.curr = start],
            IF l.i = 0 THEN "NO_DATA"
            ELSE IF l.info \/ clipped THEN "INFO" ELSE "SUCCESS")

\* the checks of the new rowset's place, and the cache base set to it
FetchRowset(t, start, size) ==
  LET u == [SetRowsetStart(t, start, TRUE) EXCEPT !.curr = start - 1]
  IN  Finish(RowLoop([u EXCEPT !.res.base = start], size), start, t.err = "POS_BEFORE")

ExtendedFetch(t0, dir, off, size) ==
  LET t == ClearError(t0)
      u == [t EXCEPT !.save = -1]
      v == IF Clipped(u, dir, size) THEN SetError(u, "POS_BEFORE") ELSE u
      target == Target(u, dir, off, size, t.save)
  IN  IF t.opt.cursor = "FORWARD_ONLY" /\ dir # "NEXT" THEN Fail(t, "OTHER")
      ELSE IF ~HasResult(t) THEN Fail(t, "OTHER")
      ELSE IF t.ard.allocated = 0
           THEN Pick(t.type # "SELECT", Done(t, "NO_DATA"), Fail(t, "OTHER"))
      ELSE IF target >= Total(t) THEN AfterEnd(v)
      ELSE IF target + size <= 0 THEN BeforeStart(v)
      ELSE FetchRowset(v, Pick(target < 0, 0, target), size)

-----------------------------------------------------------------------------
(* Positioning in a rowset and reading a value.                              *)

\* PGAPI_SetPos(irow, SQL_POSITION) with spos_callback
SetPos(t0, irow) ==
  LET t == ClearError(t0)
      reset == [t EXCEPT !.gd.left =
                  [c \in 1..MaxCol |-> Pick(c <= t.gd.allocated, -1, t.gd.left[c])]]
      g == RowIdx2GIdx(t, irow - 1)
      Reaches == \A i \in 0..(irow - 1) : RowIdx2GIdx(t, i) < Total(t)
  IN  IF ~HasResult(t) THEN Fail(t, "OTHER")
      ELSE IF irow = 0 THEN Fail(t, "OTHER")
      ELSE IF irow > t.lfc THEN Fail(t, "OTHER")
      ELSE Done(IF Reaches THEN [reset EXCEPT !.curr = g] ELSE reset, "SUCCESS")

\* copy_and_convert_field for SQLGetData: -2 stands for 0 once more
Piece(cell, left) ==
  CASE left \in {0, -2} -> [ret |-> "NO_DATA", left |-> -2]
    [] left \notin {0, -2} /\ cell = "bad" -> [ret |-> "ERROR", left |-> left]
    [] left = -1 /\ cell = "long" -> [ret |-> "INFO", left |-> 1]
    [] (left = 1 /\ cell = "long") \/ (left \in {-1, 1} /\ cell = "short") ->
         [ret |-> "SUCCESS", left |-> 0]

\* PGAPI_GetData of column c (from 1 on); row: the row of the cache it read
GetData(t0, c) ==
  LET t == ClearError(t0)
      u == SetCurrentCol(t, c - 1)
      g == ExtendGetDataInfo(u.gd, u.ard.allocated, TRUE)
      row == GIdx2CacheIdx(t, t.curr)
      p == Piece(t.res.rows[row + 1][c], g.left[c])
      Refused(e) == [s |-> SetError(t, e), ret |-> "ERROR", row |-> -1]
  IN  IF t.status # "FINISHED" THEN Refused("OTHER")
      ELSE IF c > t.res.cols THEN Refused("OTHER")
      ELSE IF t.curr < 0 \/ t.curr >= Total(t) THEN Refused("OTHER")
      ELSE [s |-> [u EXCEPT !.gd = [g EXCEPT !.left[c] = p.left],
                            !.err = Pick(p.ret \in {"INFO", "ERROR"}, "OTHER", u.err)],
            ret |-> p.ret, row |-> row]

\* PGAPI_GetStmtOption(SQL_ROW_NUMBER): checked against the cached rows
RowNumber(t) ==
  LET i == GIdx2CacheIdx(t, t.curr)
  IN  IF ~HasResult(t) \/ i < 0 \/ i >= Total(t)
      THEN [s |-> SetError(t, "OTHER"), ret |-> "ERROR", row |-> -1]
      ELSE [s |-> t, ret |-> "SUCCESS", row |-> t.curr]

\* PGAPI_BindCol
BindCol(t0, c, on) ==
  LET t == ClearError(t0)
      a == ExtendColumnBindings(t.ard, c)
      g == ExtendGetDataInfo(t.gd, c, FALSE)
  IN  Done([t EXCEPT !.ard = [a EXCEPT !.bound = Pick(on, @ \cup {c}, @ \ {c})],
                     !.gd = [g EXCEPT !.left[c] = -1]], "SUCCESS")

-----------------------------------------------------------------------------
(* Options.                                                                  *)

\* SQL_CURSOR_TYPE: refused while there is a result
SetCursorType(t, v) ==
  IF HasResult(t) THEN Fail(t, "OTHER")
  ELSE Done([t EXCEPT !.opt.cursor = v, !.orig.cursor = v], "SUCCESS")

\* SQL_MAX_ROWS (and SQL_MAX_LENGTH, SQL_KEYSET_SIZE alike): kept for later
\* while there is a result, and the application told so
SetMaxRows(t, v) ==
  LET u == [t EXCEPT !.orig.maxRows = v,
                     !.opt.maxRows = Pick(HasResult(t), @, v)]
  IN  IF u.opt.maxRows = v THEN Done(u, "SUCCESS")
      ELSE Done(SetError(u, "OTHER"), "INFO")

SetRetrieveData(t, v) == Done([t EXCEPT !.opt.retrieve = v], "SUCCESS")

\* a bug: the old size is forgotten
SetRowsetSizeUnsaved(t, v) == Done([t EXCEPT !.ard.size2 = v], "SUCCESS")

\* SQL_ROWSET_SIZE: the size the next SQLExtendedFetch steps over is kept
SetRowsetSize(t, v) ==
  Done([t EXCEPT !.save = Pick(t.save <= 0 /\ t.lfc > 0, t.ard.size2, @),
                 !.ard.size2 = v], "SUCCESS")

\* SQL_ATTR_ROW_ARRAY_SIZE: no size is kept
SetRowArraySize(t, v) == Done([t EXCEPT !.ard.size = v], "SUCCESS")

-----------------------------------------------------------------------------
(* The calls.                                                                *)

Shown(call, r) == [call |-> call, ret |-> r.ret, row |-> -1, rows |-> {}, fresh |-> FALSE]
Silent == [call |-> "other", ret |-> "SUCCESS", row |-> -1, rows |-> {}, fresh |-> FALSE]

Init == /\ s = NewStatement
        /\ api \in {"odbc2", "odbc3"}
        /\ out = Silent
        /\ seen = [cols |-> {}, loaded |-> FALSE]

\* a call that moves no cursor
Call(r) == /\ s' = r.s
           /\ out' = Silent
           /\ UNCHANGED <<api, seen>>

\* a call that moves the cursor or makes a new one, unless it is refused
Moved(r, loaded) ==
  seen' = IF r.ret = "ERROR" /\ r.s.err # "ROW" THEN seen
          ELSE [cols |-> {}, loaded |-> loaded]

Move(r, loaded) == /\ s' = r.s
                   /\ out' = Silent
                   /\ Moved(r, loaded)
                   /\ UNCHANGED api

Read(name, r, fresh) == /\ s' = r.s
                        /\ out' = [Shown(name, r) EXCEPT !.row = r.row, !.fresh = fresh]
                        /\ UNCHANGED api

SQLExecDirect == \E r \in Results : Move(ExecDirect(s, r), FALSE)
SQLExecute == s.text /\ \E r \in Results : Move(Execute(s, r), FALSE)
SQLPrepare == \E type \in StatementTypes : Move(Prepare(s, type), FALSE)
SQLCloseCursor == Move(CloseStmt(s), FALSE)
SQLMoreResults == Move(MoreResults(s), FALSE)
SQLUnbind == Move(UnbindStmt(s), seen.loaded)

SQLBindCol == \E c \in BindCols, on \in BOOLEAN : Call(BindCol(s, c, on))

\* the rows the application finds in its buffers
Fetched(r) == IF r.ret \in {"SUCCESS", "INFO"}
              THEN r.s.start..(r.s.start + r.s.lfc - 1) ELSE {}

FetchCall(name, r) ==
  /\ s' = r.s
  /\ out' = [Shown(name, r) EXCEPT !.rows = Fetched(r)]
  /\ Moved(r, s.opt.retrieve /\ r.ret \in {"SUCCESS", "INFO"})
  /\ UNCHANGED api

\* SQLFetch is SQLFetchScroll(SQL_FETCH_NEXT): driver_version is ODBCVER
SQLFetchScroll ==
  /\ api = "odbc3"
  /\ \E dir \in Directions, off \in Offsets :
       /\ dir \in {"ABSOLUTE", "RELATIVE", "BOOKMARK"} \/ off = 0
       /\ FetchCall(dir, ExtendedFetch(s, dir, off, s.ard.size))

SQLExtendedFetch ==
  /\ api = "odbc2"
  /\ \E dir \in Directions, off \in Offsets :
       /\ dir \in {"ABSOLUTE", "RELATIVE", "BOOKMARK"} \/ off = 0
       /\ FetchCall(dir, ExtendedFetch(s, dir, off, s.ard.size2))

SQLSetPos == \E irow \in 0..3 : Move(SetPos(s, irow), seen.loaded)

SQLGetData == \E c \in 1..MaxCol :
                /\ Read("GetData", GetData(s, c), seen.loaded /\ c \notin seen.cols)
                /\ seen' = IF GetData(s, c).row >= 0 THEN [seen EXCEPT !.cols = {c}] ELSE seen

SQLGetRowNumber == Read("RowNumber", RowNumber(s), FALSE) /\ UNCHANGED seen

SQLSetStmtAttr ==
  \/ \E v \in {"FORWARD_ONLY", "STATIC"} : Call(SetCursorType(s, v))
  \/ \E v \in MaxRowsValues : Call(SetMaxRows(s, v))
  \/ \E v \in RetrieveValues : Call(SetRetrieveData(s, v))
  \/ api = "odbc2" /\ \E v \in RowsetSizes : Call(SetRowsetSize(s, v))
  \/ api = "odbc3" /\ \E v \in RowsetSizes : Call(SetRowArraySize(s, v))

Next == \/ SQLExecDirect \/ SQLExecute \/ SQLPrepare
        \/ SQLCloseCursor \/ SQLMoreResults \/ SQLUnbind \/ SQLBindCol
        \/ SQLFetchScroll \/ SQLExtendedFetch \/ SQLSetPos
        \/ SQLGetData \/ SQLGetRowNumber \/ SQLSetStmtAttr

Spec == Init /\ [][Next]_vars

-----------------------------------------------------------------------------
(* What the cursor promises.                                                 *)

\* Every part of the statement has its type.
TypeOK ==
  /\ s.status \in {"ALLOCATED", "READY", "FINISHED"}
  /\ s.res = NoResult \/ [cols |-> s.res.cols, rows |-> s.res.rows] \in Results
  /\ (s.status = "FINISHED") <=> HasResult(s)
  /\ s.res.valid \in BOOLEAN
  /\ {s.curr, s.start, s.save, s.lfc, s.col, s.res.base, s.bindRow} \subseteq Int
  /\ s.lfc >= 0
  /\ s.ard.allocated \in 0..MaxCol /\ s.ard.bound \subseteq 1..s.ard.allocated
  /\ s.gd.allocated \in 0..MaxCol
  /\ s.gd.left \in [1..MaxCol -> {-2, -1, 0, 1}]
  /\ seen.cols \subseteq 1..MaxCol

\* GIdx2CacheIdx (statement.h:464): the base of the cache is moved by
\* increments along with the rowset, on every path of every call; whenever the
\* cursor is on a row, the cached row it reads is that row and no other.
CacheFollowsRowset ==
  HasResult(s) /\ s.curr \in 0..(Total(s) - 1) => GIdx2CacheIdx(s, s.curr) = s.curr

\* SQLFetch, SQLExtendedFetch(SQL_FETCH_NEXT): after a rowset inside the result
\* the next one begins with the row behind it, even when SQL_ROWSET_SIZE was
\* changed in between (save_rowset_size), or before the cursor was opened.
NextFollows ==
  [][ /\ out'.call = "NEXT" /\ out'.rows # {}
      /\ seen.loaded /\ s.start + s.lfc < Total(s) /\ s.opt.maxRows = 0
      /\ api = "odbc3" => s.lfc = s.ard.size
      => s'.start = s.start + s.lfc ]_vars

\* SQLGetData (data_left, current_col): the first read of a column of a row the
\* last move loaded gives the beginning of that row's value, whatever pieces
\* of which column of which row were read before.
GetDataFromItsStart ==
  [][ \A c \in 1..MaxCol :
        out'.call = "GetData" /\ out'.fresh /\ out'.row >= 0 /\ seen'.cols = {c}
        => /\ out'.row = s.curr
           /\ out'.ret = Piece(s.res.rows[s.curr + 1][c], -1).ret ]_vars

\* A fetch that reports plain success delivered every bound column of every row
\* of the rowset whole (SC_fetch, PGAPI_ExtendedFetch: truncated, error).
SuccessMeansWhole ==
  [][ out'.ret = "SUCCESS" /\ s.opt.retrieve
      => \A r \in out'.rows : \A c \in Delivered(s, r) : s.res.rows[r + 1][c] = "short" ]_vars

\* "if at the end of the tuples, return "no data found" and set the cursor past
\* the end of the result set" (statement.cc:1297): a fetch of the next rowset
\* that follows one that found no data finds none either.
EndIsFinal ==
  [][ out.call = "NEXT" /\ out.ret = "NO_DATA" /\ out'.call = "NEXT" => out'.rows = {} ]_vars

=============================================================================
