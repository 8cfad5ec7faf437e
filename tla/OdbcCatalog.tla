----------------------------- MODULE OdbcCatalog -----------------------------
(* The catalog functions of the ODBC driver: src/vxodbc/info.cc answers      *)
(* them, odbcapi.cc and odbcapiw.cc are their narrow and wide entries.  Each *)
(* is one call on a statement; the narrow entries may ask twice, and other   *)
(* programs may change the server's tables between the two questions.        *)
(*                                                                           *)
(* A text is a sequence of letters.  A text argument is [ptr, cb]: where it  *)
(* is (NULL: nowhere) and its length, which may be SQL_NTS.  A statement is  *)
(* [result, status, error, catalog, internal]: its current result (NULL:     *)
(* none) [of, rows], the error number its last call left, and the internal   *)
(* statements it has allocated and not freed.  The server is [tables, keyed, *)
(* up]: what exists, what of it has a primary key, and whether it answers.   *)
(*                                                                           *)
(* The driver reports PostgreSQL 7.4 without schemas.  It sends no statement *)
(* but LIST TABLES, LIST COLUMNS and sp_primary_keys_rowset: the queries of  *)
(* the other functions fail in CC_send_query or PGAPI_ExecDirect, so what    *)
(* follows a success of theirs is never reached.                             *)
EXTENDS Integers, Sequences

CONSTANTS LowerOf, \* the lower-case letter of each upper-case one
          Args,    \* text arguments the application may pass
          Existing, \* tables the server may have
          NULL

VARIABLES conn,   \* [metadata_id, lower_case_identifier], of its connection
          stmt,   \* the application's statement
          server,
          asked   \* the call that is being made or was made last, or a sign that there is none
vars == <<conn, stmt, server, asked>>

Upper == DOMAIN LowerOf
Lowers == {LowerOf[c] : c \in Upper}

SQL_NTS == -3
SQL_NULL_DATA == -1
Arg(text) == [ptr |-> text, cb |-> SQL_NTS]
NullArg == [ptr |-> NULL, cb |-> 0]

-----------------------------------------------------------------------------
(* Text arguments (misc.cc)                                                  *)

Given(arg) ==
  CASE arg.ptr = NULL \/ arg.cb = SQL_NULL_DATA -> NULL
    [] arg.cb = SQL_NTS -> arg.ptr
    [] OTHER -> SubSeq(arg.ptr, 1, IF arg.cb < Len(arg.ptr) THEN arg.cb ELSE Len(arg.ptr))

MakeString(arg) == IF arg.cb < 0 /\ arg.cb # SQL_NTS THEN NULL ELSE Given(arg)

ToLower(text) == [i \in DOMAIN text |-> IF text[i] \in Upper THEN LowerOf[text[i]] ELSE text[i]]
HasLower(text) == \E i \in DOMAIN text : text[i] \in Lowers

\* a bug: a name is left alone if it has an upper-case letter
MakeLstringIfLower(arg, ifallupper) ==
  LET text == IF arg.ptr = NULL THEN <<>> ELSE Given(arg)
  IN IF ToLower(text) = text \/ (ifallupper /\ ~HasLower(text)) THEN NULL ELSE ToLower(text)

\* make_lstring_ifneeded: NULL if there is nothing to change, or nothing that
\* may be changed
MakeLstringIfNeeded(arg, ifallupper) ==
  LET text == IF arg.ptr = NULL THEN <<>> ELSE Given(arg)
  IN IF ToLower(text) = text \/ (ifallupper /\ HasLower(text)) THEN NULL ELSE ToLower(text)

\* ucs2_to_utf8: a wide argument as a narrow one of known length
Narrowed(arg, lower) ==
  LET text == Given([arg EXCEPT !.cb = IF arg.ptr = NULL THEN SQL_NULL_DATA ELSE @])
  IN IF text = NULL THEN [ptr |-> NULL, cb |-> SQL_NULL_DATA]
     ELSE [ptr |-> IF lower THEN ToLower(text) ELSE text, cb |-> Len(text)]

-----------------------------------------------------------------------------
(* Texts within statements                                                   *)

Concat(pieces) ==
  LET upto[i \in 0..Len(pieces)] == IF i = 0 THEN <<>> ELSE upto[i - 1] \o pieces[i]
  IN upto[Len(pieces)]

\* simpleCatalogEscape: quotes and backslashes are doubled
Doubled(c) == IF c \in {"'", "\\"} THEN <<c, c>> ELSE <<c>>
SimpleCatalogEscape(arg) ==
  LET text == Given(arg)
  IN IF text = NULL \/ text = <<>> THEN NULL
     ELSE Concat([i \in DOMAIN text |-> Doubled(text[i])])

\* adjustLikePattern: a backslash is kept for the letter after it, where it is
\* an escape before a wildcard and a letter of its own before another one; each
\* is written twice for the statement's sake
Escaping(text, i) == i > 1 /\ text[i - 1] = "\\"
AdjustedLetter(text, i) ==
  (IF ~Escaping(text, i) THEN <<>>
   ELSE IF text[i] \in {"%", "_"} THEN <<"\\", "\\">> ELSE <<"\\", "\\", "\\", "\\">>)
    \o (CASE text[i] = "\\" -> <<>> [] text[i] = "'" -> <<"'", "'">> [] OTHER -> <<text[i]>>)
AdjustLikePattern(arg) ==
  LET text == Given(arg)
  IN IF text = NULL THEN NULL ELSE Concat([i \in DOMAIN text |-> AdjustedLetter(text, i)])

\* a name in a condition, and whether it is compared as a pattern
Condition(arg, search_pattern) ==
  [like |-> search_pattern,
   text |-> IF search_pattern THEN AdjustLikePattern(arg) ELSE SimpleCatalogEscape(arg)]

-----------------------------------------------------------------------------
(* Statements                                                                *)

NoError == "none"
SC_clear_error(s) == [s EXCEPT !.error = NoError]
SC_initialize_and_recycle(s) ==
  IF s.status = "ALLOCATED" THEN SC_clear_error(s)
  ELSE [s EXCEPT !.result = NULL, !.status = "READY", !.error = NoError, !.catalog = FALSE]
Fail(s, number) == [ret |-> "ERROR", stmt |-> [s EXCEPT !.error = number]]
Success(s) == [ret |-> "SUCCESS", stmt |-> s]

Finished(s) == [s EXCEPT !.status = "FINISHED"]
AllocStmt(s) == [s EXCEPT !.internal = @ + 1]
FreeStmt(s) == [s EXCEPT !.internal = @ - 1]

Empty(of) == [of |-> of, rows |-> {}]

\* VxStatement: a result, without rows if the server does not answer, and
\* always success
FromServer(rows) == IF server.up THEN rows ELSE {}
CatalogQuery(s, of, rows) ==
  Success([Finished(SC_initialize_and_recycle(s)) EXCEPT
             !.result = [of |-> of, rows |-> rows], !.catalog = TRUE])

-----------------------------------------------------------------------------
(* info.cc.  A call is [fn, ct, sc, tb, cl, fk, pattern]: the function, the  *)
(* catalog, schema, table, column and referring table names it was given,    *)
(* and whether they may be patterns.                                         *)

PGAPI_Tables(s, call) ==
  IF call.sc.cb = 0 /\ call.tb.cb = 0 /\ call.ct.cb = 1 /\ call.ct.ptr[1] = "%"
  THEN CatalogQuery(s, "databases", {<<"__VERSAPLEX">>})
  ELSE CatalogQuery(s, "tables", FromServer(server.tables))

\* whatever the lengths say, the names end at a NUL
CString(arg) == IF arg.ptr = NULL THEN <<>> ELSE arg.ptr
PGAPI_Columns(s, call) ==
  CatalogQuery(s, "columns", FromServer(server.tables \cap {CString(call.tb)}))
PGAPI_PrimaryKeys(s, call) ==
  CatalogQuery(s, "primary keys", FromServer(server.keyed \cap {CString(call.tb)}))

\* the queries the server is never sent
CC_send_query(s, query) == Fail(s, "EXEC_ERROR")
\* a bug: the internal statement stays
ExecDirectKept(s, query) == Fail(Finished(AllocStmt(s)), "EXEC_ERROR")

\* and those an internal statement refuses, whose error is copied
ExecDirect(s, query) == Fail(Finished(FreeStmt(AllocStmt(s))), "EXEC_ERROR")

TableRequired(s) == [ret |-> "SUCCESS", stmt |-> [s EXCEPT !.error = "INVALID_NULL_ARG"]]

\* its first query asks whether the table is a view
PGAPI_SpecialColumns(s, call) ==
  LET s1 == SC_initialize_and_recycle(s)
      table == SimpleCatalogEscape(call.tb)
  IN IF table = NULL THEN TableRequired(s1) ELSE ExecDirect(s1, [table |-> table])

\* the columns are asked for and read on an internal statement first; the
\* next query asks for the indexes of a table that has columns
PGAPI_Statistics(s, call) ==
  LET s1 == SC_initialize_and_recycle(s)
      s2 == [s1 EXCEPT !.result = Empty("statistics"), !.catalog = TRUE]
      table == Arg(MakeString(call.tb))
      columns == PGAPI_Columns(AllocStmt(s2), [call EXCEPT !.tb = table])
  IN IF table.ptr = NULL THEN TableRequired(s1)
     ELSE IF columns.stmt.result.rows = {} THEN Success(Finished(s2))
     ELSE ExecDirect(s2, [table |-> SimpleCatalogEscape(table)])

PGAPI_ColumnPrivileges(s, call) ==
  CC_send_query(SC_initialize_and_recycle(s),
    [schema |-> SimpleCatalogEscape(call.sc), table |-> SimpleCatalogEscape(call.tb),
     column |-> Condition(call.cl, call.pattern)])

\* a result is there before the query fails
PGAPI_TablePrivileges(s, call) ==
  CC_send_query(
    Finished([SC_initialize_and_recycle(s) EXCEPT
                !.result = Empty("table privileges"), !.catalog = TRUE]),
    [table |-> Condition(call.tb, call.pattern)])

\* procedures are passed as tb; one is asked for by its schema's name
PGAPI_ProcedureColumns(s, call) ==
  CC_send_query(SC_initialize_and_recycle(s), [procedure |-> Condition(call.tb, call.pattern)])
PGAPI_Procedures(s, call) ==
  CC_send_query(SC_initialize_and_recycle(s), [procedure |-> Condition(call.sc, call.pattern)])

(* The keys that point from a table (fk), or to it.  With neither name the   *)
(* text of the second is read through a null pointer: "crash".               *)
PGAPI_ForeignKeys(s, call) ==
  LET s1 == Finished([SC_initialize_and_recycle(s) EXCEPT
                        !.result = Empty("foreign keys"), !.catalog = TRUE])
      from == MakeString(call.fk)
      to == MakeString(call.tb)
  IN CASE from \notin {NULL, <<>>} -> ExecDirect(s1, [from |-> SimpleCatalogEscape(Arg(from))])
       [] from \in {NULL, <<>>} /\ to = NULL -> [ret |-> "crash", stmt |-> AllocStmt(s1)]
       [] from \in {NULL, <<>>} /\ to = <<>> -> Fail(s1, "INTERNAL_ERROR")
       [] OTHER -> ExecDirect(s1, [to |-> SimpleCatalogEscape(Arg(to))])

Pgapi(s, call) ==
  CASE call.fn = "Tables" -> PGAPI_Tables(s, call)
    [] call.fn = "Columns" -> PGAPI_Columns(s, call)
    [] call.fn = "PrimaryKeys" -> PGAPI_PrimaryKeys(s, call)
    [] call.fn = "SpecialColumns" -> PGAPI_SpecialColumns(s, call)
    [] call.fn = "Statistics" -> PGAPI_Statistics(s, call)
    [] call.fn = "ForeignKeys" -> PGAPI_ForeignKeys(s, call)
    [] call.fn = "ColumnPrivileges" -> PGAPI_ColumnPrivileges(s, call)
    [] call.fn = "TablePrivileges" -> PGAPI_TablePrivileges(s, call)
    [] call.fn = "ProcedureColumns" -> PGAPI_ProcedureColumns(s, call)
    [] call.fn = "Procedures" -> PGAPI_Procedures(s, call)

-----------------------------------------------------------------------------
(* odbcapi.cc.  StartRollbackState and DiscardStatementSvp change nothing.   *)

SC_opencheck(s) == s.result # NULL /\ s.result.rows # {}
SC_is_lower_case == conn.metadata_id \/ conn.lower_case_identifier

\* the call with those of the names folded that may and need to be
Folded(arg, ifallupper) ==
  IF MakeLstringIfNeeded(arg, ifallupper) = NULL THEN arg
  ELSE [arg EXCEPT !.ptr = MakeLstringIfNeeded(arg, ifallupper)]
Lowered(call, names) ==
  [n \in DOMAIN call |-> IF n \in names THEN Folded(call[n], ~SC_is_lower_case) ELSE call[n]]

\* there is no call, none will follow, or it is at one of its stages
Idle == [stage |-> "idle"]
Crashed == [stage |-> "crashed"]
At(stage) == asked.stage = stage
Asked(stage, call, again, ret) ==
  [stage |-> stage, fn |-> call.fn, tb |-> call.tb, again |-> again, ret |-> ret,
   open |-> SC_opencheck(stmt), first |-> server]

Returns(call, r) ==
  /\ asked' = IF r.ret = "crash" THEN Crashed ELSE Asked("returned", call, call, r.ret)
  /\ stmt' = r.stmt
  /\ UNCHANGED <<conn, server>>

(* A narrow entry: a call that found nothing is made again with the names in *)
(* lower case, if that changes one of them and they are all in upper case or *)
(* identifiers have no case.  Without a result to count the rows of, the     *)
(* program crashes.                                                          *)
Narrow(call, names) ==
  LET first == Pgapi(SC_clear_error(stmt), call)
      again == Lowered(call, names)
      success == ~SC_opencheck(stmt) /\ first.ret = "SUCCESS"
      nothing == success /\ first.stmt.result # NULL /\ ~SC_opencheck(first.stmt)
  IN /\ asked = Idle
     /\ IF nothing /\ again # call
        THEN /\ asked' = Asked("pending", call, again, "none")
             /\ stmt' = first.stmt
             /\ UNCHANGED <<conn, server>>
        ELSE Returns(call,
               IF SC_opencheck(stmt) THEN Fail(SC_clear_error(stmt), "SEQUENCE_ERROR")
               ELSE IF success /\ first.stmt.result = NULL THEN [first EXCEPT !.ret = "crash"]
               ELSE first)

AskAgain ==
  LET r == Pgapi(stmt, asked.again)
  IN /\ At("pending")
     /\ stmt' = r.stmt
     /\ asked' = [asked EXCEPT !.stage = "returned", !.ret = r.ret]
     /\ UNCHANGED <<conn, server>>

Three == {"ct", "sc", "tb"}
Four == Three \cup {"cl"}
Plain(fn, args) == [args EXCEPT !.fn = fn, !.pattern = FALSE]
Patterned(fn, args) == [args EXCEPT !.fn = fn, !.pattern = ~conn.metadata_id]

SQLTables(args) == Narrow(Patterned("Tables", args), Three)
SQLColumns(args) == Narrow(Patterned("Columns", args), Four)
SQLPrimaryKeys(args) == Narrow(Plain("PrimaryKeys", args), Three)
SQLSpecialColumns(args) == Narrow(Plain("SpecialColumns", args), Three)
SQLStatistics(args) == Narrow(Plain("Statistics", args), Three)
SQLForeignKeys(args) == Narrow(Plain("ForeignKeys", args), Three \cup {"fk"})
SQLColumnPrivileges(args) == Narrow(Patterned("ColumnPrivileges", args), Four)
SQLTablePrivileges(args) == Narrow(Patterned("TablePrivileges", args), Three)
SQLProcedureColumns(args) == Narrow(Patterned("ProcedureColumns", args), Four)
SQLProcedures(args) == Narrow(Patterned("Procedures", args), Three)

-----------------------------------------------------------------------------
(* odbcapiw.cc.  A wide entry folds the names beforehand, if identifiers     *)
(* have no case, and asks once.                                              *)

Wide(call, names) ==
  LET narrow == [n \in DOMAIN call |->
                   IF n \in names THEN Narrowed(call[n], SC_is_lower_case) ELSE call[n]]
  IN /\ asked = Idle
     /\ Returns(narrow, IF SC_opencheck(stmt) THEN Fail(SC_clear_error(stmt), "SEQUENCE_ERROR")
                        ELSE Pgapi(SC_clear_error(stmt), narrow))

SQLTablesW(args) == Wide(Patterned("Tables", args), Three)
SQLColumnsW(args) == Wide(Patterned("Columns", args), Four)
SQLPrimaryKeysW(args) == Wide(Plain("PrimaryKeys", args), Three)
SQLSpecialColumnsW(args) == Wide(Plain("SpecialColumns", args), Three)
SQLStatisticsW(args) == Wide(Plain("Statistics", args), Three)
SQLForeignKeysW(args) == Wide(Plain("ForeignKeys", args), Three \cup {"fk"})
SQLColumnPrivilegesW(args) == Wide(Patterned("ColumnPrivileges", args), Four)
SQLTablePrivilegesW(args) == Wide(Patterned("TablePrivileges", args), Three)
SQLProcedureColumnsW(args) == Wide(Patterned("ProcedureColumns", args), Four)
SQLProceduresW(args) == Wide(Patterned("Procedures", args), Three)

-----------------------------------------------------------------------------
(* The application and the others                                            *)

\* the application has the answer
Answered == At("returned") /\ asked' = Idle /\ UNCHANGED <<conn, stmt, server>>

\* SQLFreeStmt(SQL_CLOSE)
Close ==
  /\ asked = Idle
  /\ stmt' = SC_initialize_and_recycle(SC_clear_error(stmt))
  /\ UNCHANGED <<conn, server, asked>>

\* other programs create and drop tables, and the server goes away and comes
\* back; what they do after the last question no call sees
Servers == {sv \in [tables : SUBSET Existing, keyed : SUBSET Existing, up : BOOLEAN] :
              sv.keyed \subseteq sv.tables}
Others ==
  /\ asked = Idle \/ At("pending")
  /\ server' \in Servers
  /\ UNCHANGED <<conn, stmt, asked>>

\* the table, and the referring table, are what the functions tell apart
Calls == {[fn |-> "", ct |-> NullArg, sc |-> NullArg, tb |-> tb, cl |-> NullArg, fk |-> NullArg,
           pattern |-> FALSE] : tb \in Args}
Referring == {[args EXCEPT !.fk = fk] : args \in Calls, fk \in Args}

Init ==
  /\ conn \in [metadata_id : BOOLEAN, lower_case_identifier : BOOLEAN]
  /\ stmt = [result |-> NULL, status |-> "ALLOCATED", error |-> NoError, catalog |-> FALSE,
             internal |-> 0]
  /\ server \in Servers
  /\ asked = Idle

NarrowEntry(args) ==
  \/ SQLTables(args) \/ SQLColumns(args) \/ SQLPrimaryKeys(args) \/ SQLSpecialColumns(args)
  \/ SQLStatistics(args) \/ SQLColumnPrivileges(args) \/ SQLTablePrivileges(args)
  \/ SQLProcedureColumns(args) \/ SQLProcedures(args)
WideEntry(args) ==
  \/ SQLTablesW(args) \/ SQLColumnsW(args) \/ SQLPrimaryKeysW(args) \/ SQLSpecialColumnsW(args)
  \/ SQLStatisticsW(args) \/ SQLColumnPrivilegesW(args) \/ SQLTablePrivilegesW(args)
  \/ SQLProcedureColumnsW(args) \/ SQLProceduresW(args)

Next ==
  \/ \E args \in Calls : NarrowEntry(args) \/ WideEntry(args)
  \/ \E args \in Referring : SQLForeignKeys(args) \/ SQLForeignKeysW(args)
  \/ AskAgain
  \/ Answered
  \/ Close
  \/ Others

Spec == Init /\ [][Next]_vars

-----------------------------------------------------------------------------
\* an assumption on the constants: texts are sequences of letters
TextsKnown ==
  /\ LowerOf \in [Upper -> STRING]
  /\ Args \subseteq [ptr : {NULL} \cup Seq(STRING), cb : Int]
  /\ NULL \notin Seq(STRING)

(* What an application may rely on                                           *)

(* A call that is refused leaves an error; one on a statement whose result   *)
(* still has rows is refused and leaves the result; and what a function has  *)
(* begun and then refuses it has undone, so that no internal statement       *)
(* outlives the call.                                                        *)
Returning == At("returned")'
Told ==
  /\ Returning /\ asked'.ret = "ERROR" => stmt'.error # NoError
  /\ Returning /\ SC_opencheck(stmt) => asked'.ret = "ERROR" /\ stmt'.result = stmt.result
  /\ asked' # Crashed => stmt'.internal = 0
FailureIsTold == [][Told]_vars

(* SQLColumns and SQLPrimaryKeys asked for a whole name: with an answer that *)
(* is empty from a server that is up, there was no such table at the first   *)
(* question, and, where the name may be folded, none by its lower-case name  *)
(* at the second; what is found was there by the one name or the other.      *)
WholeName(arg) == arg.ptr # NULL /\ arg.cb = SQL_NTS
MayFold(name) == ToLower(name) # name /\ (SC_is_lower_case \/ ~HasLower(name))
FoundUnlessAbsent ==
  At("returned") /\ asked.fn \in {"Columns", "PrimaryKeys"} /\ ~asked.open
    /\ WholeName(asked.tb) /\ asked.first.up /\ server.up =>
      LET name == asked.tb.ptr
          There(sv) == IF asked.fn = "Columns" THEN sv.tables ELSE sv.keyed
      IN /\ asked.ret = "SUCCESS"
         /\ stmt.result.rows =
              (There(asked.first) \cap {name}) \cup
                (IF name \notin There(asked.first) /\ MayFold(name)
                 THEN There(server) \cap {ToLower(name)} ELSE {})
=============================================================================
