------------------------- MODULE OdbcSession_proofs --------------------------
(* What an application asks of the ODBC driver besides rows, for any values  *)
(* of the constants.                                                         *)
(* The catalog functions: every refused one says so and leaves nothing       *)
(* behind.  The invariant says what a statement looks like between two       *)
(* calls, that one whose call asks a second time has no open result, and     *)
(* that the second question is about a name the first did not find.          *)
(* Diagnostics: a record that is kept is of its statement's error, and what  *)
(* was read of it so far ends where the next piece of the text begins.       *)
(* Connecting: a completed string leads where the one it was made of did.    *)
(* The section of the session lifts these invariants to it.                  *)
(* The last section is about SchemaData and shares the module only: the      *)
(* self-test of GetChecksums leaves no procedure behind, whatever number of  *)
(* programs run it and are killed within it.                                 *)
EXTENDS OdbcSession, SchemaData, WellFoundedInduction, SequenceTheorems, TLAPS

-----------------------------------------------------------------------------
CatalogFunctions == {"Tables", "Columns", "PrimaryKeys", "SpecialColumns", "Statistics",
              "ForeignKeys", "ColumnPrivileges", "TablePrivileges", "ProcedureColumns",
              "Procedures"}

CatalogRows == SUBSET (Existing \cup {<<"__VERSAPLEX">>})
CatalogKinds == {"databases", "tables", "columns", "primary keys", "statistics", "foreign keys",
          "table privileges"}
CatalogResults == {NoPointer} \cup [of : CatalogKinds, rows : CatalogRows]
CatalogStatuses == {"ALLOCATED", "READY", "FINISHED"}
CatalogErrors == {Catalog!NoError, "EXEC_ERROR", "INVALID_NULL_ARG", "INTERNAL_ERROR", "SEQUENCE_ERROR"}
CatalogStmt == [result : CatalogResults, status : CatalogStatuses, error : CatalogErrors,
         catalog : BOOLEAN,
         internal : Int]
CatalogAnswer == [ret : {"SUCCESS", "ERROR"}, stmt : CatalogStmt]

\* an answer as the entries rely on it; only the foreign keys may crash instead
Good(r) ==
  /\ r \in CatalogAnswer
  /\ r.ret = "ERROR" => r.stmt.error # Catalog!NoError
  /\ r.stmt.internal = 0
Crash(r) == r.ret = "crash" /\ r.stmt \in CatalogStmt

-----------------------------------------------------------------------------
(* The catalog functions.                                                    *)
(* The helpers keep a statement ready, or fail it properly.                  *)

LEMMA CatalogClearing ==
  ASSUME NEW st \in CatalogStmt, st.internal = 0
  PROVE  /\ Catalog!SC_clear_error(st) \in CatalogStmt
         /\ Catalog!SC_clear_error(st).internal = 0
         /\ Catalog!SC_clear_error(st).result = st.result
  BY DEF CatalogStmt, CatalogErrors, Catalog!SC_clear_error, Catalog!NoError

LEMMA CatalogRecycling ==
  ASSUME NEW st \in CatalogStmt, st.internal = 0
  PROVE  /\ Catalog!SC_initialize_and_recycle(st) \in CatalogStmt
         /\ Catalog!SC_initialize_and_recycle(st).internal = 0
<1>1. NoPointer \in CatalogResults
  BY DEF CatalogResults
<1> QED BY <1>1
           DEF CatalogStmt, CatalogStatuses, CatalogErrors, Catalog!SC_clear_error,
               Catalog!SC_initialize_and_recycle, Catalog!NoError

LEMMA CatalogFinishing ==
  ASSUME NEW st \in CatalogStmt, st.internal = 0
  PROVE  Catalog!Finished(st) \in CatalogStmt /\ Catalog!Finished(st).internal = 0
  BY DEF CatalogStmt, CatalogStatuses, Catalog!Finished

LEMMA CatalogSetting ==
  ASSUME NEW st \in CatalogStmt, st.internal = 0, NEW of \in CatalogKinds, NEW rows \in CatalogRows
  PROVE  LET t == [st EXCEPT !.result = [of |-> of, rows |-> rows], !.catalog = TRUE]
         IN t \in CatalogStmt /\ t.internal = 0
<1>1. [of |-> of, rows |-> rows] \in CatalogResults
  BY DEF CatalogResults
<1> QED BY <1>1 DEF CatalogStmt

LEMMA CatalogFailing ==
  ASSUME NEW st \in CatalogStmt, st.internal = 0, NEW number \in CatalogErrors, number # Catalog!NoError
  PROVE  Good(Catalog!Fail(st, number)) /\ Catalog!Fail(st, number).ret = "ERROR"
         /\ Catalog!Fail(st, number).stmt.result = st.result
  BY DEF Good, CatalogStmt, CatalogAnswer, Catalog!Fail

LEMMA CatalogSucceeding ==
  ASSUME NEW st \in CatalogStmt, st.internal = 0
  PROVE  Good(Catalog!Success(st))
  BY DEF Good, CatalogAnswer, Catalog!Success

LEMMA Querying ==
  ASSUME NEW st \in CatalogStmt, st.internal = 0, NEW of \in CatalogKinds, NEW rows \in CatalogRows
  PROVE  Good(Catalog!CatalogQuery(st, of, rows))
<1> DEFINE t == Catalog!SC_initialize_and_recycle(st)
           u == Catalog!Finished(t)
           w == [u EXCEPT !.result = [of |-> of, rows |-> rows], !.catalog = TRUE]
<1>1. t \in CatalogStmt /\ t.internal = 0
  BY CatalogRecycling
<1>2. u \in CatalogStmt /\ u.internal = 0
  BY <1>1, CatalogFinishing
<1>3. w \in CatalogStmt /\ w.internal = 0
  BY <1>2, CatalogSetting
<1> QED BY <1>3, CatalogSucceeding DEF Catalog!CatalogQuery

LEMMA Sending ==
  ASSUME NEW st \in CatalogStmt, st.internal = 0, NEW query
  PROVE  Good(Catalog!CC_send_query(st, query))
  BY CatalogFailing DEF Catalog!CC_send_query, CatalogErrors, Catalog!NoError

LEMMA CatalogExecuting ==
  ASSUME NEW st \in CatalogStmt, st.internal = 0, NEW query
  PROVE  Good(Catalog!ExecDirect(st, query))
<1>1. /\ Catalog!FreeStmt(Catalog!AllocStmt(st)) \in CatalogStmt
      /\ Catalog!FreeStmt(Catalog!AllocStmt(st)).internal = 0
  <2>1. Catalog!AllocStmt(st) \in CatalogStmt /\ Catalog!AllocStmt(st).internal = 1
    BY DEF CatalogStmt, Catalog!AllocStmt
  <2> QED BY <2>1 DEF CatalogStmt, Catalog!FreeStmt
<1>2. /\ Catalog!Finished(Catalog!FreeStmt(Catalog!AllocStmt(st))) \in CatalogStmt
      /\ Catalog!Finished(Catalog!FreeStmt(Catalog!AllocStmt(st))).internal = 0
  BY <1>1, CatalogFinishing
<1> QED BY <1>2, CatalogFailing DEF Catalog!ExecDirect, CatalogErrors, Catalog!NoError

LEMMA Requiring ==
  ASSUME NEW st \in CatalogStmt, st.internal = 0
  PROVE  Good(Catalog!TableRequired(st))
  BY DEF Good, CatalogStmt, CatalogAnswer, CatalogErrors, Catalog!TableRequired, Catalog!NoError

-----------------------------------------------------------------------------
(* Every function answers properly, whatever the server holds.               *)

LEMMA FromServerTyped ==
  ASSUME server \in Catalog!Servers, NEW names
  PROVE  /\ Catalog!FromServer(server.tables) \in CatalogRows
         /\ Catalog!FromServer(server.tables \cap names) \in CatalogRows
         /\ Catalog!FromServer(server.keyed \cap names) \in CatalogRows
  BY DEF Catalog!Servers, Catalog!FromServer, CatalogRows

LEMMA AnsweredByServer ==
  ASSUME server \in Catalog!Servers, NEW st \in CatalogStmt, st.internal = 0, NEW call
  PROVE  /\ Good(Catalog!PGAPI_Tables(st, call))
         /\ Good(Catalog!PGAPI_Columns(st, call))
         /\ Good(Catalog!PGAPI_PrimaryKeys(st, call))
<1>1. {<<"__VERSAPLEX">>} \in CatalogRows
  BY DEF CatalogRows
<1>2. Good(Catalog!PGAPI_Tables(st, call))
  BY <1>1, FromServerTyped, Querying DEF CatalogKinds, Catalog!PGAPI_Tables
<1>3. Good(Catalog!PGAPI_Columns(st, call))
  BY FromServerTyped, Querying DEF CatalogKinds, Catalog!PGAPI_Columns
<1>4. Good(Catalog!PGAPI_PrimaryKeys(st, call))
  BY FromServerTyped, Querying DEF CatalogKinds, Catalog!PGAPI_PrimaryKeys
<1> QED BY <1>2, <1>3, <1>4

LEMMA BeginningEmpty ==
  ASSUME NEW st \in CatalogStmt, st.internal = 0, NEW of \in CatalogKinds
  PROVE  LET t == [Catalog!SC_initialize_and_recycle(st) EXCEPT !.result = Catalog!Empty(of), !.catalog = TRUE]
         IN t \in CatalogStmt /\ t.internal = 0
<1>1. {} \in CatalogRows
  BY DEF CatalogRows
<1>2. Catalog!SC_initialize_and_recycle(st) \in CatalogStmt /\ Catalog!SC_initialize_and_recycle(st).internal = 0
  BY CatalogRecycling
<1> QED BY <1>1, <1>2, CatalogSetting DEF Catalog!Empty

LEMMA NeverSent ==
  ASSUME NEW st \in CatalogStmt, st.internal = 0, NEW call
  PROVE  /\ Good(Catalog!PGAPI_SpecialColumns(st, call))
         /\ Good(Catalog!PGAPI_ColumnPrivileges(st, call))
         /\ Good(Catalog!PGAPI_TablePrivileges(st, call))
         /\ Good(Catalog!PGAPI_ProcedureColumns(st, call))
         /\ Good(Catalog!PGAPI_Procedures(st, call))
<1> DEFINE s1 == Catalog!SC_initialize_and_recycle(st)
<1>1. s1 \in CatalogStmt /\ s1.internal = 0
  BY CatalogRecycling
<1>2. Good(Catalog!PGAPI_SpecialColumns(st, call))
  BY <1>1, Requiring, CatalogExecuting DEF Catalog!PGAPI_SpecialColumns
<1>3. Good(Catalog!PGAPI_ColumnPrivileges(st, call))
  BY <1>1, Sending DEF Catalog!PGAPI_ColumnPrivileges
<1>4. Good(Catalog!PGAPI_TablePrivileges(st, call))
  BY BeginningEmpty, CatalogFinishing, Sending DEF CatalogKinds, Catalog!PGAPI_TablePrivileges
<1>5. Good(Catalog!PGAPI_ProcedureColumns(st, call))
  BY <1>1, Sending DEF Catalog!PGAPI_ProcedureColumns
<1>6. Good(Catalog!PGAPI_Procedures(st, call))
  BY <1>1, Sending DEF Catalog!PGAPI_Procedures
<1> QED BY <1>2, <1>3, <1>4, <1>5, <1>6

LEMMA StatisticsGood ==
  ASSUME NEW st \in CatalogStmt, st.internal = 0, NEW call
  PROVE  Good(Catalog!PGAPI_Statistics(st, call))
<1> DEFINE s1 == Catalog!SC_initialize_and_recycle(st)
           s2 == [s1 EXCEPT !.result = Catalog!Empty("statistics"), !.catalog = TRUE]
<1>1. Good(Catalog!TableRequired(s1))
  BY CatalogRecycling, Requiring
<1>2. s2 \in CatalogStmt /\ s2.internal = 0
  BY BeginningEmpty DEF CatalogKinds
<1>3. Good(Catalog!Success(Catalog!Finished(s2)))
  BY <1>2, CatalogFinishing, CatalogSucceeding
<1>4. \A query : Good(Catalog!ExecDirect(s2, query))
  BY <1>2, CatalogExecuting
<1> QED BY <1>1, <1>3, <1>4 DEF Catalog!PGAPI_Statistics

LEMMA ForeignKeysFail ==
  ASSUME NEW st \in CatalogStmt, st.internal = 0, NEW call
  PROVE  LET r == Catalog!PGAPI_ForeignKeys(st, call)
         IN (Good(r) /\ r.ret = "ERROR") \/ Crash(r)
<1> DEFINE t == [Catalog!SC_initialize_and_recycle(st) EXCEPT
                   !.result = Catalog!Empty("foreign keys"), !.catalog = TRUE]
           s1 == Catalog!Finished(t)
           from == Catalog!MakeString(call.fk)
           to == Catalog!MakeString(call.tb)
           Failed(r) == Good(r) /\ r.ret = "ERROR"
<1>1. s1 \in CatalogStmt /\ s1.internal = 0
  BY BeginningEmpty, CatalogFinishing DEF CatalogKinds
<1>2. \A query : Failed(Catalog!ExecDirect(s1, query))
  BY <1>1, CatalogExecuting DEF Catalog!ExecDirect, Catalog!Fail
<1>3. Failed(Catalog!Fail(s1, "INTERNAL_ERROR"))
  BY <1>1, CatalogFailing DEF CatalogErrors, Catalog!NoError
<1>4. Crash([ret |-> "crash", stmt |-> Catalog!AllocStmt(s1)])
  BY <1>1 DEF Crash, CatalogStmt, Catalog!AllocStmt
<1>5. CASE from \notin {NoPointer, <<>>}
  BY <1>5, <1>2 DEF Catalog!PGAPI_ForeignKeys
<1>6. CASE from \in {NoPointer, <<>>} /\ to = NoPointer
  BY <1>6, <1>3, <1>4 DEF Catalog!PGAPI_ForeignKeys
<1>7. CASE from \in {NoPointer, <<>>} /\ to # NoPointer /\ to = <<>>
  BY <1>7, <1>3 DEF Catalog!PGAPI_ForeignKeys
<1>8. CASE from \in {NoPointer, <<>>} /\ to # NoPointer /\ to # <<>>
  BY <1>8, <1>2 DEF Catalog!PGAPI_ForeignKeys
<1> QED BY <1>5, <1>6, <1>7, <1>8

LEMMA PgapiGood ==
  ASSUME server \in Catalog!Servers, NEW st \in CatalogStmt, st.internal = 0,
         NEW call, call.fn \in CatalogFunctions
  PROVE  LET r == Catalog!Pgapi(st, call)
         IN \/ Good(r) /\ (r.ret = "SUCCESS" => call.fn # "ForeignKeys")
            \/ Crash(r) /\ call.fn = "ForeignKeys"
<1>1. CASE call.fn = "ForeignKeys"
  BY <1>1, ForeignKeysFail DEF Catalog!Pgapi
<1>2. CASE call.fn # "ForeignKeys"
  BY <1>2, AnsweredByServer, NeverSent, StatisticsGood DEF CatalogFunctions, Catalog!Pgapi
<1> QED BY <1>1, <1>2

-----------------------------------------------------------------------------
(* The calls                                                                 *)

IsCall(call) == call.fn \in CatalogFunctions /\ "fn" \in DOMAIN call

LEMMA EntriesCall ==
  ASSUME NEW args \in Catalog!Calls \cup Catalog!Referring, NEW fn \in CatalogFunctions
  PROVE  IsCall(Catalog!Plain(fn, args)) /\ IsCall(Catalog!Patterned(fn, args))
<1>1. ASSUME NEW a \in Catalog!Calls PROVE "fn" \in DOMAIN a
  <2>1. PICK tb \in Args :
          a = [fn |-> "", ct |-> Catalog!NullArg, sc |-> Catalog!NullArg, tb |-> tb, cl |-> Catalog!NullArg,
               fk |-> Catalog!NullArg, pattern |-> FALSE]
    BY DEF Catalog!Calls
  <2>2. DOMAIN a = {"fn", "ct", "sc", "tb", "cl", "fk", "pattern"}
    BY <2>1
  <2> QED BY <2>2
<1>2. "fn" \in DOMAIN args
  BY <1>1 DEF Catalog!Referring
<1> QED BY <1>2 DEF IsCall, Catalog!Plain, Catalog!Patterned

LEMMA NamesOnly ==
  ASSUME NEW call, IsCall(call), NEW names, "fn" \notin names
  PROVE  /\ Catalog!Lowered(call, names).fn = call.fn
         /\ [n \in DOMAIN call |->
               IF n \in names THEN Catalog!Narrowed(call[n], Catalog!SC_is_lower_case) ELSE call[n]].fn = call.fn
  BY DEF IsCall, Catalog!Lowered

-----------------------------------------------------------------------------
(* The invariant of the catalog functions                                    *)

\* what Asked makes
IsAsked ==
  asked = [stage |-> asked.stage, fn |-> asked.fn, tb |-> asked.tb, again |-> asked.again,
           ret |-> asked.ret, open |-> asked.open, first |-> asked.first]
Pending ==
  /\ IsAsked
  /\ ~Catalog!SC_opencheck(stmt)
  /\ asked.again.fn \in CatalogFunctions \ {"ForeignKeys"}
CatalogInv ==
  /\ stmt \in CatalogStmt
  /\ server \in Catalog!Servers
  /\ asked # Catalog!Crashed => stmt.internal = 0
  /\ Catalog!At("pending") => Pending

LEMMA InitCatalog == Catalog!Init => CatalogInv
<1>1. NoPointer \in CatalogResults
  BY DEF CatalogResults
<1> QED BY <1>1
           DEF Catalog!Init, CatalogInv, CatalogStmt, CatalogStatuses, CatalogErrors,
               Catalog!NoError, Catalog!At, Catalog!Idle

\* what a call that returns establishes
LEMMA ReturnsWell ==
  ASSUME NEW call, NEW r, Catalog!Returns(call, r), Good(r) \/ Crash(r), server \in Catalog!Servers,
         Catalog!SC_opencheck(stmt) => r.ret = "ERROR" /\ r.stmt.result = stmt.result
  PROVE  CatalogInv' /\ Catalog!Told
<1>1. CASE Crash(r)
  BY <1>1
     DEF Catalog!Returns, Crash, CatalogInv, Catalog!Told, Catalog!Returning, Catalog!At,
         Catalog!Crashed
<1>2. CASE Good(r)
  <2>1. /\ asked'.stage = "returned" /\ asked'.ret = r.ret
        /\ stmt' = r.stmt /\ server' = server
    BY <1>2 DEF Catalog!Returns, Good, CatalogAnswer, Catalog!Asked
  <2> QED BY <1>2, <2>1
             DEF Good, CatalogAnswer, CatalogInv, Catalog!Told, Catalog!Returning,
                 Catalog!At, Catalog!Crashed
<1> QED BY <1>1, <1>2

LEMMA NarrowWell ==
  ASSUME CatalogInv, NEW call, IsCall(call), NEW names, "fn" \notin names, Catalog!Narrow(call, names)
  PROVE  CatalogInv' /\ Catalog!Told
<1> DEFINE st == Catalog!SC_clear_error(stmt)
           given == Catalog!Pgapi(st, call)
           folded == Catalog!Lowered(call, names)
           open == Catalog!SC_opencheck(stmt)
           success == ~open /\ given.ret = "SUCCESS"
           nothing == success /\ given.stmt.result # NoPointer /\ ~Catalog!SC_opencheck(given.stmt)
           r == IF open THEN Catalog!Fail(st, "SEQUENCE_ERROR")
                ELSE IF success /\ given.stmt.result = NoPointer THEN [given EXCEPT !.ret = "crash"]
                ELSE given
<1>1. asked = Catalog!Idle /\ stmt \in CatalogStmt /\ stmt.internal = 0 /\ server \in Catalog!Servers
  BY DEF Catalog!Narrow, CatalogInv, Catalog!Idle, Catalog!Crashed
<1>2. st \in CatalogStmt /\ st.internal = 0 /\ st.result = stmt.result
  BY <1>1, CatalogClearing
<1>3. \/ Good(given) /\ (given.ret = "SUCCESS" => call.fn # "ForeignKeys")
      \/ Crash(given) /\ call.fn = "ForeignKeys"
  BY <1>1, <1>2, PgapiGood DEF IsCall
<1>4. CASE nothing /\ folded # call
  <2>1. /\ asked' = Catalog!Asked("pending", call, folded, "none")
        /\ stmt' = given.stmt /\ server' = server
    BY <1>4 DEF Catalog!Narrow
  <2>2. asked'.again.fn \in CatalogFunctions \ {"ForeignKeys"}
    BY <1>3, <1>4, <2>1, NamesOnly DEF Crash, Catalog!Asked, IsCall
  <2>3. Good(given)
    BY <1>3, <1>4 DEF Crash
  <2> QED BY <1>1, <1>4, <2>1, <2>2, <2>3
             DEF Good, CatalogAnswer, CatalogInv, Pending, IsAsked, Catalog!Asked,
                 Catalog!At, Catalog!Told, Catalog!Returning, Catalog!SC_opencheck
<1>5. CASE ~(nothing /\ folded # call)
  <2>1. Catalog!Returns(call, r)
    BY <1>5 DEF Catalog!Narrow
  <2>2. CASE open
    BY <1>1, <1>2, <2>1, <2>2, CatalogFailing, ReturnsWell DEF CatalogErrors, Catalog!NoError
  <2>3. CASE ~open /\ success /\ given.stmt.result = NoPointer
    <3>1. Crash(r)
      BY <1>3, <2>3 DEF Crash, Good, CatalogAnswer
    <3> QED BY <1>1, <2>1, <2>3, <3>1, ReturnsWell
  <2>4. CASE ~open /\ ~(success /\ given.stmt.result = NoPointer)
    BY <1>1, <1>3, <2>1, <2>4, ReturnsWell
  <2> QED BY <2>2, <2>3, <2>4
<1> QED BY <1>4, <1>5

LEMMA WideWell ==
  ASSUME CatalogInv, NEW call, IsCall(call), NEW names, "fn" \notin names, Catalog!Wide(call, names)
  PROVE  CatalogInv' /\ Catalog!Told
<1> DEFINE st == Catalog!SC_clear_error(stmt)
           narrow == [n \in DOMAIN call |->
                        IF n \in names THEN Catalog!Narrowed(call[n], Catalog!SC_is_lower_case) ELSE call[n]]
           r == IF Catalog!SC_opencheck(stmt) THEN Catalog!Fail(st, "SEQUENCE_ERROR")
                ELSE Catalog!Pgapi(st, narrow)
<1>1. asked = Catalog!Idle /\ stmt \in CatalogStmt /\ stmt.internal = 0 /\ server \in Catalog!Servers
  BY DEF Catalog!Wide, CatalogInv, Catalog!Idle, Catalog!Crashed
<1>2. st \in CatalogStmt /\ st.internal = 0 /\ st.result = stmt.result
  BY <1>1, CatalogClearing
<1>3. narrow.fn \in CatalogFunctions
  BY NamesOnly DEF IsCall
<1>4. Catalog!Returns(narrow, r)
  BY DEF Catalog!Wide
<1>5. CASE Catalog!SC_opencheck(stmt)
  BY <1>1, <1>2, <1>4, <1>5, CatalogFailing, ReturnsWell DEF CatalogErrors, Catalog!NoError
<1>6. CASE ~Catalog!SC_opencheck(stmt)
  <2>1. Good(Catalog!Pgapi(st, narrow)) \/ Crash(Catalog!Pgapi(st, narrow))
    BY <1>1, <1>2, <1>3, PgapiGood
  <2> QED BY <1>1, <1>4, <1>6, <2>1, ReturnsWell
<1> QED BY <1>5, <1>6

LEMMA EntriesWell ==
  ASSUME CatalogInv
  PROVE  /\ \A args \in Catalog!Calls :
              Catalog!NarrowEntry(args) \/ Catalog!WideEntry(args) => CatalogInv' /\ Catalog!Told
         /\ \A args \in Catalog!Referring :
              Catalog!SQLForeignKeys(args) \/ Catalog!SQLForeignKeysW(args) => CatalogInv' /\ Catalog!Told
<1>1. "fn" \notin Catalog!Three /\ "fn" \notin Catalog!Four /\ "fn" \notin Catalog!Three \cup {"fk"}
  BY DEF Catalog!Three, Catalog!Four
<1>2. \A args \in Catalog!Calls \cup Catalog!Referring, fn \in CatalogFunctions :
        /\ IsCall(Catalog!Plain(fn, args))
        /\ IsCall(Catalog!Patterned(fn, args))
  BY EntriesCall
<1>3. ASSUME NEW args \in Catalog!Calls, Catalog!NarrowEntry(args)
      PROVE  CatalogInv' /\ Catalog!Told
  BY <1>1, <1>2, <1>3, NarrowWell
     DEF CatalogFunctions, Catalog!NarrowEntry, Catalog!SQLTables, Catalog!SQLColumns,
         Catalog!SQLPrimaryKeys, Catalog!SQLSpecialColumns, Catalog!SQLStatistics,
         Catalog!SQLColumnPrivileges, Catalog!SQLTablePrivileges,
         Catalog!SQLProcedureColumns, Catalog!SQLProcedures
<1>4. ASSUME NEW args \in Catalog!Calls, Catalog!WideEntry(args)
      PROVE  CatalogInv' /\ Catalog!Told
  BY <1>1, <1>2, <1>4, WideWell
     DEF CatalogFunctions, Catalog!WideEntry, Catalog!SQLTablesW, Catalog!SQLColumnsW,
         Catalog!SQLPrimaryKeysW, Catalog!SQLSpecialColumnsW, Catalog!SQLStatisticsW,
         Catalog!SQLColumnPrivilegesW, Catalog!SQLTablePrivilegesW,
         Catalog!SQLProcedureColumnsW, Catalog!SQLProceduresW
<1>5. ASSUME NEW args \in Catalog!Referring, Catalog!SQLForeignKeys(args)
      PROVE  CatalogInv' /\ Catalog!Told
  BY <1>1, <1>2, <1>5, NarrowWell DEF CatalogFunctions, Catalog!SQLForeignKeys
<1>6. ASSUME NEW args \in Catalog!Referring, Catalog!SQLForeignKeysW(args)
      PROVE  CatalogInv' /\ Catalog!Told
  BY <1>1, <1>2, <1>6, WideWell DEF CatalogFunctions, Catalog!SQLForeignKeysW
<1> QED BY <1>3, <1>4, <1>5, <1>6

LEMMA AskAgainWell ==
  ASSUME CatalogInv, Catalog!AskAgain
  PROVE  CatalogInv' /\ Catalog!Told
<1> DEFINE r == Catalog!Pgapi(stmt, asked.again)
<1>1. /\ Pending /\ stmt \in CatalogStmt /\ server \in Catalog!Servers /\ stmt.internal = 0
  BY DEF Catalog!AskAgain, CatalogInv, Catalog!At, Catalog!Crashed
<1>2. Good(r)
  BY <1>1, PgapiGood DEF Pending
<1>3. asked'.stage = "returned" /\ asked'.ret = r.ret /\ stmt' = r.stmt /\ server' = server
  BY <1>1 DEF Catalog!AskAgain, Pending, IsAsked
<1> QED BY <1>1, <1>2, <1>3
        DEF Good, CatalogAnswer, CatalogInv, Pending, Catalog!Told, Catalog!Returning, Catalog!At

LEMMA RestWell ==
  ASSUME CatalogInv, Catalog!Answered \/ Catalog!Close \/ Catalog!Others \/ UNCHANGED Catalog!vars
  PROVE  CatalogInv' /\ [Catalog!Told]_(Catalog!vars)
<1>1. CASE Catalog!Answered
  BY <1>1
     DEF Catalog!Answered, CatalogInv, Catalog!Told, Catalog!Returning, Catalog!At,
         Catalog!Idle, Catalog!Crashed
<1>2. CASE Catalog!Close
  <2>1. asked = Catalog!Idle /\ stmt \in CatalogStmt /\ stmt.internal = 0
    BY <1>2 DEF Catalog!Close, CatalogInv, Catalog!Idle, Catalog!Crashed
  <2>2. stmt' \in CatalogStmt /\ stmt'.internal = 0
    BY <1>2, <2>1, CatalogClearing, CatalogRecycling DEF Catalog!Close
  <2> QED BY <1>2, <2>1, <2>2
             DEF Catalog!Close, CatalogInv, Catalog!Told, Catalog!Returning, Catalog!At,
                 Catalog!Idle
<1>3. CASE Catalog!Others
  BY <1>3
     DEF Catalog!Others, CatalogInv, Pending, IsAsked, Catalog!SC_opencheck, Catalog!Told,
         Catalog!Returning, Catalog!At, Catalog!Idle
<1>4. CASE UNCHANGED Catalog!vars
  BY <1>4 DEF Catalog!vars, CatalogInv, Pending, IsAsked, Catalog!SC_opencheck, Catalog!At
<1> QED BY <1>1, <1>2, <1>3, <1>4

LEMMA NextCatalog ==
  CatalogInv /\ [Catalog!Next]_(Catalog!vars) => CatalogInv' /\ [Catalog!Told]_(Catalog!vars)
  BY EntriesWell, AskAgainWell, RestWell DEF Catalog!Next

-----------------------------------------------------------------------------
(* Names are found unless they are absent.                                   *)

ByName == {"Columns", "PrimaryKeys"}
Held(fn, sv) == IF fn = "Columns" THEN sv.tables ELSE sv.keyed

\* a second question is about a sought that was not there, by its lower-case one
Refolded ==
  LET sought == asked.tb.ptr
  IN /\ asked.again.fn = asked.fn
     /\ Catalog!CString(asked.again.tb) = Catalog!ToLower(sought)
     /\ Catalog!MayFold(sought)
     /\ asked.first.up => sought \notin Held(asked.fn, asked.first)

FoundInv ==
  /\ Catalog!FoundUnlessAbsent
  /\ Catalog!At("pending") /\ asked.fn \in ByName /\ Catalog!WholeName(asked.tb) => Refolded

LEMMA AnswerIs ==
  ASSUME server \in Catalog!Servers, NEW st \in CatalogStmt, st.internal = 0, NEW call, call.fn \in ByName
  PROVE  LET r == Catalog!Pgapi(st, call)
         IN /\ r.ret = "SUCCESS"
            /\ r.stmt.result.rows =
                 Catalog!FromServer(Held(call.fn, server) \cap {Catalog!CString(call.tb)})
<1> DEFINE t == Catalog!SC_initialize_and_recycle(st)
           u == Catalog!Finished(t)
<1>1. u \in CatalogStmt
  BY CatalogRecycling, CatalogFinishing
<1>2. ASSUME NEW of, NEW rows
      PROVE  LET r == Catalog!CatalogQuery(st, of, rows)
             IN r.ret = "SUCCESS" /\ r.stmt.result.rows = rows
  BY <1>1 DEF CatalogStmt, Catalog!CatalogQuery, Catalog!Success
<1>3. CASE call.fn = "Columns"
  BY <1>2, <1>3 DEF Catalog!Pgapi, Catalog!PGAPI_Columns, Held
<1>4. CASE call.fn = "PrimaryKeys"
  BY <1>2, <1>4 DEF Catalog!Pgapi, Catalog!PGAPI_PrimaryKeys, Held
<1>5. QED BY <1>3, <1>4 DEF ByName

LEMMA FoldedText ==
  ASSUME Catalog!TextsKnown, NEW text \in Seq(STRING)
  PROVE  /\ Catalog!ToLower(text) \in Seq(STRING)
         /\ Catalog!ToLower(text) # NoPointer
<1> DEFINE f(i) == IF text[i] \in Catalog!Upper THEN LowerOf[text[i]] ELSE text[i]
<1>1. Len(text) \in Nat /\ DOMAIN text = 1..Len(text)
  BY LenProperties
<1>2. \A i \in 1..Len(text) : f(i) \in STRING
  BY <1>1, ElementOfSeq DEF Catalog!TextsKnown
<1> HIDE DEF f
<1>3. [i \in 1..Len(text) |-> f(i)] \in Seq(STRING)
  BY <1>1, <1>2, IsASeq
<1>4. Catalog!ToLower(text) = [i \in 1..Len(text) |-> f(i)]
  BY <1>1 DEF Catalog!ToLower, f
<1>5. QED BY <1>3, <1>4 DEF Catalog!TextsKnown

LEMMA NothingToFold == ASSUME Catalog!TextsKnown PROVE \A b : Catalog!Folded(Catalog!NullArg, b) = Catalog!NullArg
<1>1. Catalog!ToLower(<<>>) = <<>>
  <2>1. <<>> \in Seq(STRING) /\ DOMAIN <<>> = 1..0
    BY EmptySeq
  <2>2. Catalog!ToLower(<<>>) \in Seq(STRING)
    BY <2>1, FoldedText
  <2>3. DOMAIN Catalog!ToLower(<<>>) = 1..0
    BY <2>1 DEF Catalog!ToLower
  <2>4. QED BY <2>2, <2>3, EmptySeq, LenProperties
<1>2. QED BY <1>1 DEF Catalog!Folded, Catalog!MakeLstringIfNeeded, Catalog!NullArg

LEMMA FoldsWhole ==
  ASSUME Catalog!TextsKnown, NEW arg \in Args, Catalog!WholeName(arg)
  PROVE  LET folded == Catalog!Folded(arg, ~Catalog!SC_is_lower_case)
         IN IF Catalog!MayFold(arg.ptr)
            THEN Catalog!CString(folded) = Catalog!ToLower(arg.ptr) /\ folded # arg
            ELSE folded = arg
<1>1. arg \in [ptr : {NoPointer} \cup Seq(STRING), cb : Int] /\ arg.ptr \in Seq(STRING) /\ arg.ptr # NoPointer
  BY DEF Catalog!TextsKnown, Catalog!WholeName
<1>2. Catalog!Given(arg) = arg.ptr
  BY <1>1 DEF Catalog!WholeName, Catalog!Given, Catalog!SQL_NTS, Catalog!SQL_NULL_DATA
<1>3. Catalog!MakeLstringIfNeeded(arg, ~Catalog!SC_is_lower_case) =
        IF Catalog!MayFold(arg.ptr) THEN Catalog!ToLower(arg.ptr) ELSE NoPointer
  BY <1>1, <1>2 DEF Catalog!MakeLstringIfNeeded, Catalog!MayFold
<1>4. Catalog!ToLower(arg.ptr) # NoPointer
  BY <1>1, FoldedText
<1>5. CASE Catalog!MayFold(arg.ptr)
  <2>1. Catalog!Folded(arg, ~Catalog!SC_is_lower_case) = [arg EXCEPT !.ptr = Catalog!ToLower(arg.ptr)]
    BY <1>3, <1>4, <1>5 DEF Catalog!Folded
  <2>2. Catalog!ToLower(arg.ptr) # arg.ptr
    BY <1>5 DEF Catalog!MayFold
  <2>3. QED BY <1>1, <1>4, <1>5, <2>1, <2>2 DEF Catalog!CString
<1>6. CASE ~Catalog!MayFold(arg.ptr)
  BY <1>3, <1>6 DEF Catalog!Folded
<1>7. QED BY <1>5, <1>6

\* what a call of SQLColumns or SQLPrimaryKeys looks like
CallFields == {"fn", "ct", "sc", "tb", "cl", "fk", "pattern"}
NameCall(call) ==
  /\ call = [n \in CallFields |-> call[n]]
  /\ \A n \in {"ct", "sc", "cl"} : call[n] = Catalog!NullArg

LEMMA CallsAre ==
  ASSUME NEW args \in Catalog!Calls, NEW fn
  PROVE  /\ NameCall(Catalog!Plain(fn, args)) /\ NameCall(Catalog!Patterned(fn, args))
         /\ Catalog!Plain(fn, args).fn = fn /\ Catalog!Patterned(fn, args).fn = fn
         /\ Catalog!Plain(fn, args).tb \in Args /\ Catalog!Patterned(fn, args).tb \in Args
<1>1. PICK tb \in Args :
          args = [fn |-> "", ct |-> Catalog!NullArg, sc |-> Catalog!NullArg, tb |-> tb,
                  cl |-> Catalog!NullArg, fk |-> Catalog!NullArg, pattern |-> FALSE]
  BY DEF Catalog!Calls
<1>2. /\ DOMAIN args = CallFields /\ args.tb \in Args
      /\ \A n \in {"ct", "sc", "cl"} : args[n] = Catalog!NullArg
  <2>1. DOMAIN args = CallFields
    BY <1>1 DEF CallFields
  <2>2. args.tb \in Args
    BY <1>1
  <2>3. args.ct = Catalog!NullArg /\ args.sc = Catalog!NullArg /\ args.cl = Catalog!NullArg
    BY <1>1
  <2>4. QED BY <2>1, <2>2, <2>3
<1>3. ASSUME NEW p
      PROVE  LET call == [args EXCEPT !.fn = fn, !.pattern = p]
             IN NameCall(call) /\ call.fn = fn /\ call.tb \in Args
  BY <1>2 DEF NameCall, CallFields
<1>4. QED BY <1>3 DEF Catalog!Plain, Catalog!Patterned

LEMMA LoweredCall ==
  ASSUME Catalog!TextsKnown, NEW call, NameCall(call), call.tb \in Args, Catalog!WholeName(call.tb),
         NEW names \in {Catalog!Three, Catalog!Four}
  PROVE  LET folded == Catalog!Lowered(call, names)
         IN /\ folded.fn = call.fn
            /\ folded.tb = Catalog!Folded(call.tb, ~Catalog!SC_is_lower_case)
            /\ folded.tb = call.tb => folded = call
<1> DEFINE folded == Catalog!Lowered(call, names)
<1>1. DOMAIN call = CallFields
  BY DEF NameCall
<1>2. /\ "tb" \in names /\ "fn" \notin names /\ "pattern" \notin names /\ "fk" \notin names
  BY DEF Catalog!Three, Catalog!Four
<1>3. folded.fn = call.fn /\ folded.tb = Catalog!Folded(call.tb, ~Catalog!SC_is_lower_case)
  BY <1>1, <1>2 DEF Catalog!Lowered, CallFields
<1>4. ASSUME folded.tb = call.tb PROVE folded = call
  <2>1. \A n \in {"ct", "sc", "cl"} : call[n] = Catalog!NullArg
    BY DEF NameCall
  <2>2. \A n \in DOMAIN call :
          (IF n \in names THEN Catalog!Folded(call[n], ~Catalog!SC_is_lower_case) ELSE call[n]) = call[n]
    BY <1>1, <1>2, <1>3, <1>4, <2>1, NothingToFold
       DEF CallFields, Catalog!Three, Catalog!Four
  <2>3. folded = [n \in DOMAIN call |-> call[n]]
    BY <2>2 DEF Catalog!Lowered
  <2>4. call = [n \in DOMAIN call |-> call[n]]
    BY DEF NameCall
  <2>5. QED BY <2>3, <2>4
<1>5. QED BY <1>3, <1>4

\* a call that returns without another question
LEMMA ReturnsFound ==
  ASSUME NEW call, NEW r, Catalog!Returns(call, r),
         call.fn \in ByName /\ Catalog!WholeName(call.tb) /\ ~Catalog!SC_opencheck(stmt) /\ server.up
           /\ r.ret # "crash" =>
             /\ r.ret = "SUCCESS"
             /\ r.stmt.result.rows = Held(call.fn, server) \cap {call.tb.ptr}
             /\ call.tb.ptr \in Held(call.fn, server) \/ ~Catalog!MayFold(call.tb.ptr)
  PROVE  FoundInv'
<1>1. CASE r.ret = "crash"
  BY <1>1 DEF Catalog!Returns, FoundInv, Catalog!FoundUnlessAbsent, Catalog!At, Catalog!Crashed
<1>2. CASE r.ret # "crash"
  <2>1. /\ asked' = Catalog!Asked("returned", call, call, r.ret)
        /\ stmt' = r.stmt /\ server' = server /\ conn' = conn
    BY <1>2 DEF Catalog!Returns
  <2>2. /\ asked'.stage = "returned" /\ asked'.fn = call.fn /\ asked'.tb = call.tb
        /\ asked'.ret = r.ret /\ asked'.open = Catalog!SC_opencheck(stmt) /\ asked'.first = server
    BY <2>1 DEF Catalog!Asked
  <2>3. ASSUME call.fn \in ByName, Catalog!WholeName(call.tb), ~Catalog!SC_opencheck(stmt), server.up
        PROVE  LET sought == call.tb.ptr
               IN /\ r.ret = "SUCCESS"
                  /\ r.stmt.result.rows =
                       (Held(call.fn, server) \cap {sought}) \cup
                         (IF sought \notin Held(call.fn, server) /\ Catalog!MayFold(sought)
                          THEN Held(call.fn, server) \cap {Catalog!ToLower(sought)} ELSE {})
    BY <1>2, <2>3
  <2>4. Catalog!FoundUnlessAbsent'
    BY <2>1, <2>2, <2>3
       DEF Catalog!FoundUnlessAbsent, Catalog!At, Held, ByName, Catalog!WholeName, Catalog!MayFold,
           Catalog!SC_is_lower_case
  <2>5. QED BY <2>2, <2>4 DEF FoundInv, Catalog!At
<1>3. QED BY <1>1, <1>2

LEMMA NarrowFinds ==
  ASSUME CatalogInv, FoundInv, Catalog!TextsKnown, NEW call, NEW names, Catalog!Narrow(call, names),
         call.fn \in ByName =>
           NameCall(call) /\ call.tb \in Args /\ names \in {Catalog!Three, Catalog!Four}
  PROVE  FoundInv'
<1> DEFINE st == Catalog!SC_clear_error(stmt)
           given == Catalog!Pgapi(st, call)
           folded == Catalog!Lowered(call, names)
           open == Catalog!SC_opencheck(stmt)
           success == ~open /\ given.ret = "SUCCESS"
           nothing == success /\ given.stmt.result # NoPointer /\ ~Catalog!SC_opencheck(given.stmt)
           r == IF open THEN Catalog!Fail(st, "SEQUENCE_ERROR")
                ELSE IF success /\ given.stmt.result = NoPointer THEN [given EXCEPT !.ret = "crash"]
                ELSE given
<1>1. stmt \in CatalogStmt /\ stmt.internal = 0 /\ server \in Catalog!Servers
  BY DEF Catalog!Narrow, CatalogInv, Catalog!Idle, Catalog!Crashed
<1>2. st \in CatalogStmt /\ st.internal = 0
  BY <1>1, CatalogClearing
<1>3. ASSUME call.fn \in ByName, Catalog!WholeName(call.tb)
      PROVE  /\ given.ret = "SUCCESS"
             /\ given.stmt.result.rows = Catalog!FromServer(Held(call.fn, server) \cap {call.tb.ptr})
             /\ folded.fn = call.fn
             /\ IF Catalog!MayFold(call.tb.ptr)
                THEN Catalog!CString(folded.tb) = Catalog!ToLower(call.tb.ptr) /\ folded # call
                ELSE folded = call
  <2>1. Catalog!CString(call.tb) = call.tb.ptr
    BY <1>3 DEF Catalog!CString, Catalog!WholeName
  <2>2. /\ given.ret = "SUCCESS"
        /\ given.stmt.result.rows = Catalog!FromServer(Held(call.fn, server) \cap {call.tb.ptr})
    BY <1>1, <1>2, <1>3, <2>1, AnswerIs
  <2>3. QED BY <1>3, <2>2, LoweredCall, FoldsWhole
<1>4. CASE nothing /\ folded # call
  <2>1. /\ asked' = Catalog!Asked("pending", call, folded, "none")
        /\ server' = server /\ conn' = conn
    BY <1>4 DEF Catalog!Narrow
  <2>2. /\ asked'.stage = "pending" /\ asked'.fn = call.fn /\ asked'.tb = call.tb
        /\ asked'.again = folded /\ asked'.first = server
    BY <2>1 DEF Catalog!Asked
  <2>3. ASSUME call.fn \in ByName, Catalog!WholeName(call.tb), server.up
        PROVE  call.tb.ptr \notin Held(call.fn, server)
    BY <1>3, <1>4, <2>3 DEF Catalog!SC_opencheck, Catalog!FromServer
  <2> HIDE DEF folded, nothing
  <2>4. Catalog!FoundUnlessAbsent'
    BY <2>2 DEF Catalog!FoundUnlessAbsent, Catalog!At
  <2>5. call.fn \in ByName /\ Catalog!WholeName(call.tb) => Refolded'
    BY <1>3, <1>4, <2>1, <2>2, <2>3
       DEF Refolded, Held, Catalog!MayFold, Catalog!SC_is_lower_case
  <2>6. QED BY <2>2, <2>4, <2>5 DEF FoundInv, Catalog!At, Catalog!WholeName
<1>5. CASE ~(nothing /\ folded # call)
  <2>1. Catalog!Returns(call, r)
    BY <1>5 DEF Catalog!Narrow
  <2>2. ASSUME call.fn \in ByName, Catalog!WholeName(call.tb), ~open, server.up, r.ret # "crash"
        PROVE  /\ r.ret = "SUCCESS"
               /\ r.stmt.result.rows = Held(call.fn, server) \cap {call.tb.ptr}
               /\ call.tb.ptr \in Held(call.fn, server) \/ ~Catalog!MayFold(call.tb.ptr)
    <3>1. given.ret = "SUCCESS"
          /\ given.stmt.result.rows = Held(call.fn, server) \cap {call.tb.ptr}
      BY <1>3, <2>2 DEF Catalog!FromServer
    <3>2. Good(given)
      <4>1. call.fn \in CatalogFunctions /\ call.fn # "ForeignKeys"
        BY <2>2 DEF ByName, CatalogFunctions
      <4>2. QED BY <1>1, <1>2, <4>1, PgapiGood
    <3>3. given.stmt.result # NoPointer /\ r = given
      BY <2>2, <3>1, <3>2 DEF Good, CatalogAnswer
    <3>4. Catalog!MayFold(call.tb.ptr) => call.tb.ptr \in Held(call.fn, server)
      BY <1>3, <1>5, <2>2, <3>1, <3>3 DEF Catalog!SC_opencheck
    <3>5. QED BY <3>1, <3>3, <3>4
  <2> HIDE DEF r
  <2>3. QED BY <2>1, <2>2, ReturnsFound
<1>6. QED BY <1>4, <1>5

LEMMA NarrowedLength ==
  ASSUME Catalog!TextsKnown, NEW arg \in Args, NEW lower
  PROVE  ~Catalog!WholeName(Catalog!Narrowed(arg, lower))
<1> DEFINE a == [arg EXCEPT !.cb = IF arg.ptr = NoPointer THEN Catalog!SQL_NULL_DATA ELSE @]
           text == Catalog!Given(a)
<1>1. arg \in [ptr : {NoPointer} \cup Seq(STRING), cb : Int]
  BY DEF Catalog!TextsKnown
<1>2. a.ptr = arg.ptr /\ a.cb \in Int /\ (arg.ptr = NoPointer => a.cb = Catalog!SQL_NULL_DATA)
  BY <1>1 DEF Catalog!SQL_NULL_DATA
<1> HIDE DEF a
<1>3. text = NoPointer \/ text \in Seq(STRING)
  <2>1. CASE a.ptr = NoPointer \/ a.cb = Catalog!SQL_NULL_DATA
    BY <2>1 DEF Catalog!Given, Catalog!SQL_NTS, Catalog!SQL_NULL_DATA
  <2>2. CASE a.ptr # NoPointer /\ a.cb # Catalog!SQL_NULL_DATA /\ a.cb = Catalog!SQL_NTS
    BY <1>1, <1>2, <2>2 DEF Catalog!Given
  <2>3. CASE a.ptr # NoPointer /\ a.cb # Catalog!SQL_NULL_DATA /\ a.cb # Catalog!SQL_NTS
    <3> DEFINE n == IF a.cb < Len(a.ptr) THEN a.cb ELSE Len(a.ptr)
    <3>1. a.ptr \in Seq(STRING) /\ Len(a.ptr) \in Nat
      BY <1>1, <1>2, <2>3, LenProperties
    <3>2. n \in Int /\ n <= Len(a.ptr)
      BY <1>2, <3>1
    <3> HIDE DEF n
    <3>3. \A i \in 1..n : a.ptr[i] \in STRING
      BY <3>1, <3>2, ElementOfSeq
    <3>4. SubSeq(a.ptr, 1, n) \in Seq(STRING)
      BY <3>2, <3>3, SubSeqProperties
    <3>5. QED BY <2>3, <3>4 DEF Catalog!Given, n
  <2>4. QED BY <2>1, <2>2, <2>3
<1>4. Catalog!Narrowed(arg, lower) =
        IF text = NoPointer THEN [ptr |-> NoPointer, cb |-> Catalog!SQL_NULL_DATA]
        ELSE [ptr |-> IF lower THEN Catalog!ToLower(text) ELSE text, cb |-> Len(text)]
  BY DEF Catalog!Narrowed, a
<1> HIDE DEF text
<1>5. text # NoPointer => Len(text) \in Nat
  BY <1>3, LenProperties
<1>6. QED BY <1>4, <1>5 DEF Catalog!WholeName, Catalog!SQL_NTS, Catalog!SQL_NULL_DATA

LEMMA WideFinds ==
  ASSUME Catalog!TextsKnown, NEW call, NEW names, Catalog!Wide(call, names),
         IsCall(call), "fn" \notin names,
         call.fn \in ByName =>
           NameCall(call) /\ call.tb \in Args /\ names \in {Catalog!Three, Catalog!Four}
  PROVE  FoundInv'
<1> DEFINE narrow == [n \in DOMAIN call |->
                        IF n \in names THEN Catalog!Narrowed(call[n], Catalog!SC_is_lower_case)
                        ELSE call[n]]
           r == IF Catalog!SC_opencheck(stmt) THEN Catalog!Fail(Catalog!SC_clear_error(stmt), "SEQUENCE_ERROR")
                ELSE Catalog!Pgapi(Catalog!SC_clear_error(stmt), narrow)
<1>1. Catalog!Returns(narrow, r)
  BY DEF Catalog!Wide
<1>2. narrow.fn = call.fn
  BY NamesOnly
<1>3. ASSUME call.fn \in ByName PROVE ~Catalog!WholeName(narrow.tb)
  <2>1. "tb" \in DOMAIN call /\ "tb" \in names
    BY <1>3 DEF NameCall, CallFields, Catalog!Three, Catalog!Four
  <2>2. narrow.tb = Catalog!Narrowed(call.tb, Catalog!SC_is_lower_case)
    BY <2>1
  <2>3. QED BY <1>3, <2>2, NarrowedLength
<1> HIDE DEF narrow, r
<1>4. QED BY <1>1, <1>2, <1>3, ReturnsFound

LEMMA AskAgainFinds ==
  ASSUME CatalogInv, FoundInv, Catalog!AskAgain
  PROVE  FoundInv'
<1> DEFINE r == Catalog!Pgapi(stmt, asked.again)
<1>1. /\ Pending /\ stmt \in CatalogStmt /\ server \in Catalog!Servers /\ stmt.internal = 0
      /\ Catalog!At("pending")
  BY DEF Catalog!AskAgain, CatalogInv, Catalog!At, Catalog!Crashed
<1>2. /\ asked'.stage = "returned" /\ asked'.ret = r.ret /\ asked'.fn = asked.fn /\ asked'.tb = asked.tb
      /\ asked'.first = asked.first /\ stmt' = r.stmt /\ server' = server /\ conn' = conn
  BY <1>1 DEF Catalog!AskAgain, Pending, IsAsked
<1>3. ASSUME asked.fn \in ByName, Catalog!WholeName(asked.tb), asked.first.up, server.up
      PROVE  LET sought == asked.tb.ptr
             IN /\ r.ret = "SUCCESS"
                /\ r.stmt.result.rows =
                       (Held(asked.fn, asked.first) \cap {sought}) \cup
                         (IF sought \notin Held(asked.fn, asked.first) /\ Catalog!MayFold(sought)
                          THEN Held(asked.fn, server) \cap {Catalog!ToLower(sought)} ELSE {})
  <2>1. Refolded
    BY <1>1, <1>3 DEF FoundInv
  <2>2. asked.tb.ptr \notin Held(asked.fn, asked.first) /\ Catalog!MayFold(asked.tb.ptr)
    BY <1>3, <2>1 DEF Refolded
  <2>3. asked.again.fn \in ByName /\ asked.again.fn = asked.fn
    BY <1>3, <2>1 DEF Refolded
  <2>4. Catalog!CString(asked.again.tb) = Catalog!ToLower(asked.tb.ptr)
    BY <2>1 DEF Refolded
  <2>5. r.ret = "SUCCESS"
        /\ r.stmt.result.rows = Held(asked.fn, server) \cap {Catalog!ToLower(asked.tb.ptr)}
    BY <1>1, <1>3, <2>3, <2>4, AnswerIs DEF Catalog!FromServer
  <2>6. QED BY <2>2, <2>5
<1> HIDE DEF r
<1>4. Catalog!FoundUnlessAbsent'
  BY <1>2, <1>3
     DEF Catalog!FoundUnlessAbsent, Catalog!At, Held, ByName, Catalog!WholeName, Catalog!MayFold,
         Catalog!SC_is_lower_case
<1>5. QED BY <1>2, <1>4 DEF FoundInv, Catalog!At

LEMMA RestFinds ==
  ASSUME FoundInv, Catalog!Answered \/ Catalog!Close \/ Catalog!Others \/ UNCHANGED Catalog!vars
  PROVE  FoundInv'
<1>1. CASE Catalog!Answered \/ Catalog!Close
  BY <1>1 DEF Catalog!Answered, Catalog!Close, FoundInv, Catalog!FoundUnlessAbsent, Catalog!At, Catalog!Idle
<1>2. CASE Catalog!Others
  BY <1>2 DEF Catalog!Others, FoundInv, Catalog!FoundUnlessAbsent, Catalog!At, Catalog!Idle, Refolded,
              Catalog!MayFold, Catalog!WholeName, Catalog!SC_is_lower_case, Held
<1>3. CASE UNCHANGED Catalog!vars
  BY <1>3 DEF Catalog!vars, FoundInv, Catalog!FoundUnlessAbsent, Catalog!At, Refolded,
              Catalog!MayFold, Catalog!WholeName, Catalog!SC_is_lower_case, Held
<1>4. QED BY <1>1, <1>2, <1>3

LEMMA EntriesFind ==
  ASSUME CatalogInv, FoundInv, Catalog!TextsKnown
  PROVE  /\ \A args \in Catalog!Calls : Catalog!NarrowEntry(args) \/ Catalog!WideEntry(args) => FoundInv'
         /\ \A args \in Catalog!Referring :
              Catalog!SQLForeignKeys(args) \/ Catalog!SQLForeignKeysW(args) => FoundInv'
<1> DEFINE Suits(call, names) ==
             call.fn \in ByName =>
               NameCall(call) /\ call.tb \in Args /\ names \in {Catalog!Three, Catalog!Four}
<1>1. "fn" \notin Catalog!Three /\ "fn" \notin Catalog!Four /\ "fn" \notin Catalog!Three \cup {"fk"}
  BY DEF Catalog!Three, Catalog!Four
<1>2. \A args \in Catalog!Calls \cup Catalog!Referring, fn \in CatalogFunctions :
        IsCall(Catalog!Plain(fn, args)) /\ IsCall(Catalog!Patterned(fn, args))
  BY EntriesCall
<1>3. \A args \in Catalog!Calls, fn \in CatalogFunctions, names \in {Catalog!Three, Catalog!Four} :
        Suits(Catalog!Plain(fn, args), names) /\ Suits(Catalog!Patterned(fn, args), names)
  BY CallsAre
<1>4. ASSUME NEW args \in Catalog!Referring
      PROVE  Catalog!Plain("ForeignKeys", args).fn = "ForeignKeys"
  <2>1. PICK a \in Catalog!Calls, fk \in Args : args = [a EXCEPT !.fk = fk]
    BY DEF Catalog!Referring
  <2>2. PICK tb \in Args :
          a = [fn |-> "", ct |-> Catalog!NullArg, sc |-> Catalog!NullArg, tb |-> tb,
               cl |-> Catalog!NullArg, fk |-> Catalog!NullArg, pattern |-> FALSE]
    BY DEF Catalog!Calls
  <2>3. QED BY <2>1, <2>2 DEF Catalog!Plain
<1>5. ASSUME NEW call, NEW names, Suits(call, names), Catalog!Narrow(call, names) PROVE FoundInv'
  BY <1>5, NarrowFinds
<1>6. ASSUME NEW call, NEW names, Suits(call, names), IsCall(call), "fn" \notin names,
             Catalog!Wide(call, names)
      PROVE  FoundInv'
  BY <1>6, WideFinds
<1>7. ASSUME NEW args \in Catalog!Referring, NEW names PROVE Suits(Catalog!Plain("ForeignKeys", args), names)
  BY <1>4 DEF ByName
<1> HIDE DEF Suits
<1>8. ASSUME NEW args \in Catalog!Calls, Catalog!NarrowEntry(args) PROVE FoundInv'
  BY <1>3, <1>5, <1>8
     DEF CatalogFunctions, Catalog!NarrowEntry, Catalog!SQLTables, Catalog!SQLColumns,
         Catalog!SQLPrimaryKeys, Catalog!SQLSpecialColumns, Catalog!SQLStatistics,
         Catalog!SQLColumnPrivileges, Catalog!SQLTablePrivileges,
         Catalog!SQLProcedureColumns, Catalog!SQLProcedures
<1>9. ASSUME NEW args \in Catalog!Calls, Catalog!WideEntry(args) PROVE FoundInv'
  BY <1>1, <1>2, <1>3, <1>6, <1>9
     DEF CatalogFunctions, Catalog!WideEntry, Catalog!SQLTablesW, Catalog!SQLColumnsW,
         Catalog!SQLPrimaryKeysW, Catalog!SQLSpecialColumnsW, Catalog!SQLStatisticsW,
         Catalog!SQLColumnPrivilegesW, Catalog!SQLTablePrivilegesW,
         Catalog!SQLProcedureColumnsW, Catalog!SQLProceduresW
<1>10. ASSUME NEW args \in Catalog!Referring,
              Catalog!SQLForeignKeys(args) \/ Catalog!SQLForeignKeysW(args)
       PROVE  FoundInv'
  BY <1>1, <1>2, <1>5, <1>6, <1>7, <1>10
     DEF CatalogFunctions, Catalog!SQLForeignKeys, Catalog!SQLForeignKeysW
<1>11. QED BY <1>8, <1>9, <1>10

LEMMA InitFound == Catalog!Init => FoundInv
  BY DEF Catalog!Init, FoundInv, Catalog!FoundUnlessAbsent, Catalog!At, Catalog!Idle

LEMMA NextFound ==
  Catalog!TextsKnown /\ CatalogInv /\ FoundInv /\ [Catalog!Next]_(Catalog!vars) => FoundInv'
  BY EntriesFind, AskAgainFinds, RestFinds DEF Catalog!Next

-----------------------------------------------------------------------------
(* The diagnostics: the tables of states.                                    *)

Warnings == {"00000", "01S01", "01S02", "01001", "01S06", "01004"}

LEMMA StateRows ==
  /\ Len(Diagnostics!StatementSqlstate) = 40
  /\ \A i \in 1..40 :
       /\ Diagnostics!StatementSqlstate[i][1] \in Diagnostics!States /\ Diagnostics!StatementSqlstate[i][2] \in Diagnostics!States
       /\ Diagnostics!StatementSqlstate[i][1] \in Warnings <=> i <= 7
       /\ Diagnostics!StatementSqlstate[i][2] \in Warnings <=> i <= 7
<1>1. Len(Diagnostics!StatementSqlstate) = 40
  BY DEF Diagnostics!StatementSqlstate
<1>2. \A i \in 1..40 :
       /\ Diagnostics!StatementSqlstate[i][1] \in Diagnostics!States /\ Diagnostics!StatementSqlstate[i][2] \in Diagnostics!States
  BY DEF Diagnostics!States
<1>3. \A i \in 1..40 :
       /\ Diagnostics!StatementSqlstate[i][1] \in Warnings <=> i <= 7
       /\ Diagnostics!StatementSqlstate[i][2] \in Warnings <=> i <= 7
  BY SMTT(60) DEF Diagnostics!StatementSqlstate, Warnings
<1>4. QED BY <1>1, <1>2, <1>3

LEMMA StmtStates ==
  ASSUME NEW num \in Int, num >= Diagnostics!LOWEST_STMT_ERROR
  PROVE  Diagnostics!StmtState(num) \in Diagnostics!States /\ (num <= 0 <=> Diagnostics!StmtState(num) \in Warnings)
<1> DEFINE i == IF num + 7 \in 1..40 THEN num + 7 ELSE 8
<1>1. i \in 1..40 /\ (i <= 7 <=> num <= 0)
  BY DEF Diagnostics!LOWEST_STMT_ERROR
<1>2. Diagnostics!RowOf(Diagnostics!StatementSqlstate, Diagnostics!LOWEST_STMT_ERROR, num)
        = Diagnostics!StatementSqlstate[i]
  BY StateRows DEF Diagnostics!RowOf, Diagnostics!LOWEST_STMT_ERROR
<1> HIDE DEF i
<1>3. Diagnostics!StmtState(num) \in {Diagnostics!StatementSqlstate[i][1], Diagnostics!StatementSqlstate[i][2]}
  BY <1>2 DEF Diagnostics!StmtState, Diagnostics!PgSqlstateSet
<1>4. QED BY <1>1, <1>3, StateRows

LEMMA DescRows ==
  /\ Len(Diagnostics!DescriptorSqlstate) = 35
  /\ \A i \in 1..35 : Diagnostics!DescriptorSqlstate[i] = Diagnostics!StatementSqlstate[IF i <= 2 THEN i ELSE i + 4]
<1> DEFINE table == Diagnostics!StatementSqlstate
           a == SubSeq(table, 1, 2)
           b == SubSeq(table, 7, 39)
           S == {table[i] : i \in 1..40}
<1>1. \A i \in 1..40 : table[i] \in S
  OBVIOUS
<1>2. Diagnostics!DescriptorSqlstate = a \o b
  BY DEF Diagnostics!DescriptorSqlstate
<1> HIDE DEF table, S
<1>3. a \in Seq(S) /\ Len(a) = 2 /\ \A i \in 1..2 : a[i] = table[i]
  BY <1>1, SubSeqProperties
<1>4. b \in Seq(S) /\ Len(b) = 33 /\ \A i \in 1..33 : b[i] = table[i + 6]
  <2>1. b \in Seq(S) /\ Len(b) = 33 /\ \A i \in 1..33 : b[i] = table[7 + i - 1]
    BY <1>1, SubSeqProperties
  <2>2. QED BY <2>1
<1> HIDE DEF a, b
<1>5. /\ Len(a \o b) = Len(a) + Len(b)
      /\ \A i \in 1..(Len(a) + Len(b)) :
           (a \o b)[i] = IF i <= Len(a) THEN a[i] ELSE b[i - Len(a)]
  BY <1>3, <1>4, ConcatProperties
<1>6. ASSUME NEW i \in 1..35
      PROVE  (a \o b)[i] = table[IF i <= 2 THEN i ELSE i + 4]
  <2>1. (a \o b)[i] = IF i <= 2 THEN a[i] ELSE b[i - 2]
    <3>1. i \in 1..(Len(a) + Len(b)) /\ Len(a) = 2
      BY <1>3, <1>4
    <3>2. QED BY <1>5, <3>1
  <2>2. CASE i <= 2
    BY <1>3, <2>1, <2>2
  <2>3. CASE ~(i <= 2)
    <3>1. i - 2 \in 1..33 /\ i - 2 + 6 = i + 4
      BY <2>3
    <3>2. QED BY <1>4, <2>1, <2>3, <3>1
  <2>4. QED BY <2>2, <2>3
<1>7. Len(a \o b) = 35
  BY <1>3, <1>4, <1>5
<1>8. QED BY <1>2, <1>6, <1>7 DEF table

LEMMA DescStates ==
  ASSUME NEW num \in Int, num >= Diagnostics!LOWEST_DESC_ERROR
  PROVE  Diagnostics!DescState(num) \in Diagnostics!States /\ (num <= 0 <=> Diagnostics!DescState(num) \in Warnings)
<1> DEFINE j == IF num + 3 \in 1..35 THEN num + 3 ELSE 4
           i == IF j <= 2 THEN j ELSE j + 4
<1>1. j \in 1..35 /\ i \in 1..40 /\ (i <= 7 <=> num <= 0)
  BY DEF Diagnostics!LOWEST_DESC_ERROR
<1>2. Diagnostics!RowOf(Diagnostics!DescriptorSqlstate, Diagnostics!LOWEST_DESC_ERROR, num)
        = Diagnostics!DescriptorSqlstate[j]
  BY DescRows DEF Diagnostics!RowOf, Diagnostics!LOWEST_DESC_ERROR
<1>3. Diagnostics!DescriptorSqlstate[j] = Diagnostics!StatementSqlstate[i]
  BY <1>1, DescRows
<1> HIDE DEF i, j
<1>4. Diagnostics!DescState(num) \in {Diagnostics!StatementSqlstate[i][1], Diagnostics!StatementSqlstate[i][2]}
  BY <1>2, <1>3 DEF Diagnostics!DescState, Diagnostics!PgSqlstateSet
<1>5. QED BY <1>1, <1>4, StateRows

-----------------------------------------------------------------------------
(* Error records.                                                            *)

\* records, asked for (a size is fixed) or not
Made == Diagnostics!InfosOf(Int)
Judged(er) == er.status <= 0 <=> er.state \in Warnings

LEMMA InfosMade ==
  /\ Diagnostics!Infos = [status : Int, text : Seq(Diagnostics!Letters), state : Diagnostics!States, recsize : Nat]
  /\ Made = [status : Int, text : Seq(Diagnostics!Letters), state : Diagnostics!States, recsize : Int]
  /\ Diagnostics!Infos \subseteq Made
  BY DEF Diagnostics!Infos, Diagnostics!InfosOf, Made

LEMMA NeverNull ==
  ASSUME Diagnostics!ConstantsKnown
  PROVE  NoPointer \notin Seq(Diagnostics!Letters) /\ NoPointer \notin Made /\ NoPointer \notin Diagnostics!Infos
<1>1. NoPointer \notin Seq(Diagnostics!Letters) /\ NoPointer \notin Made
  BY DEF Diagnostics!ConstantsKnown, Made
<1>2. QED BY <1>1, InfosMade

LEMMA Requesting ==
  ASSUME NEW er \in Made, er.recsize >= -1, NEW cb \in Nat
  PROVE  /\ Diagnostics!RecSize(er, cb) \in Nat
         /\ Diagnostics!Requested(er, cb) \in Diagnostics!Infos
         /\ Diagnostics!Requested(er, cb).status = er.status
         /\ Diagnostics!Requested(er, cb).text = er.text
         /\ Diagnostics!Requested(er, cb).state = er.state
         /\ Diagnostics!Requested(er, cb).recsize = Diagnostics!RecSize(er, cb)
         /\ er.recsize >= 0 => Diagnostics!Requested(er, cb) = er
<1>1. Diagnostics!RecSize(er, cb) \in Nat /\ (er.recsize >= 0 => Diagnostics!RecSize(er, cb) = er.recsize)
  BY InfosMade DEF Diagnostics!RecSize, Diagnostics!DRVMNGRDIV
<1>2. QED BY <1>1, InfosMade DEF Diagnostics!Requested

LEMMA Constructing ==
  ASSUME NEW num \in Int, NEW text \in Seq(Diagnostics!Letters), text # NoPointer, NEW state \in Diagnostics!States
  PROVE  LET er == Diagnostics!ER_Constructor(num, text, state)
         IN /\ er \in Made /\ er.recsize = -1
            /\ er.status = num /\ er.text = text /\ er.state = state
  BY InfosMade DEF Diagnostics!ER_Constructor

\* what one request gives of a text, from the place where its piece begins
LEMMA Piecewise ==
  ASSUME NEW er \in Made, er.recsize >= -1, NEW rec \in Nat \ {0}, NEW cb \in Nat
  PROVE  LET found == Diagnostics!ER_ReturnError(er, rec, cb)
             R == Diagnostics!RecSize(er, cb)
             at == (rec - 1) * R
             left == Len(er.text) - at
         IN /\ at \in Nat
            /\ at > Len(er.text) => found = Diagnostics!NoData
            /\ at <= Len(er.text) =>
                 /\ found.ret \in {"SUCCESS", "SUCCESS_WITH_INFO"}
                 /\ found.len = Diagnostics!Least(left, R)
                 /\ \E n \in 0..left :
                      /\ found.text = SubSeq(er.text, at + 1, at + n)
                      /\ n = Diagnostics!Least(Diagnostics!Written(left, cb, R),
                                               Diagnostics!Least(left, R))
                      /\ n = 0 <=> found.ret = "SUCCESS_WITH_INFO"
                      /\ n = 0 \/ n < cb
                      /\ R = cb - 1 => n = Diagnostics!Least(left, R)
<1> DEFINE found == Diagnostics!ER_ReturnError(er, rec, cb)
           R == Diagnostics!RecSize(er, cb)
           at == (rec - 1) * R
           left == Len(er.text) - at
           n == Diagnostics!Least(Diagnostics!Written(left, cb, R), Diagnostics!Least(left, R))
<1>1. R \in Nat
  BY Requesting
<1>2. at \in Nat
  BY <1>1
<1>3. Len(er.text) \in Nat
  BY LenProperties, InfosMade
<1>4. found = IF at > Len(er.text) THEN Diagnostics!NoData
              ELSE [ret |-> IF n = 0 THEN "SUCCESS_WITH_INFO" ELSE "SUCCESS",
                    text |-> SubSeq(er.text, at + 1, at + n),
                    len |-> Diagnostics!Least(left, R), native |-> er.status, state |-> er.state]
  <2> DEFINE given == IF rec < 0 THEN 1 ELSE rec
             p == (given - 1) * R
             rest == Len(er.text) - p
             m == Diagnostics!Least(Diagnostics!Written(rest, cb, R), Diagnostics!Least(rest, R))
  <2>1. found = IF p > Len(er.text) THEN Diagnostics!NoData
                ELSE [ret |-> IF m = 0 THEN "SUCCESS_WITH_INFO" ELSE "SUCCESS",
                      text |-> SubSeq(er.text, p + 1, p + m),
                      len |-> Diagnostics!Least(rest, R), native |-> er.status, state |-> er.state]
    BY DEF Diagnostics!ER_ReturnError, Diagnostics!StartOfRecord
  <2>2. given = rec
    OBVIOUS
  <2> HIDE DEF found, R, given
  <2>3. QED BY <2>1, <2>2
<1> HIDE DEF found, R, at
<1>5. CASE at <= Len(er.text)
  <2>1. left \in Nat
    BY <1>2, <1>3, <1>5
  <2>2. n \in 0..left /\ (n = 0 \/ n < cb) /\ (R = cb - 1 => n = Diagnostics!Least(left, R))
    BY <1>1, <2>1 DEF Diagnostics!Least, Diagnostics!Written
  <2>3. ~(at > Len(er.text))
    BY <1>2, <1>3, <1>5
  <2> HIDE DEF n, left
  <2>4. /\ found.ret \in {"SUCCESS", "SUCCESS_WITH_INFO"}
        /\ found.len = Diagnostics!Least(left, R)
        /\ found.text = SubSeq(er.text, at + 1, at + n)
        /\ n = 0 <=> found.ret = "SUCCESS_WITH_INFO"
    BY <1>4, <2>3
  <2>5. QED BY <1>2, <1>5, <2>2, <2>3, <2>4 DEF found, R, at, left, n
<1>6. CASE at > Len(er.text)
  BY <1>2, <1>3, <1>4, <1>6 DEF found, R, at
<1>7. QED BY <1>2, <1>3, <1>5, <1>6 DEF at

-----------------------------------------------------------------------------
(* The invariant.                                                            *)

Foreign == Seq({"c", ";", "n"})
OwnText(x) == IF x.msg = NoPointer THEN <<>> ELSE x.msg
StmtRecords == [num : {n \in Int : n >= Diagnostics!LOWEST_STMT_ERROR}, msg : StmtTexts \cup {NoPointer},
                ref : BOOLEAN, pg : {NoPointer} \cup Diagnostics!Infos]
Readers == [rec : Nat \ {0}, cb : Nat, text : Seq(Diagnostics!Letters), done : BOOLEAN]

\* the record is of the error; x: a statement, since: the connection failed since its last call
OwnRecord(x, since) ==
  x.pg # NoPointer =>
    /\ x.num # 0 /\ x.pg.status = x.num /\ Judged(x.pg)
    /\ \E other \in Foreign : x.pg.text = OwnText(x) \o other /\ (~since => other = <<>>)

\* what the application has read so far is where its next piece begins
ReadSoFar(x, r) ==
  /\ r.rec = 1 => r.text = <<>> /\ (r.done => x.num = 0)
  /\ x.pg = NoPointer => r.rec = 1
  /\ x.pg # NoPointer /\ r.rec > 1 /\ x.pg.recsize > 0 /\ x.pg.recsize = r.cb - 1 =>
       /\ r.text = SubSeq(x.pg.text, 1, Diagnostics!Least((r.rec - 1) * x.pg.recsize, Len(x.pg.text)))
       /\ r.done => r.text = x.pg.text

StmtOK(x, r, since) ==
  /\ x \in StmtRecords /\ r \in Readers
  /\ x.ref => since
  /\ OwnRecord(x, since)
  /\ ReadSoFar(x, r)

DescOK ==
  /\ desc \in [num : {n \in Int : n >= Diagnostics!LOWEST_DESC_ERROR}, msg : DescTexts \cup {NoPointer},
               typed : BOOLEAN, pg : {NoPointer} \cup Diagnostics!Infos]
  /\ desc.num # 0 => desc.msg # NoPointer
  /\ desc.pg # NoPointer => Judged(desc.pg)

DiagInv ==
  /\ env \in [num : Int, msg : {NoPointer, <<"s">>, <<"m">>}, odbc3 : BOOLEAN]
  /\ conn \in [num : Int, msg : ConnTexts \cup {NoPointer}]
  /\ stmt \in [DiagStatements -> StmtRecords]
  /\ reader \in [DiagStatements -> Readers]
  /\ DescOK
  /\ \A st \in DiagStatements : StmtOK(stmt[st], reader[st], st \in blamed)

LEMMA Alphabets ==
  ASSUME Diagnostics!ConstantsKnown
  PROVE  /\ StmtTexts \subseteq Seq({"e"}) /\ StmtTexts \subseteq Seq(Diagnostics!Letters)
         /\ ConnTexts \subseteq Seq({"c"}) /\ ConnTexts \subseteq Foreign
         /\ DescTexts \subseteq Seq(Diagnostics!Letters)
         /\ Foreign \subseteq Seq(Diagnostics!Letters)
<1>1. /\ StmtTexts \subseteq Seq({"e"}) /\ ConnTexts \subseteq Seq({"c"})
      /\ DescTexts \subseteq Seq({"d"})
  BY DEF Diagnostics!ConstantsKnown
<1>2. \A S, T : S \subseteq T => Seq(S) \subseteq Seq(T)
  BY SeqMonotonic
<1>3. /\ Seq({"e"}) \subseteq Seq(Diagnostics!Letters) /\ Seq({"d"}) \subseteq Seq(Diagnostics!Letters)
      /\ Seq({"c"}) \subseteq Foreign /\ Foreign \subseteq Seq(Diagnostics!Letters)
  BY <1>2 DEF Diagnostics!Letters, Foreign
<1>4. QED BY <1>1, <1>3

LEMMA OwnTexts ==
  ASSUME Diagnostics!ConstantsKnown, NEW x \in StmtRecords
  PROVE  OwnText(x) \in Seq({"e"}) /\ OwnText(x) \in Seq(Diagnostics!Letters)
<1>1. <<>> \in Seq({"e"}) /\ <<>> \in Seq(Diagnostics!Letters)
  BY EmptySeq
<1>2. QED BY <1>1, Alphabets DEF OwnText, StmtRecords

\* the record a statement would be given now
LEMMA Creating ==
  ASSUME Diagnostics!ConstantsKnown, NEW x, NEW r, NEW since, StmtOK(x, r, since),
         conn.msg \in ConnTexts \cup {NoPointer}
  PROVE  LET er == Diagnostics!SC_create_errorinfo(x)
         IN \/ er = NoPointer /\ x.pg = NoPointer /\ x.num = 0
            \/ /\ er \in Made /\ er.recsize >= -1 /\ Judged(er) /\ er.status = x.num
               /\ x.num # 0 /\ er # NoPointer
               /\ \E other \in Foreign :
                    er.text = OwnText(x) \o other /\ (~since => other = <<>>)
               /\ x.pg # NoPointer => er = x.pg /\ er \in Diagnostics!Infos
<1> DEFINE er == Diagnostics!SC_create_errorinfo(x)
           own == OwnText(x)
           other == IF x.ref /\ conn.msg # NoPointer /\ conn.msg # <<>> THEN Diagnostics!Sep \o conn.msg ELSE <<>>
<1>1. CASE x.pg # NoPointer
  <2>1. er = x.pg /\ er \in Diagnostics!Infos
    BY <1>1 DEF Diagnostics!SC_create_errorinfo, StmtOK, StmtRecords
  <2>2. er \in Made /\ er.recsize >= -1
    BY <2>1, InfosMade
  <2>3. QED BY <1>1, <2>1, <2>2 DEF StmtOK, OwnRecord
<1>2. CASE x.pg = NoPointer /\ x.num = 0
  BY <1>2 DEF Diagnostics!SC_create_errorinfo
<1>3. CASE x.pg = NoPointer /\ x.num # 0
  <2>1. er = Diagnostics!ER_Constructor(x.num, own \o other, Diagnostics!StmtState(x.num))
    BY <1>3 DEF Diagnostics!SC_create_errorinfo, OwnText
  <2>2. other \in Foreign /\ (~since => other = <<>>)
    <3>1. Diagnostics!Sep \in Foreign /\ <<>> \in Foreign
      BY DEF Diagnostics!Sep, Foreign
    <3>2. conn.msg # NoPointer => conn.msg \in Foreign
      BY Alphabets
    <3>3. conn.msg # NoPointer => Diagnostics!Sep \o conn.msg \in Foreign
      BY <3>1, <3>2, ConcatProperties DEF Foreign
    <3>4. QED BY <3>1, <3>3 DEF StmtOK
  <2>3. own \in Seq(Diagnostics!Letters) /\ x.num \in Int /\ x.num >= Diagnostics!LOWEST_STMT_ERROR
    BY OwnTexts DEF StmtOK, StmtRecords
  <2> HIDE DEF er, own, other
  <2>4. own \o other \in Seq(Diagnostics!Letters)
    BY <2>2, <2>3, Alphabets, ConcatProperties
  <2>5. Diagnostics!StmtState(x.num) \in Diagnostics!States /\ (x.num <= 0 <=> Diagnostics!StmtState(x.num) \in Warnings)
    BY <2>3, StmtStates
  <2>6. own \o other # NoPointer /\ er # NoPointer
    <3>1. own \o other # NoPointer /\ NoPointer \notin Made
      BY <2>4, NeverNull
    <3>2. Diagnostics!ER_Constructor(x.num, own \o other, Diagnostics!StmtState(x.num)) \in Made
      BY <2>3, <2>4, <2>5, <3>1, Constructing
    <3>3. QED BY <2>1, <3>1, <3>2
  <2>7. /\ er \in Made /\ er.recsize = -1 /\ er.status = x.num
        /\ er.text = own \o other /\ er.state = Diagnostics!StmtState(x.num)
    <3> DEFINE text == own \o other
               state == Diagnostics!StmtState(x.num)
               made == Diagnostics!ER_Constructor(x.num, text, state)
    <3>1. text \in Seq(Diagnostics!Letters) /\ text # NoPointer /\ state \in Diagnostics!States
      BY <2>4, <2>5, <2>6
    <3>2. er = made
      BY <2>1
    <3> HIDE DEF text, state
    <3>3. /\ made \in Made /\ made.recsize = -1 /\ made.status = x.num
          /\ made.text = text /\ made.state = state
      BY <2>3, <3>1, Constructing
    <3> HIDE DEF made
    <3>4. QED BY <3>2, <3>3 DEF text, state
  <2>8. QED BY <1>3, <2>2, <2>3, <2>5, <2>6, <2>7 DEF Judged, er, own
<1>4. QED BY <1>1, <1>2, <1>3

\* how a statement is read: its record, and what the application has of it
LEMMA Asking ==
  ASSUME Diagnostics!ConstantsKnown, NEW x, NEW r, NEW since, StmtOK(x, r, since),
         conn.msg \in ConnTexts \cup {NoPointer}, NEW cb \in Nat
  PROVE  LET er == Diagnostics!SC_create_errorinfo(x)
             y == [x EXCEPT !.pg = IF er = NoPointer THEN NoPointer ELSE Diagnostics!Requested(er, cb)]
         IN /\ y \in StmtRecords /\ OwnRecord(y, since)
            /\ er = NoPointer <=> y.pg = NoPointer
            /\ er # NoPointer => /\ y.pg = Diagnostics!Requested(er, cb) /\ x.num # 0
                            /\ er \in Made /\ er.recsize >= -1
            /\ x.pg # NoPointer => y.pg = x.pg /\ er = x.pg /\ y = x
            /\ y.num = x.num /\ y.msg = x.msg /\ y.ref = x.ref
<1> DEFINE er == Diagnostics!SC_create_errorinfo(x)
           pg == IF er = NoPointer THEN NoPointer ELSE Diagnostics!Requested(er, cb)
           y == [x EXCEPT !.pg = pg]
<1>1. \/ er = NoPointer /\ x.pg = NoPointer /\ x.num = 0
      \/ /\ er \in Made /\ er.recsize >= -1 /\ Judged(er) /\ er.status = x.num
         /\ x.num # 0 /\ er # NoPointer
         /\ \E other \in Foreign :
              er.text = OwnText(x) \o other /\ (~since => other = <<>>)
         /\ x.pg # NoPointer => er = x.pg /\ er \in Diagnostics!Infos
  BY Creating
<1>2. x \in StmtRecords
  BY DEF StmtOK
<1> HIDE DEF er
<1>3. ASSUME er # NoPointer
      PROVE  /\ pg \in Diagnostics!Infos /\ pg # NoPointer /\ pg.status = er.status /\ pg.text = er.text
             /\ pg.state = er.state /\ pg = Diagnostics!Requested(er, cb)
             /\ er \in Diagnostics!Infos => pg = er
  <2>1. pg = Diagnostics!Requested(er, cb) /\ er \in Made /\ er.recsize >= -1
    BY <1>1, <1>3
  <2>2. /\ pg \in Diagnostics!Infos /\ pg.status = er.status /\ pg.text = er.text /\ pg.state = er.state
        /\ er.recsize >= 0 => pg = er
    BY <2>1, Requesting
  <2>3. er \in Diagnostics!Infos => er.recsize >= 0
    BY InfosMade
  <2>4. QED BY <2>1, <2>2, <2>3, NeverNull
<1>4. er = NoPointer => pg = NoPointer
  OBVIOUS
<1> HIDE DEF pg
<1>5. y \in StmtRecords /\ y.pg = pg /\ y.num = x.num /\ y.msg = x.msg /\ y.ref = x.ref
  BY <1>2, <1>3, <1>4 DEF StmtRecords
<1>6. OwnText(y) = OwnText(x)
  BY <1>5 DEF OwnText
<1>7. OwnRecord(y, since)
  BY <1>1, <1>3, <1>4, <1>5, <1>6 DEF OwnRecord, Judged
<1>8. x.pg # NoPointer => pg = x.pg /\ y = x
  <2>1. x.pg # NoPointer => pg = x.pg
    BY <1>1, <1>3
  <2>2. x.pg = pg => y = x
    BY <1>2 DEF StmtRecords
  <2>3. QED BY <2>1, <2>2
<1>9. QED BY <1>1, <1>3, <1>4, <1>5, <1>7, <1>8 DEF er, pg

LEMMA Fielding ==
  ASSUME Diagnostics!ConstantsKnown, NEW x, NEW r, NEW since, StmtOK(x, r, since),
         conn.msg \in ConnTexts \cup {NoPointer}, NEW cb \in Nat
  PROVE  LET er == Diagnostics!SC_create_errorinfo(x)
             y == [x EXCEPT !.pg = IF er = NoPointer THEN NoPointer ELSE Diagnostics!Requested(er, cb)]
         IN StmtOK(y, r, since)
<1> DEFINE er == Diagnostics!SC_create_errorinfo(x)
           y == [x EXCEPT !.pg = IF er = NoPointer THEN NoPointer ELSE Diagnostics!Requested(er, cb)]
<1>1. /\ y \in StmtRecords /\ OwnRecord(y, since)
      /\ er = NoPointer <=> y.pg = NoPointer
      /\ x.pg # NoPointer => y = x
      /\ y.num = x.num /\ y.msg = x.msg /\ y.ref = x.ref
  BY Asking
<1> HIDE DEF er, y
<1>2. ReadSoFar(y, r)
  <2>1. CASE x.pg # NoPointer
    BY <1>1, <2>1 DEF StmtOK
  <2>2. CASE x.pg = NoPointer
    BY <1>1, <2>2 DEF StmtOK, ReadSoFar
  <2>3. QED BY <2>1, <2>2
<1>3. QED BY <1>1, <1>2 DEF StmtOK, er, y

LEMMA ReadingOn ==
  ASSUME Diagnostics!ConstantsKnown, NEW x, NEW r, NEW since, StmtOK(x, r, since),
         conn.msg \in ConnTexts \cup {NoPointer}, NEW cb \in Nat,
         ~r.done, r.rec = 1 \/ r.cb = cb
  PROVE  LET er == Diagnostics!SC_create_errorinfo(x)
             y == [x EXCEPT !.pg = IF er = NoPointer THEN NoPointer ELSE Diagnostics!Requested(er, cb)]
             found == IF er = NoPointer THEN Diagnostics!NoData ELSE Diagnostics!ER_ReturnError(er, r.rec, cb)
             q == IF found.ret = "NO_DATA" THEN [r EXCEPT !.done = TRUE]
                  ELSE [r EXCEPT !.rec = r.rec + 1, !.cb = cb, !.text = r.text \o found.text]
         IN StmtOK(y, q, since)
<1> DEFINE er == Diagnostics!SC_create_errorinfo(x)
           y == [x EXCEPT !.pg = IF er = NoPointer THEN NoPointer ELSE Diagnostics!Requested(er, cb)]
           found == IF er = NoPointer THEN Diagnostics!NoData ELSE Diagnostics!ER_ReturnError(er, r.rec, cb)
           next == r.rec + 1
           text == r.text \o found.text
           q == IF found.ret = "NO_DATA" THEN [r EXCEPT !.done = TRUE]
                ELSE [r EXCEPT !.rec = next, !.cb = cb, !.text = text]
<1>1. /\ y \in StmtRecords /\ OwnRecord(y, since)
      /\ er = NoPointer <=> y.pg = NoPointer
      /\ er # NoPointer => /\ y.pg = Diagnostics!Requested(er, cb) /\ x.num # 0
                      /\ er \in Made /\ er.recsize >= -1
      /\ x.pg # NoPointer => y.pg = x.pg /\ er = x.pg /\ y = x
      /\ y.num = x.num /\ y.msg = x.msg /\ y.ref = x.ref
  BY Asking
<1>2. x \in StmtRecords /\ r \in Readers /\ ReadSoFar(x, r)
  BY DEF StmtOK
<1>3. r.rec \in Nat \ {0} /\ r.text \in Seq(Diagnostics!Letters)
  BY <1>2 DEF Readers
<1> HIDE DEF er, y
<1>4. CASE er = NoPointer
  <2>1. found.ret = "NO_DATA" /\ q = [r EXCEPT !.done = TRUE]
    BY <1>4 DEF Diagnostics!NoData
  <2>2. q \in Readers /\ q.rec = r.rec /\ q.text = r.text
    BY <1>2, <2>1 DEF Readers
  <2>3. x.pg = NoPointer /\ y.pg = NoPointer /\ x.num = 0
    BY <1>1, <1>4, Creating DEF er
  <2> HIDE DEF q
  <2>4. ReadSoFar(y, q)
    BY <1>1, <1>2, <2>2, <2>3 DEF ReadSoFar
  <2>5. QED BY <1>1, <2>2, <2>4 DEF StmtOK, er, y, q
<1>5. CASE er # NoPointer
  <2> DEFINE R == Diagnostics!RecSize(er, cb)
             at == (r.rec - 1) * R
             left == Len(er.text) - at
  <2>1. /\ R \in Nat /\ y.pg.text = er.text /\ y.pg.recsize = R /\ y.pg # NoPointer
        /\ er.text \in Seq(Diagnostics!Letters) /\ Len(er.text) \in Nat
    <3>1. er \in Made /\ er.recsize >= -1 /\ y.pg = Diagnostics!Requested(er, cb)
      BY <1>1, <1>5
    <3>2. R \in Nat /\ y.pg.text = er.text /\ y.pg.recsize = R /\ y.pg # NoPointer
      BY <1>1, <1>5, <3>1, Requesting
    <3>3. er.text \in Seq(Diagnostics!Letters)
      BY <3>1, InfosMade
    <3>4. QED BY <3>2, <3>3, LenProperties
  <2>2. found = Diagnostics!ER_ReturnError(er, r.rec, cb)
    BY <1>5
  <2>3. /\ at \in Nat
        /\ at > Len(er.text) => found = Diagnostics!NoData
        /\ at <= Len(er.text) =>
             /\ found.ret \in {"SUCCESS", "SUCCESS_WITH_INFO"}
             /\ \E n \in 0..left :
                  /\ found.text = SubSeq(er.text, at + 1, at + n)
                  /\ R = cb - 1 => n = Diagnostics!Least(left, R)
    <3>1. er \in Made /\ er.recsize >= -1
      BY <1>1, <1>5
    <3> DEFINE piece == Diagnostics!ER_ReturnError(er, r.rec, cb)
    <3>2. /\ at \in Nat
          /\ at > Len(er.text) => piece = Diagnostics!NoData
          /\ at <= Len(er.text) =>
               /\ piece.ret \in {"SUCCESS", "SUCCESS_WITH_INFO"}
               /\ \E n \in 0..left :
                    /\ piece.text = SubSeq(er.text, at + 1, at + n)
                    /\ R = cb - 1 => n = Diagnostics!Least(left, R)
      <4> HIDE DEF piece, R
      <4>1. /\ at \in Nat
            /\ at > Len(er.text) => piece = Diagnostics!NoData
            /\ at <= Len(er.text) =>
                 /\ piece.ret \in {"SUCCESS", "SUCCESS_WITH_INFO"}
                 /\ piece.len = Diagnostics!Least(left, R)
                 /\ \E n \in 0..left :
                      /\ piece.text = SubSeq(er.text, at + 1, at + n)
                      /\ n = Diagnostics!Least(Diagnostics!Written(left, cb, R),
                                               Diagnostics!Least(left, R))
                      /\ n = 0 <=> piece.ret = "SUCCESS_WITH_INFO"
                      /\ n = 0 \/ n < cb
                      /\ R = cb - 1 => n = Diagnostics!Least(left, R)
        BY <1>3, <3>1, Piecewise, Zenon DEF piece, R
      <4> HIDE DEF at, left
      <4>2. QED BY <4>1
    <3> HIDE DEF piece, at, left, R
    <3>3. found = piece
      BY <2>2 DEF piece
    <3> HIDE DEF found
    <3>4. QED BY <3>2, <3>3
  <2> HIDE DEF found, R
  <2>4. x.pg # NoPointer => x.pg = er /\ R = x.pg.recsize
    BY <1>1, <2>1
  <2>5. CASE at > Len(er.text)
    <3>1. found.ret = "NO_DATA" /\ q = [r EXCEPT !.done = TRUE]
      BY <2>3, <2>5 DEF Diagnostics!NoData
    <3>2. q \in Readers /\ q.rec = r.rec /\ q.text = r.text /\ q.cb = r.cb
      BY <1>2, <3>1 DEF Readers
    <3>3. r.rec > 1 /\ r.cb = cb
      <4>1. r.rec = 1 => at = 0
        BY <2>1
      <4>2. QED BY <1>3, <2>1, <2>5, <4>1
    <3>4. x.pg # NoPointer
      BY <1>2, <3>3 DEF ReadSoFar
    <3>5. R > 0 /\ R = cb - 1 => r.text = er.text
      <4>1. SUFFICES ASSUME R > 0, R = cb - 1 PROVE r.text = er.text
        OBVIOUS
      <4>2. r.text = SubSeq(er.text, 1, Diagnostics!Least(at, Len(er.text)))
        BY <1>2, <2>4, <3>3, <3>4, <4>1 DEF ReadSoFar
      <4>3. Diagnostics!Least(at, Len(er.text)) = Len(er.text)
        BY <2>1, <2>3, <2>5 DEF Diagnostics!Least
      <4>4. QED BY <2>1, <4>2, <4>3, SubSeqFull
    <3> HIDE DEF q, at
    <3>6. ReadSoFar(y, q)
      <4>1. y.pg = x.pg
        BY <1>1, <3>4
      <4>2. QED BY <1>1, <1>2, <2>1, <2>4, <3>2, <3>3, <3>4, <3>5, <4>1 DEF ReadSoFar
    <3>7. QED BY <1>1, <3>2, <3>6 DEF StmtOK, er, y, q, found
  <2>6. CASE at <= Len(er.text)
    <3>1. PICK n \in 0..left : /\ found.text = SubSeq(er.text, at + 1, at + n)
                               /\ R = cb - 1 => n = Diagnostics!Least(left, R)
      BY <2>3, <2>6
    <3>2. found.ret # "NO_DATA"
      BY <2>3, <2>6
    <3>3. q = [r EXCEPT !.rec = next, !.cb = cb, !.text = text]
      BY <3>2
    <3>4. n \in Nat /\ at + n <= Len(er.text)
      BY <2>1, <2>3, <2>6
    <3>5. found.text \in Seq(Diagnostics!Letters) /\ text \in Seq(Diagnostics!Letters)
      <4>1. \A i \in (at + 1)..(at + n) : er.text[i] \in Diagnostics!Letters
        <5>1. \A i \in (at + 1)..(at + n) : i \in 1..Len(er.text)
          BY <2>1, <2>3, <3>4
        <5>2. QED BY <2>1, <5>1, ElementOfSeq
      <4>2. at + 1 \in Int /\ at + n \in Int
        BY <2>3, <3>4
      <4>3. found.text \in Seq(Diagnostics!Letters)
        BY <3>1, <4>1, <4>2, SubSeqProperties
      <4>4. QED BY <1>3, <4>3, ConcatProperties
    <3>6. next \in Nat \ {0} /\ next > 1 /\ next - 1 = r.rec
      BY <1>3
    <3>7. R > 0 /\ R = cb - 1 => text = SubSeq(er.text, 1, Diagnostics!Least((next - 1) * R, Len(er.text)))
      <4>1. SUFFICES ASSUME R > 0, R = cb - 1
                     PROVE  text = SubSeq(er.text, 1, Diagnostics!Least((next - 1) * R, Len(er.text)))
        OBVIOUS
      <4>2. r.text = SubSeq(er.text, 1, at)
        <5>1. CASE r.rec = 1
          <6>1. at = 0 /\ r.text = <<>>
            BY <1>2, <2>1, <5>1 DEF ReadSoFar
          <6>2. QED BY <6>1, SubSeqEmpty
        <5>2. CASE r.rec # 1
          <6>1. r.rec > 1 /\ r.cb = cb
            BY <1>3, <5>2
          <6>2. x.pg # NoPointer
            BY <1>2, <5>2 DEF ReadSoFar
          <6>3. r.text = SubSeq(er.text, 1, Diagnostics!Least(at, Len(er.text)))
            BY <1>2, <2>4, <4>1, <6>1, <6>2 DEF ReadSoFar
          <6>4. Diagnostics!Least(at, Len(er.text)) = at
            <7> HIDE DEF at
            <7>1. QED BY <2>1, <2>3, <2>6 DEF Diagnostics!Least
          <6>5. QED BY <6>3, <6>4
        <5>3. QED BY <5>1, <5>2
      <4>3. text = SubSeq(er.text, 1, at) \o SubSeq(er.text, at + 1, at + n)
        BY <3>1, <4>2
      <4>4. text = SubSeq(er.text, 1, at + n)
        <5>1. 1 \in 1..(Len(er.text) + 1) /\ at \in 0..Len(er.text) /\ at + n \in at..Len(er.text)
          BY <2>1, <2>3, <2>6, <3>4
        <5>2. at \in (1 - 1)..Len(er.text)
          BY <5>1
        <5> HIDE DEF at, text
        <5>3. QED BY <2>1, <4>3, <5>1, <5>2, ConcatAdjacentSubSeq
      <4>5. (next - 1) * R = at + R
        <5>1. \A i, k \in Nat : i * k = (i - 1) * k + k
          OBVIOUS
        <5>2. r.rec * R = (r.rec - 1) * R + R
          BY <1>3, <2>1, <5>1
        <5>3. QED BY <3>6, <5>2
      <4>6. at + n = Diagnostics!Least(at + R, Len(er.text))
        <5>1. n = Diagnostics!Least(left, R)
          BY <3>1, <4>1
        <5> HIDE DEF at
        <5>2. at \in Nat /\ at <= Len(er.text) /\ R \in Nat /\ Len(er.text) \in Nat
          BY <2>1, <2>3, <2>6
        <5>3. QED BY <5>1, <5>2 DEF Diagnostics!Least
      <4>7. QED BY <4>4, <4>5, <4>6
    <3> HIDE DEF next, text, at
    <3>8. /\ q \in Readers /\ q.rec = next /\ q.text = text /\ q.cb = cb /\ ~q.done
      BY <1>2, <3>3, <3>5, <3>6 DEF Readers
    <3> HIDE DEF q
    <3>9. ReadSoFar(y, q)
      BY <2>1, <3>6, <3>7, <3>8 DEF ReadSoFar
    <3>10. QED BY <1>1, <3>8, <3>9 DEF StmtOK, er, y, q, next, text, found
  <2>7. QED BY <2>1, <2>3, <2>5, <2>6
<1>6. QED BY <1>4, <1>5

-----------------------------------------------------------------------------
(* The steps.                                                                *)

\* a statement whose call begins has no record, and nobody has read one
LEMMA Forgetting ==
  ASSUME NEW x \in StmtRecords, x.pg = NoPointer, ~x.ref, NEW since
  PROVE  Diagnostics!NotReading \in Readers /\ StmtOK(x, Diagnostics!NotReading, since)
<1>1. Diagnostics!NotReading \in Readers
  BY EmptySeq DEF Diagnostics!NotReading, Readers
<1>2. OwnRecord(x, since) /\ ReadSoFar(x, Diagnostics!NotReading)
  BY DEF OwnRecord, ReadSoFar, Diagnostics!NotReading
<1>3. QED BY <1>1, <1>2 DEF StmtOK

LEMMA InitDiag == Diagnostics!ConstantsKnown /\ Diagnostics!Init => DiagInv
<1> SUFFICES ASSUME Diagnostics!ConstantsKnown, Diagnostics!Init PROVE DiagInv
  OBVIOUS
<1> DEFINE new == [num |-> 0, msg |-> NoPointer, ref |-> FALSE, pg |-> NoPointer]
<1>1. new \in StmtRecords /\ new.pg = NoPointer /\ new.ref = FALSE
  BY DEF StmtRecords, Diagnostics!LOWEST_STMT_ERROR
<1>2. \A since : Diagnostics!NotReading \in Readers /\ StmtOK(new, Diagnostics!NotReading, since)
  BY <1>1, Forgetting
<1> HIDE DEF new
<1>3. stmt = [st \in DiagStatements |-> new] /\ reader = [st \in DiagStatements |-> Diagnostics!NotReading]
  BY DEF Diagnostics!Init, new
<1>4. \A st \in DiagStatements : StmtOK(stmt[st], reader[st], st \in blamed)
  BY <1>2, <1>3
<1>5. stmt \in [DiagStatements -> StmtRecords] /\ reader \in [DiagStatements -> Readers]
  <2>1. Diagnostics!NotReading \in Readers
    BY <1>2
  <2>2. QED BY <1>1, <1>3, <2>1
<1>6. /\ env \in [num : Int, msg : {NoPointer, <<"s">>, <<"m">>}, odbc3 : BOOLEAN]
      /\ conn \in [num : Int, msg : ConnTexts \cup {NoPointer}]
      /\ DescOK
  BY DEF Diagnostics!Init, Diagnostics!CC_clear_error, DescOK, Diagnostics!LOWEST_DESC_ERROR
<1>7. QED BY <1>4, <1>5, <1>6 DEF DiagInv

\* a step of one statement
LEMMA OneStatement ==
  ASSUME DiagInv, NEW st \in DiagStatements, NEW x, NEW r, NEW since,
         x \in StmtRecords, r \in Readers, StmtOK(x, r, since), since = (st \in blamed'),
         stmt' = [stmt EXCEPT ![st] = x], reader' = [reader EXCEPT ![st] = r],
         \A u \in DiagStatements \ {st} : u \in blamed' <=> u \in blamed,
         UNCHANGED <<env, conn, desc>>
  PROVE  DiagInv'
<1>1. stmt' \in [DiagStatements -> StmtRecords] /\ reader' \in [DiagStatements -> Readers]
  BY DEF DiagInv
<1>2. ASSUME NEW u \in DiagStatements PROVE StmtOK(stmt'[u], reader'[u], u \in blamed')
  <2>1. CASE u = st
    <3>1. stmt'[u] = x /\ reader'[u] = r
      BY <2>1 DEF DiagInv
    <3>2. QED BY <2>1, <3>1
  <2>2. CASE u # st
    <3>1. /\ stmt'[u] = stmt[u] /\ reader'[u] = reader[u]
          /\ (u \in blamed') = (u \in blamed)
      BY <2>2 DEF DiagInv
    <3>2. QED BY <3>1 DEF DiagInv
  <2>3. QED BY <2>1, <2>2
<1>3. DescOK'
  BY DEF DiagInv, DescOK
<1>4. QED BY <1>1, <1>2, <1>3 DEF DiagInv

LEMMA CallOK ==
  ASSUME Diagnostics!ConstantsKnown, DiagInv, NEW st \in DiagStatements, NEW num \in StmtNumbers \cup {0},
          NEW msg \in StmtTexts \cup {NoPointer},
          Diagnostics!StmtCall(st, num, msg) \/ Diagnostics!CatalogCall(st, num, msg)
  PROVE  DiagInv'
<1>1. num \in Int /\ num >= Diagnostics!LOWEST_STMT_ERROR
  BY DEF Diagnostics!ConstantsKnown, Diagnostics!LOWEST_STMT_ERROR
<1> DEFINE Cleared == {y \in StmtRecords : y.pg = NoPointer /\ ~y.ref}
<1>2. \A n \in Int : n >= Diagnostics!LOWEST_STMT_ERROR =>
        [num |-> n, msg |-> msg, ref |-> FALSE, pg |-> NoPointer] \in Cleared
  BY DEF StmtRecords
<1>3. \A y : Diagnostics!SC_clear_error(y) \in Cleared /\ Diagnostics!SC_clear_error(y).num = 0
             /\ Diagnostics!SC_clear_error(y).msg = NoPointer
  BY DEF Diagnostics!SC_clear_error, StmtRecords, Diagnostics!LOWEST_STMT_ERROR
<1>4. ASSUME NEW y \in Cleared PROVE [y EXCEPT !.num = num, !.msg = msg] \in Cleared
  BY <1>1 DEF StmtRecords
<1>5. ASSUME NEW y \in Cleared PROVE [y EXCEPT !.num = num, !.pg = NoPointer] \in Cleared
  BY <1>1 DEF StmtRecords
<1>6. ASSUME NEW y \in Cleared PROVE [y EXCEPT !.num = num, !.msg = msg, !.pg = NoPointer] \in Cleared
  BY <1>1 DEF StmtRecords
<1>7. PICK x \in Cleared : stmt' = [stmt EXCEPT ![st] = x]
  <2>1. CASE Diagnostics!StmtCall(st, num, msg)
    <3>1. CASE num = 0
      <4>1. stmt' = [stmt EXCEPT ![st] = Diagnostics!SC_clear_error(stmt[st])]
        BY <2>1, <3>1 DEF Diagnostics!StmtCall
      <4>2. QED BY <1>3, <4>1
    <3>2. CASE num # 0
      <4>1. stmt' = [stmt EXCEPT ![st] = Diagnostics!SC_set_error(Diagnostics!SC_clear_error(stmt[st]), num, msg)]
        BY <2>1, <3>2 DEF Diagnostics!StmtCall
      <4>2. Diagnostics!SC_set_error(Diagnostics!SC_clear_error(stmt[st]), num, msg) \in Cleared
        BY <1>3, <1>4 DEF Diagnostics!SC_set_error
      <4>3. QED BY <4>1, <4>2
    <3>3. QED BY <3>1, <3>2
  <2>2. CASE Diagnostics!CatalogCall(st, num, msg)
    <3> DEFINE cleared == Diagnostics!SC_clear_error(stmt[st])
    <3>1. cleared \in Cleared /\ cleared.msg = NoPointer
      BY <1>3
    <3> HIDE DEF cleared, Cleared
    <3>2. Diagnostics!SC_full_error_copy(cleared, num, msg) \in Cleared
      BY <1>4, <3>1 DEF Diagnostics!SC_full_error_copy
    <3>3. Diagnostics!SC_error_copy(cleared, num, msg) \in Cleared
      <4>1. CASE num = 0 \/ (num < 0 /\ cleared.num > 0)
        BY <3>1, <4>1 DEF Diagnostics!SC_error_copy
      <4>2. CASE ~(num = 0 \/ (num < 0 /\ cleared.num > 0)) /\ msg # NoPointer
        <5>1. Diagnostics!SC_error_copy(cleared, num, msg)
              = [cleared EXCEPT !.num = num, !.msg = msg, !.pg = NoPointer]
          BY <4>2 DEF Diagnostics!SC_error_copy
        <5>2. QED BY <1>6, <3>1, <5>1
      <4>3. CASE ~(num = 0 \/ (num < 0 /\ cleared.num > 0)) /\ msg = NoPointer
        <5>1. Diagnostics!SC_error_copy(cleared, num, msg)
              = [cleared EXCEPT !.num = num, !.msg = msg, !.pg = NoPointer]
          BY <3>1, <4>3 DEF Diagnostics!SC_error_copy
        <5>2. QED BY <1>6, <3>1, <5>1
      <4>4. QED BY <4>1, <4>2, <4>3
    <3>4. \E copied \in {Diagnostics!SC_error_copy(cleared, num, msg), Diagnostics!SC_full_error_copy(cleared, num, msg)} :
            stmt' = [stmt EXCEPT ![st] = copied]
      BY <2>2 DEF Diagnostics!CatalogCall, cleared
    <3>5. QED BY <3>2, <3>3, <3>4 DEF Cleared
  <2>3. QED BY <2>1, <2>2
<1>8. /\ reader' = [reader EXCEPT ![st] = Diagnostics!NotReading] /\ blamed' = blamed \ {st}
      /\ UNCHANGED <<env, conn, desc>>
  BY DEF Diagnostics!StmtCall, Diagnostics!CatalogCall
<1>9. Diagnostics!NotReading \in Readers /\ StmtOK(x, Diagnostics!NotReading, st \in blamed')
  BY Forgetting
<1>10. \A u \in DiagStatements \ {st} : u \in blamed' <=> u \in blamed
  BY <1>8
<1>11. QED BY <1>7, <1>8, <1>9, <1>10, OneStatement

LEMMA ConnOK ==
  ASSUME Diagnostics!ConstantsKnown, DiagInv, NEW num \in ConnNumbers \cup {0}, NEW msg \in ConnTexts,
         Diagnostics!ConnCall(num, msg)
  PROVE  DiagInv'
<1>1. num \in Int
  BY DEF Diagnostics!ConstantsKnown
<1>2. conn' \in [num : Int, msg : ConnTexts \cup {NoPointer}]
  BY <1>1 DEF Diagnostics!ConnCall, Diagnostics!CC_clear_error, Diagnostics!CC_set_error
<1>3. CASE num = 0
  BY <1>2, <1>3 DEF Diagnostics!ConnCall, DiagInv, DescOK
<1>4. CASE num # 0
  <2>1. /\ stmt' = [st \in DiagStatements |-> [stmt[st] EXCEPT !.ref = TRUE]]
        /\ blamed' = DiagStatements /\ UNCHANGED <<env, desc, reader>>
    BY <1>4 DEF Diagnostics!ConnCall, Diagnostics!CC_set_error_statements
  <2>2. ASSUME NEW st \in DiagStatements
        PROVE  stmt'[st] \in StmtRecords /\ StmtOK(stmt'[st], reader'[st], st \in blamed')
    <3> DEFINE x == stmt[st]
               y == [x EXCEPT !.ref = TRUE]
    <3>1. StmtOK(x, reader[st], st \in blamed) /\ x \in StmtRecords
      BY DEF DiagInv
    <3> HIDE DEF x
    <3>2. /\ y \in StmtRecords /\ y.num = x.num /\ y.msg = x.msg /\ y.pg = x.pg
      BY <3>1 DEF StmtRecords
    <3> HIDE DEF y
    <3>3. OwnRecord(y, TRUE)
      <4>1. OwnText(y) = OwnText(x)
        BY <3>2 DEF OwnText
      <4>2. QED BY <3>1, <3>2, <4>1 DEF StmtOK, OwnRecord
    <3>4. ReadSoFar(y, reader[st])
      BY <3>1, <3>2 DEF StmtOK, ReadSoFar
    <3>5. StmtOK(y, reader[st], TRUE)
      BY <3>1, <3>2, <3>3, <3>4 DEF StmtOK
    <3>6. stmt'[st] = y /\ reader'[st] = reader[st] /\ (st \in blamed') = TRUE
      BY <2>1 DEF x, y
    <3>7. QED BY <3>2, <3>5, <3>6
  <2>3. stmt' \in [DiagStatements -> StmtRecords]
    BY <2>1, <2>2
  <2>4. QED BY <1>2, <2>1, <2>2, <2>3 DEF DiagInv, DescOK
<1>5. QED BY <1>3, <1>4

\* steps that leave the statements alone
LEMMA OthersOK ==
  ASSUME DiagInv, UNCHANGED <<stmt, reader, blamed>>,
         env' \in [num : Int, msg : {NoPointer, <<"s">>, <<"m">>}, odbc3 : BOOLEAN],
         conn' \in [num : Int, msg : ConnTexts \cup {NoPointer}],
         DescOK'
  PROVE  DiagInv'
  BY DEF DiagInv

LEMMA EnvAndConnOK ==
  ASSUME DiagInv,
         \/ \E odbc3 \in BOOLEAN : Diagnostics!SetEnvVersion(odbc3)
         \/ Diagnostics!SetEnvChanged \/ Diagnostics!EnvAttrUnknown \/ Diagnostics!AllocConnectFails
         \/ \E rec \in {1, 2}, cb \in DiagBuffers, wants \in BOOLEAN : Diagnostics!ConnError(rec, cb, wants)
         \/ \E rec \in {1, 2} : Diagnostics!EnvError(rec)
         \/ UNCHANGED Diagnostics!vars
  PROVE  DiagInv'
<1>1. UNCHANGED <<stmt, reader, blamed, desc>>
  BY
     DEF Diagnostics!SetEnvVersion, Diagnostics!SetEnvChanged, Diagnostics!EnvAttrUnknown,
         Diagnostics!AllocConnectFails, Diagnostics!ConnError, Diagnostics!EnvError,
         Diagnostics!vars
<1>2. DescOK'
  BY <1>1 DEF DiagInv, DescOK
<1>3. /\ env \in [num : Int, msg : {NoPointer, <<"s">>, <<"m">>}, odbc3 : BOOLEAN]
      /\ conn \in [num : Int, msg : ConnTexts \cup {NoPointer}]
  BY DEF DiagInv
<1>4. env' \in [num : Int, msg : {NoPointer, <<"s">>, <<"m">>}, odbc3 : BOOLEAN]
  <2>1. \/ env' = env
        \/ \E odbc3 \in BOOLEAN : env' = [env EXCEPT !.odbc3 = odbc3]
        \/ env' = [env EXCEPT !.num = -1, !.msg = <<"s">>]
        \/ env' = [env EXCEPT !.num = 206]
        \/ env' = [env EXCEPT !.num = 1, !.msg = <<"m">>]
        \/ env' = [env EXCEPT !.num = 0, !.msg = NoPointer]
    BY
       DEF Diagnostics!SetEnvVersion, Diagnostics!SetEnvChanged, Diagnostics!EnvAttrUnknown,
           Diagnostics!AllocConnectFails, Diagnostics!ConnError, Diagnostics!EnvError,
           Diagnostics!vars
  <2> DEFINE Msgs == {NoPointer, <<"s">>, <<"m">>}
             Envs == [num : Int, msg : Msgs, odbc3 : BOOLEAN]
  <2>2. NoPointer \in Msgs /\ <<"s">> \in Msgs /\ <<"m">> \in Msgs
    OBVIOUS
  <2> HIDE DEF Msgs
  <2>3. env \in Envs
    BY <1>3 DEF Msgs
  <2>4. /\ [env EXCEPT !.num = -1, !.msg = <<"s">>] \in Envs
        /\ [env EXCEPT !.num = 1, !.msg = <<"m">>] \in Envs
        /\ [env EXCEPT !.num = 0, !.msg = NoPointer] \in Envs
        /\ [env EXCEPT !.num = 206] \in Envs
    <3>1. \A n \in Int, m \in Msgs : [env EXCEPT !.num = n, !.msg = m] \in Envs
      BY <2>3
    <3>2. -1 \in Int /\ 1 \in Int /\ 0 \in Int
      OBVIOUS
    <3>3. [env EXCEPT !.num = 206] \in Envs
      BY <2>3
    <3> HIDE DEF Envs
    <3>4. QED BY <2>2, <3>1, <3>2, <3>3, Zenon
  <2>5. \A odbc3 \in BOOLEAN : [env EXCEPT !.odbc3 = odbc3] \in Envs
    BY <2>3
  <2> HIDE DEF Envs
  <2>6. env' \in Envs
    BY <2>1, <2>3, <2>4, <2>5
  <2>7. QED BY <2>6 DEF Envs, Msgs
<1>5. conn' \in [num : Int, msg : ConnTexts \cup {NoPointer}]
  BY <1>3
     DEF Diagnostics!SetEnvVersion, Diagnostics!SetEnvChanged, Diagnostics!EnvAttrUnknown,
         Diagnostics!AllocConnectFails, Diagnostics!ConnError, Diagnostics!EnvError,
         Diagnostics!vars
<1>6. QED BY <1>1, <1>2, <1>4, <1>5, OthersOK

LEMMA DescriptorOK ==
  ASSUME Diagnostics!ConstantsKnown, DiagInv,
         \/ \E num \in DescNumbers, msg \in DescTexts : Diagnostics!DescFails(num, msg)
         \/ Diagnostics!CopyDesc
         \/ \E cb \in DescBuffers : Diagnostics!DescError(cb)
  PROVE  DiagInv'
<1> DEFINE Descs == [num : {n \in Int : n >= Diagnostics!LOWEST_DESC_ERROR}, msg : DescTexts \cup {NoPointer},
                     typed : BOOLEAN, pg : {NoPointer} \cup Diagnostics!Infos]
<1>1. desc \in Descs /\ (desc.num # 0 => desc.msg # NoPointer) /\ (desc.pg # NoPointer => Judged(desc.pg))
  BY DEF DiagInv, DescOK
<1>2. UNCHANGED <<stmt, reader, blamed, env, conn>>
  BY DEF Diagnostics!DescFails, Diagnostics!CopyDesc, Diagnostics!DescError
<1>3. CASE \E num \in DescNumbers, msg \in DescTexts : Diagnostics!DescFails(num, msg)
  <2>1. PICK num \in DescNumbers, msg \in DescTexts : Diagnostics!DescFails(num, msg)
    BY <1>3
  <2>2. num \in Int /\ num >= Diagnostics!LOWEST_DESC_ERROR /\ msg # NoPointer
    BY Alphabets, NeverNull DEF Diagnostics!ConstantsKnown
  <2>3. desc' = [desc EXCEPT !.num = num, !.msg = msg]
    BY <2>1 DEF Diagnostics!DescFails, Diagnostics!DC_set_error
  <2>4. desc' \in Descs /\ desc'.num = num /\ desc'.msg = msg /\ desc'.pg = desc.pg
    BY <1>1, <2>2, <2>3
  <2>5. DescOK'
    BY <1>1, <2>2, <2>4 DEF DescOK
  <2>6. QED BY <1>2, <2>5, OthersOK DEF DiagInv
<1>4. CASE Diagnostics!CopyDesc
  <2>1. desc' = [IF desc.typed THEN Diagnostics!DC_clear ELSE desc EXCEPT !.typed = TRUE]
    BY <1>4 DEF Diagnostics!CopyDesc
  <2>2. Diagnostics!DC_clear \in Descs /\ Diagnostics!DC_clear.num = 0 /\ Diagnostics!DC_clear.pg = NoPointer
    <3>1. 0 \in {n \in Int : n >= Diagnostics!LOWEST_DESC_ERROR} /\ NoPointer \in DescTexts \cup {NoPointer}
      BY DEF Diagnostics!LOWEST_DESC_ERROR
    <3>2. QED BY <1>1, <3>1 DEF Diagnostics!DC_clear
  <2>3. PICK d \in {Diagnostics!DC_clear, desc} : desc' = [d EXCEPT !.typed = TRUE]
    BY <2>1
  <2>4. d \in Descs /\ (d.num # 0 => d.msg # NoPointer) /\ (d.pg # NoPointer => Judged(d.pg))
    BY <1>1, <2>2, <2>3
  <2>5. desc' \in Descs /\ desc'.num = d.num /\ desc'.msg = d.msg /\ desc'.pg = d.pg
    BY <2>3, <2>4
  <2>6. DescOK'
    BY <2>4, <2>5 DEF DescOK
  <2>7. QED BY <1>2, <2>6, OthersOK DEF DiagInv
<1>5. CASE \E cb \in DescBuffers : Diagnostics!DescError(cb)
  <2> DEFINE er == Diagnostics!DC_create_errorinfo(desc)
  <2>1. PICK cb \in DescBuffers :
          desc' = [desc EXCEPT !.pg = IF er = NoPointer THEN NoPointer ELSE Diagnostics!Requested(er, cb)]
    BY <1>5 DEF Diagnostics!DescError
  <2>2. cb \in Nat
    BY DEF Diagnostics!ConstantsKnown
  <2>3. er # NoPointer => er \in Made /\ er.recsize >= -1 /\ Judged(er)
    <3>1. CASE desc.pg # NoPointer
      <4>1. er = desc.pg /\ er \in Diagnostics!Infos
        BY <1>1, <3>1 DEF Diagnostics!DC_create_errorinfo
      <4>2. QED BY <1>1, <3>1, <4>1, InfosMade
    <3>2. CASE desc.pg = NoPointer /\ desc.num = 0
      BY <3>2 DEF Diagnostics!DC_create_errorinfo
    <3>3. CASE desc.pg = NoPointer /\ desc.num # 0
      <4> DEFINE num == desc.num
                 text == desc.msg
                 state == Diagnostics!DescState(num)
                 made == Diagnostics!ER_Constructor(num, text, state)
      <4>1. er = made
        BY <3>3 DEF Diagnostics!DC_create_errorinfo
      <4>2. text \in Seq(Diagnostics!Letters) /\ text # NoPointer /\ num \in Int /\ num >= Diagnostics!LOWEST_DESC_ERROR
        BY <1>1, <3>3, Alphabets
      <4>3. state \in Diagnostics!States /\ (num <= 0 <=> state \in Warnings)
        BY <4>2, DescStates
      <4> HIDE DEF num, text, state, er
      <4>4. made \in Made /\ made.recsize = -1 /\ made.status = num /\ made.state = state
        BY <4>2, <4>3, Constructing
      <4> HIDE DEF made
      <4>5. QED BY <4>1, <4>3, <4>4 DEF Judged
    <3>4. QED BY <3>1, <3>2, <3>3
  <2> HIDE DEF er
  <2> DEFINE pg == IF er = NoPointer THEN NoPointer ELSE Diagnostics!Requested(er, cb)
  <2>4. pg \in {NoPointer} \cup Diagnostics!Infos /\ (pg # NoPointer => Judged(pg))
    <3>1. er # NoPointer => /\ Diagnostics!Requested(er, cb) \in Diagnostics!Infos
                       /\ Diagnostics!Requested(er, cb).status = er.status
                       /\ Diagnostics!Requested(er, cb).state = er.state
      BY <2>2, <2>3, Requesting
    <3>2. QED BY <2>3, <3>1 DEF Judged
  <2> HIDE DEF pg
  <2>5. desc' = [desc EXCEPT !.pg = pg]
    BY <2>1 DEF pg
  <2>6. desc' \in Descs /\ desc'.num = desc.num /\ desc'.msg = desc.msg /\ desc'.pg = pg
    BY <1>1, <2>4, <2>5
  <2>7. DescOK'
    BY <1>1, <2>4, <2>6 DEF DescOK
  <2>8. QED BY <1>2, <2>7, OthersOK DEF DiagInv
<1>6. QED BY <1>3, <1>4, <1>5

LEMMA ReadOK ==
  ASSUME Diagnostics!ConstantsKnown, DiagInv, NEW st \in DiagStatements,
         \/ \E cb \in DiagBuffers : Diagnostics!ReadRecord(st, cb)
         \/ Diagnostics!StmtField(st)
  PROVE  DiagInv'
<1> DEFINE x == stmt[st]
           r == reader[st]
           since == st \in blamed
           er == Diagnostics!SC_create_errorinfo(x)
           Y(cb) == [x EXCEPT !.pg = IF er = NoPointer THEN NoPointer ELSE Diagnostics!Requested(er, cb)]
<1>1. StmtOK(x, r, since) /\ conn.msg \in ConnTexts \cup {NoPointer}
  BY DEF DiagInv
<1>2. \A cb \in Nat : Diagnostics!PGAPI_StmtError(st, cb) => stmt' = [stmt EXCEPT ![st] = Y(cb)]
  <2>1. stmt \in [DiagStatements -> StmtRecords]
    BY DEF DiagInv
  <2>2. QED BY <2>1 DEF Diagnostics!PGAPI_StmtError
<1>3. CASE Diagnostics!StmtField(st)
  <2>1. stmt' = [stmt EXCEPT ![st] = Y(0)] /\ UNCHANGED <<env, conn, desc, reader, blamed>>
    BY <1>2, <1>3 DEF Diagnostics!StmtField
  <2>2. StmtOK(Y(0), r, since)
    BY <1>1, Fielding
  <2> HIDE DEF Y, x, r
  <2>3. Y(0) \in StmtRecords /\ r \in Readers
    BY <2>2 DEF StmtOK
  <2>4. reader' = [reader EXCEPT ![st] = r] /\ since = (st \in blamed')
    BY <2>1 DEF DiagInv, r
  <2>5. \A u \in DiagStatements \ {st} : u \in blamed' <=> u \in blamed
    BY <2>1
  <2>6. UNCHANGED <<env, conn, desc>>
    BY <2>1
  <2> HIDE DEF since
  <2>7. QED BY <2>1, <2>2, <2>3, <2>4, <2>5, <2>6, OneStatement
<1>4. CASE \E cb \in DiagBuffers : Diagnostics!ReadRecord(st, cb)
  <2>1. PICK cb \in DiagBuffers : Diagnostics!ReadRecord(st, cb)
    BY <1>4
  <2> DEFINE found == IF er = NoPointer THEN Diagnostics!NoData ELSE Diagnostics!ER_ReturnError(er, r.rec, cb)
             q == IF found.ret = "NO_DATA" THEN [r EXCEPT !.done = TRUE]
                  ELSE [r EXCEPT !.rec = r.rec + 1, !.cb = cb, !.text = r.text \o found.text]
             y == Y(cb)
  <2>2. cb \in Nat /\ ~r.done /\ (r.rec = 1 \/ r.cb = cb)
    BY <2>1 DEF Diagnostics!ReadRecord, Diagnostics!ConstantsKnown
  <2>3. Diagnostics!StmtErrorFound(st, r.rec, cb) = found
    BY DEF Diagnostics!StmtErrorFound
  <2>4. reader' = [reader EXCEPT ![st] = q]
    <3> DEFINE f == reader[st]
               e == [f EXCEPT !.rec = @ + 1, !.cb = cb, !.text = @ \o found.text]
    <3> HIDE DEF found
    <3>1. reader' = [reader EXCEPT ![st] =
            IF found.ret = "NO_DATA" THEN [f EXCEPT !.done = TRUE] ELSE e]
      BY <2>1, <2>3 DEF Diagnostics!ReadRecord
    <3>2. r \in Readers /\ f = r
      BY DEF DiagInv
    <3> HIDE DEF f, r
    <3>3. e = [r EXCEPT !.rec = r.rec + 1, !.cb = cb, !.text = r.text \o found.text]
      BY <3>2 DEF Readers
    <3> HIDE DEF e
    <3>4. (IF found.ret = "NO_DATA" THEN [f EXCEPT !.done = TRUE] ELSE e) = q
      BY <3>2, <3>3
    <3>5. QED BY <3>1, <3>4
  <2>5. stmt' = [stmt EXCEPT ![st] = y] /\ UNCHANGED <<env, conn, desc, blamed>>
    BY <1>2, <2>1, <2>2 DEF Diagnostics!ReadRecord
  <2>6. StmtOK(y, q, since)
    BY <1>1, <2>2, ReadingOn
  <2> HIDE DEF y, q, since
  <2>7. y \in StmtRecords /\ q \in Readers
    BY <2>6 DEF StmtOK
  <2>8. /\ since = (st \in blamed')
        /\ \A u \in DiagStatements \ {st} : u \in blamed' <=> u \in blamed
    BY <2>5 DEF since
  <2>9. UNCHANGED <<env, conn, desc>>
    BY <2>5
  <2>10. QED BY <2>4, <2>5, <2>6, <2>7, <2>8, <2>9, OneStatement
<1>5. QED BY <1>3, <1>4

LEMMA DiagStep == Diagnostics!ConstantsKnown /\ DiagInv /\ [Diagnostics!Next]_(Diagnostics!vars) => DiagInv'
<1> SUFFICES ASSUME Diagnostics!ConstantsKnown, DiagInv, [Diagnostics!Next]_(Diagnostics!vars) PROVE DiagInv'
  OBVIOUS
<1>1. QED BY CallOK, ConnOK, EnvAndConnOK, DescriptorOK, ReadOK DEF Diagnostics!Next

-----------------------------------------------------------------------------
(* What the invariant means for the application.                             *)

LEMMA OfItsLastCall == Diagnostics!ConstantsKnown /\ DiagInv => Diagnostics!RecordIsItsOwn
<1> SUFFICES ASSUME Diagnostics!ConstantsKnown, DiagInv PROVE Diagnostics!RecordIsItsOwn
  OBVIOUS
<1>1. ASSUME NEW st \in DiagStatements, stmt[st].pg # NoPointer
      PROVE  /\ stmt[st].pg.status = stmt[st].num
             /\ stmt[st].msg # NoPointer =>
                  SubSeq(stmt[st].pg.text, 1, Len(stmt[st].msg)) = stmt[st].msg
             /\ st \notin blamed =>
                  \A i \in 1..Len(stmt[st].pg.text) : stmt[st].pg.text[i] # "c"
             /\ Judged(stmt[st].pg)
  <2> DEFINE x == stmt[st]
             own == OwnText(x)
             text == x.pg.text
  <2>1. x \in StmtRecords /\ OwnRecord(x, st \in blamed) /\ x.pg # NoPointer
    BY <1>1 DEF DiagInv, StmtOK
  <2>2. PICK other \in Foreign : text = own \o other /\ (st \notin blamed => other = <<>>)
    BY <2>1 DEF OwnRecord
  <2>3. own \in Seq({"e"}) /\ own \in Seq(Diagnostics!Letters) /\ other \in Seq(Diagnostics!Letters) /\ Len(own) \in Nat
    BY <2>1, OwnTexts, Alphabets, LenProperties
  <2>4. x.msg # NoPointer => own = x.msg
    BY DEF OwnText
  <2> HIDE DEF own
  <2>5. SubSeq(text, 1, Len(own)) = own
    <3>1. CASE Len(own) = 0
      <4>1. own = <<>> /\ SubSeq(text, 1, 0) = <<>>
        BY <2>3, <3>1, EmptySeq, SubSeqEmpty
      <4>2. QED BY <3>1, <4>1
    <3>2. CASE Len(own) > 0
      <4>1. 1 \in 1..Len(own) /\ Len(own) \in 1..Len(own)
        BY <2>3, <3>2
      <4>2. SubSeq(own \o other, 1, Len(own)) = SubSeq(own, 1, Len(own))
        BY <2>3, <4>1, SubSeqOfConcat1
      <4>3. SubSeq(own, 1, Len(own)) = own
        BY <2>3, SubSeqFull
      <4>4. QED BY <2>2, <4>2, <4>3
    <3>3. QED BY <2>3, <3>1, <3>2
  <2>6. ASSUME st \notin blamed, NEW i \in 1..Len(text)
        PROVE  text[i] # "c"
    <3>1. text = own
      BY <2>2, <2>3, <2>6, ConcatEmptySeq
    <3> HIDE DEF text
    <3>2. own[i] \in {"e"}
      BY <2>3, <2>6, <3>1, ElementOfSeq
    <3>3. QED BY <3>1, <3>2
  <2>7. x.pg.status = x.num /\ Judged(x.pg)
    BY <2>1 DEF OwnRecord
  <2>8. QED BY <2>4, <2>5, <2>6, <2>7
<1>2. desc.pg # NoPointer => Judged(desc.pg)
  BY DEF DiagInv, DescOK
<1>3. Diagnostics!DiagIsOfLastCall /\ Diagnostics!ForeignTextIsNew
  BY <1>1 DEF Diagnostics!DiagIsOfLastCall, Diagnostics!ForeignTextIsNew
<1>4. Diagnostics!WarningsAreWarnings
  <2>1. \A er \in {stmt[st].pg : st \in DiagStatements} \cup {desc.pg} : er # NoPointer => Judged(er)
    BY <1>1, <1>2
  <2>2. QED BY <2>1 DEF Diagnostics!WarningsAreWarnings, Judged, Warnings
<1>5. QED BY <1>3, <1>4 DEF Diagnostics!RecordIsItsOwn

\* the record that is kept is the one that is read
LEMMA RecordKept ==
  ASSUME Diagnostics!ConstantsKnown, DiagInv, NEW st \in DiagStatements, stmt[st].pg # NoPointer
  PROVE  /\ Diagnostics!SC_create_errorinfo(stmt[st]) = stmt[st].pg
         /\ stmt[st].pg \in Diagnostics!Infos /\ stmt[st].pg \in Made /\ stmt[st].pg.recsize \in Nat
         /\ stmt[st].pg.text \in Seq(Diagnostics!Letters) /\ Len(stmt[st].pg.text) \in Nat
<1>1. stmt[st].pg \in Diagnostics!Infos
  BY DEF DiagInv, StmtRecords
<1>2. stmt[st].pg \in Made /\ stmt[st].pg.recsize \in Nat /\ stmt[st].pg.text \in Seq(Diagnostics!Letters)
  BY <1>1, InfosMade
<1>3. QED BY <1>1, <1>2, LenProperties DEF Diagnostics!SC_create_errorinfo

LEMMA ReadWhole == Diagnostics!ConstantsKnown /\ DiagInv => Diagnostics!RecordsTile
<1> SUFFICES ASSUME Diagnostics!ConstantsKnown, DiagInv, NEW st \in DiagStatements,
                    reader[st].done, stmt[st].pg # NoPointer,
                    stmt[st].pg.recsize = reader[st].cb - 1, stmt[st].pg.recsize > 0
             PROVE  reader[st].text = stmt[st].pg.text
  BY DEF Diagnostics!RecordsTile
<1>1. /\ OwnRecord(stmt[st], st \in blamed) /\ ReadSoFar(stmt[st], reader[st])
      /\ reader[st].rec \in Nat \ {0}
  BY DEF DiagInv, StmtOK, Readers
<1>2. stmt[st].num # 0
  BY <1>1 DEF OwnRecord
<1>3. reader[st].rec > 1
  BY <1>1, <1>2 DEF ReadSoFar
<1>4. QED BY <1>1, <1>3 DEF ReadSoFar

\* what is stored of a text in a buffer of cb letters
LEMMA Stored ==
  ASSUME NEW S, NEW text \in Seq(S), NEW cb \in Nat
  PROVE  LET found == SubSeq(text, 1, Diagnostics!Least(Len(text), cb - 1))
         IN found = <<>> \/ Len(found) < cb
<1> DEFINE n == Diagnostics!Least(Len(text), cb - 1)
           found == SubSeq(text, 1, n)
<1>1. Len(text) \in Nat /\ n \in Int /\ n <= Len(text) /\ n <= cb - 1
  BY LenProperties DEF Diagnostics!Least
<1>2. \A i \in 1..n : text[i] \in S
  BY <1>1, ElementOfSeq
<1> HIDE DEF n
<1>3. Len(found) = IF 1 <= n THEN n - 1 + 1 ELSE 0
  BY <1>1, <1>2, SubSeqProperties
<1>4. n < 1 => found = <<>>
  BY <1>1, SubSeqEmpty
<1>5. QED BY <1>1, <1>3, <1>4 DEF n

LEMMA PieceLen ==
  ASSUME NEW S, NEW text \in Seq(S), NEW at \in Nat, NEW n \in Nat, at + n <= Len(text)
  PROVE  /\ n = 0 => SubSeq(text, at + 1, at + n) = <<>>
         /\ Len(SubSeq(text, at + 1, at + n)) = n
<1> DEFINE i == at + 1
           j == at + n
<1>1. i \in Int /\ j \in Int /\ Len(text) \in Nat
  BY LenProperties
<1>2. \A k \in i..j : text[k] \in S
  <2>1. \A k \in i..j : k \in 1..Len(text)
    BY <1>1
  <2>2. QED BY <2>1, ElementOfSeq
<1>3. (j < i <=> n = 0) /\ (i <= j => j - i + 1 = n) /\ (i <= j <=> n # 0)
  OBVIOUS
<1> HIDE DEF i, j
<1>4. Len(SubSeq(text, i, j)) = IF i <= j THEN j - i + 1 ELSE 0
  BY <1>1, <1>2, SubSeqProperties
<1>5. n = 0 => SubSeq(text, i, j) = <<>>
  BY <1>1, <1>3, SubSeqEmpty
<1>6. QED BY <1>3, <1>4, <1>5 DEF i, j

LEMMA StmtFits ==
  ASSUME Diagnostics!ConstantsKnown, DiagInv, NEW st \in DiagStatements, NEW rec \in Nat \ {0}, NEW cb \in Nat
  PROVE  LET f == Diagnostics!StmtErrorFound(st, rec, cb) IN f.text = <<>> \/ Len(f.text) < cb
<1> DEFINE er == Diagnostics!SC_create_errorinfo(stmt[st])
           f == Diagnostics!ER_ReturnError(er, rec, cb)
           R == Diagnostics!RecSize(er, cb)
           at == (rec - 1) * R
           left == Len(er.text) - at
<1>1. er = NoPointer \/ (er \in Made /\ er.recsize >= -1)
  BY Creating DEF DiagInv
<1>2. CASE er = NoPointer
  BY <1>2 DEF Diagnostics!StmtErrorFound, Diagnostics!NoData
<1>3. CASE er # NoPointer
  <2>1. er \in Made /\ er.recsize >= -1
    BY <1>1, <1>3
  <2> HIDE DEF er
  <2>2. er.text \in Seq(Diagnostics!Letters) /\ Len(er.text) \in Nat
    BY <2>1, InfosMade, LenProperties
  <2>3. Diagnostics!StmtErrorFound(st, rec, cb) = f
    BY <1>3 DEF Diagnostics!StmtErrorFound, er
  <2> HIDE DEF f, R
  <2>4. /\ at \in Nat
        /\ at > Len(er.text) => f = Diagnostics!NoData
        /\ at <= Len(er.text) =>
             /\ f.ret \in {"SUCCESS", "SUCCESS_WITH_INFO"}
             /\ f.len = Diagnostics!Least(left, R)
             /\ \E n \in 0..left :
                  /\ f.text = SubSeq(er.text, at + 1, at + n)
                  /\ n = Diagnostics!Least(Diagnostics!Written(left, cb, R),
                                           Diagnostics!Least(left, R))
                  /\ n = 0 <=> f.ret = "SUCCESS_WITH_INFO"
                  /\ n = 0 \/ n < cb
                  /\ R = cb - 1 => n = Diagnostics!Least(left, R)
    BY <2>1, Piecewise, Zenon DEF f, R
  <2> HIDE DEF at
  <2>5. CASE at > Len(er.text)
    BY <2>3, <2>4, <2>5 DEF Diagnostics!NoData
  <2>6. CASE at <= Len(er.text)
    <3>1. PICK n \in 0..left : f.text = SubSeq(er.text, at + 1, at + n) /\ (n = 0 \/ n < cb)
      BY <2>4, <2>6
    <3>2. n \in Nat /\ at + n <= Len(er.text) /\ at \in Nat
      BY <2>2, <2>4, <2>6
    <3> DEFINE piece == SubSeq(er.text, at + 1, at + n)
    <3>3. (n = 0 => piece = <<>>) /\ Len(piece) = n
      BY <2>2, <3>2, PieceLen
    <3> HIDE DEF piece
    <3>4. f.text = piece
      BY <3>1 DEF piece
    <3>5. QED BY <2>3, <3>1, <3>3, <3>4
  <2>7. QED BY <2>2, <2>4, <2>5, <2>6
<1>4. QED BY <1>2, <1>3

LEMMA ConnFits ==
  ASSUME Diagnostics!ConstantsKnown, DiagInv, NEW cb \in Nat, NEW once \in BOOLEAN
  PROVE  LET f == Diagnostics!ConnectErrorFound(1, cb, once) IN f.text = <<>> \/ Len(f.text) < cb
<1> DEFINE text == SubSeq(conn.msg, 1, Diagnostics!Least(Len(conn.msg), cb - 1))
<1>1. CASE conn.msg = NoPointer \/ ~Diagnostics!CC_get_error
  BY <1>1 DEF Diagnostics!ConnectErrorFound, Diagnostics!NoData
<1>2. CASE conn.msg # NoPointer /\ Diagnostics!CC_get_error
  <2>1. conn.msg \in Seq({"c"})
    <3>1. conn.msg \in ConnTexts \cup {NoPointer}
      BY DEF DiagInv
    <3>2. QED BY <1>2, <3>1, Alphabets
  <2>2. text = <<>> \/ Len(text) < cb
    BY <2>1, Stored
  <2> HIDE DEF text
  <2>3. Diagnostics!ConnectErrorFound(1, cb, once).text = text
    BY <1>2 DEF Diagnostics!ConnectErrorFound, text
  <2>4. QED BY <2>2, <2>3
<1>3. QED BY <1>1, <1>2

LEMMA EnvFits ==
  ASSUME Diagnostics!ConstantsKnown, DiagInv, NEW cb \in Nat
  PROVE  LET f == Diagnostics!EnvErrorFound(1, cb) IN f.text = <<>> \/ Len(f.text) < cb
<1> DEFINE text == SubSeq(env.msg, 1, Diagnostics!Least(Len(env.msg), cb - 1))
<1>1. CASE env.msg = NoPointer \/ env.num = 0
  BY <1>1 DEF Diagnostics!EnvErrorFound, Diagnostics!NoData
<1>2. CASE env.msg # NoPointer /\ env.num # 0
  <2>1. env.msg \in Seq({"s", "m"})
    <3>1. <<"s">> \in Seq({"s", "m"}) /\ <<"m">> \in Seq({"s", "m"})
      OBVIOUS
    <3>2. env.msg \in {NoPointer, <<"s">>, <<"m">>}
      BY DEF DiagInv
    <3>3. QED BY <1>2, <3>1, <3>2
  <2>2. text = <<>> \/ Len(text) < cb
    BY <2>1, Stored
  <2> HIDE DEF text
  <2>3. Diagnostics!EnvErrorFound(1, cb).text = text
    BY <1>2 DEF Diagnostics!EnvErrorFound, text
  <2>4. QED BY <2>2, <2>3
<1>3. QED BY <1>1, <1>2

LEMMA FitsItsBuffer == Diagnostics!ConstantsKnown /\ DiagInv => Diagnostics!TextFits
<1> SUFFICES ASSUME Diagnostics!ConstantsKnown, DiagInv PROVE Diagnostics!TextFits
  OBVIOUS
<1> DEFINE Fit(f, cb) == f.text = <<>> \/ Len(f.text) < cb
           ofStmts(cb) == {Diagnostics!StmtErrorFound(st, rec, cb) : st \in DiagStatements, rec \in 1..MaxRecord}
           ofConn(cb) == {Diagnostics!ConnectErrorFound(1, cb, once) : once \in BOOLEAN}
           ofEnv(cb) == {Diagnostics!EnvErrorFound(1, cb)}
<1>1. ASSUME NEW cb \in DiagBuffers PROVE cb \in Nat /\ MaxRecord \in Nat
  BY DEF Diagnostics!ConstantsKnown
<1>2. ASSUME NEW cb \in DiagBuffers, NEW f \in ofStmts(cb) PROVE Fit(f, cb)
  <2>1. PICK st \in DiagStatements, rec \in 1..MaxRecord : f = Diagnostics!StmtErrorFound(st, rec, cb)
    BY <1>2
  <2>2. rec \in Nat \ {0}
    BY <1>1
  <2>3. QED BY <1>1, <2>1, <2>2, StmtFits
<1>3. ASSUME NEW cb \in DiagBuffers, NEW f \in ofConn(cb) PROVE Fit(f, cb)
  BY <1>1, <1>3, ConnFits
<1>4. ASSUME NEW cb \in DiagBuffers, NEW f \in ofEnv(cb) PROVE Fit(f, cb)
  BY <1>1, <1>4, EnvFits
<1> HIDE DEF Fit, ofStmts, ofConn, ofEnv
<1>5. \A cb \in DiagBuffers : \A f \in ofStmts(cb) \cup ofConn(cb) \cup ofEnv(cb) : Fit(f, cb)
  BY <1>2, <1>3, <1>4
<1>6. QED BY <1>5 DEF Diagnostics!TextFits, Fit, ofStmts, ofConn, ofEnv

LEMMA WideComes == Diagnostics!ConstantsKnown /\ DiagInv => Diagnostics!WideMessageComes
<1> SUFFICES ASSUME Diagnostics!ConstantsKnown, DiagInv, NEW st \in DiagStatements, NEW cb \in DiagBuffers,
                    stmt[st].pg # NoPointer, stmt[st].pg.recsize > 0, stmt[st].pg.text # <<>>
             PROVE  LET found == Diagnostics!StmtMessageW(st, 1, cb) IN Len(found.text) = found.len
  BY DEF Diagnostics!WideMessageComes
<1> DEFINE er == stmt[st].pg
           W == Diagnostics!WideBuffer(cb)
           f == Diagnostics!ER_ReturnError(er, 1, W)
           g == Diagnostics!ER_ReturnError(er, 1, f.len + 1)
           left == Len(er.text)
           R == er.recsize
           len == Diagnostics!Least(left, R)
<1>1. /\ Diagnostics!SC_create_errorinfo(stmt[st]) = er /\ er \in Made /\ R \in Nat /\ R > 0
      /\ er.text \in Seq(Diagnostics!Letters) /\ left \in Nat /\ er.text # <<>>
  BY RecordKept
<1>2. W \in Nat \ {0}
  BY DEF Diagnostics!WideBuffer, Diagnostics!ConstantsKnown
<1>3. left > 0 /\ len \in Nat /\ len > 0 /\ len <= left
  BY <1>1, EmptySeq DEF Diagnostics!Least
<1> HIDE DEF er
<1>4. Diagnostics!StmtMessageW(st, 1, cb) =
        IF f.ret = "SUCCESS_WITH_INFO" /\ f.len >= W THEN g ELSE f
  <2>1. Diagnostics!StmtErrorFound(st, 1, W) = f
    BY <1>1 DEF Diagnostics!StmtErrorFound, er
  <2>2. Diagnostics!Requested(Diagnostics!SC_create_errorinfo(stmt[st]), W) = er
    <3>1. er.recsize >= -1 /\ er.recsize >= 0 /\ W \in Nat
      BY <1>1, <1>2
    <3>2. QED BY <1>1, <3>1, Requesting
  <2> HIDE DEF f, W
  <2>3. QED BY <2>1, <2>2 DEF Diagnostics!StmtMessageW, W
<1> HIDE DEF W
<1>5. ASSUME NEW b \in Nat
      PROVE  LET p == Diagnostics!ER_ReturnError(er, 1, b)
                 n == Diagnostics!Least(Diagnostics!Written(left, b, R), len)
             IN /\ p.len = len /\ Len(p.text) = n
                /\ n = 0 <=> p.ret = "SUCCESS_WITH_INFO"
  <2> DEFINE p == Diagnostics!ER_ReturnError(er, 1, b)
             at == (1 - 1) * R
             n == Diagnostics!Least(Diagnostics!Written(left, b, R), len)
  <2>1. /\ Diagnostics!RecSize(er, b) = R /\ er.recsize >= -1 /\ 1 \in Nat \ {0}
        /\ at = 0 /\ ~(at > left)
        /\ left - at = left /\ at + 1 = 1
    BY <1>1 DEF Diagnostics!RecSize
  <2> HIDE DEF p
  <2>2. /\ at \in Nat
        /\ at > left => p = Diagnostics!NoData
        /\ at <= left =>
             /\ p.ret \in {"SUCCESS", "SUCCESS_WITH_INFO"}
             /\ p.len = Diagnostics!Least(left - at, R)
             /\ \E m \in 0..(left - at) :
                  /\ p.text = SubSeq(er.text, at + 1, at + m)
                  /\ m = Diagnostics!Least(Diagnostics!Written(left - at, b, R),
                                           Diagnostics!Least(left - at, R))
                  /\ m = 0 <=> p.ret = "SUCCESS_WITH_INFO"
                  /\ m = 0 \/ m < b
                  /\ R = b - 1 => m = Diagnostics!Least(left - at, R)
    <3> DEFINE Q == Diagnostics!RecSize(er, b)
    <3>1. /\ (1 - 1) * Q \in Nat
          /\ (1 - 1) * Q > left => p = Diagnostics!NoData
          /\ (1 - 1) * Q <= left =>
               /\ p.ret \in {"SUCCESS", "SUCCESS_WITH_INFO"}
               /\ p.len = Diagnostics!Least(left - (1 - 1) * Q, Q)
               /\ \E m \in 0..(left - (1 - 1) * Q) :
                    /\ p.text = SubSeq(er.text, (1 - 1) * Q + 1, (1 - 1) * Q + m)
                    /\ m = Diagnostics!Least(Diagnostics!Written(left - (1 - 1) * Q, b, Q),
                                             Diagnostics!Least(left - (1 - 1) * Q, Q))
                    /\ m = 0 <=> p.ret = "SUCCESS_WITH_INFO"
                    /\ m = 0 \/ m < b
                    /\ Q = b - 1 => m = Diagnostics!Least(left - (1 - 1) * Q, Q)
      BY <1>1, <2>1, Piecewise, Zenon DEF p
    <3>2. Q = R
      BY <2>1
    <3> HIDE DEF Q
    <3>3. QED BY <3>1, <3>2, Zenon
  <2> HIDE DEF at
  <2>3. PICK m \in 0..left : /\ p.text = SubSeq(er.text, 1, at + m) /\ m = n
                             /\ m = 0 <=> p.ret = "SUCCESS_WITH_INFO"
    BY <1>1, <2>1, <2>2
  <2>4. at + m = m /\ m \in Int /\ m <= left
    BY <1>1, <2>1
  <2>5. \A i \in 1..m : er.text[i] \in Diagnostics!Letters
    BY <1>1, <2>4, ElementOfSeq
  <2>6. Len(p.text) = IF 1 <= m THEN m - 1 + 1 ELSE 0
    BY <2>3, <2>4, <2>5, SubSeqProperties
  <2>7. p.len = len
    BY <1>1, <2>1, <2>2
  <2>8. QED BY <2>3, <2>6, <2>7 DEF p
<1> HIDE DEF len
<1>6. /\ f.len = len /\ Len(f.text) = Diagnostics!Least(Diagnostics!Written(left, W, R), len)
      /\ Diagnostics!Least(Diagnostics!Written(left, W, R), len) = 0 <=> f.ret = "SUCCESS_WITH_INFO"
  BY <1>2, <1>5
<1>7. CASE f.ret = "SUCCESS_WITH_INFO" /\ f.len >= W
  <2>1. g.len = len /\ Len(g.text) = Diagnostics!Least(Diagnostics!Written(left, f.len + 1, R), len)
    <3>1. f.len + 1 \in Nat
      BY <1>3, <1>6
    <3> HIDE DEF f
    <3>2. QED BY <1>5, <3>1
  <2>2. Diagnostics!Least(Diagnostics!Written(left, len + 1, R), len) = len
    BY <1>1, <1>3 DEF Diagnostics!Least, Diagnostics!Written, len
  <2> HIDE DEF f, g
  <2>3. QED BY <1>4, <1>6, <1>7, <2>1, <2>2
<1>8. CASE ~(f.ret = "SUCCESS_WITH_INFO" /\ f.len >= W)
  <2> HIDE DEF f, g
  <2>1. ~(Diagnostics!Least(Diagnostics!Written(left, W, R), len) = 0 /\ len >= W)
    BY <1>6, <1>8
  <2>2. Diagnostics!Least(Diagnostics!Written(left, W, R), len) = len
    BY <1>1, <1>2, <1>3, <2>1 DEF Diagnostics!Least, Diagnostics!Written, len
  <2>3. QED BY <1>4, <1>6, <1>8, <2>2
<1>9. QED BY <1>7, <1>8

LEMMA ComesWhole == Diagnostics!ConstantsKnown /\ DiagInv => Diagnostics!MessageComesWhole
  BY ReadWhole, FitsItsBuffer, WideComes DEF Diagnostics!MessageComesWhole

-----------------------------------------------------------------------------
(* Connecting: what a completed string leads to.                             *)

LEMMA Greatest ==
  ASSUME NEW n \in Nat, NEW S \in SUBSET (0..n), S # {}
  PROVE  Connecting!Max(S) \in S
<1> DEFINE T == {n - x : x \in S}
<1>1. T \subseteq Nat /\ T # {}
  <2>1. \A x \in S : n - x \in Nat
    OBVIOUS
  <2>2. QED BY <2>1
<1>2. PICK t \in T : \A y \in T : t <= y
  <2> HIDE DEF T
  <2> DEFINE R == OpToRel(<, Nat)
  <2>1. IsWellFoundedOn(R, Nat)
    BY NatLessThanWellFounded
  <2>2. \A x, y \in Nat : y < x => <<y, x>> \in R
    BY DEF OpToRel
  <2> HIDE DEF R
  <2>3. PICK t \in T : \A y \in T : ~(<<y, t>> \in R)
    BY <1>1, <2>1, WFMin
  <2>4. ASSUME NEW y \in T PROVE t <= y
    <3>1. t \in Nat /\ y \in Nat /\ ~(y < t)
      BY <1>1, <2>2, <2>3
    <3>2. QED BY <3>1
  <2>5. QED BY <2>4
<1>3. PICK x \in S : t = n - x
  BY <1>2
<1>4. \A y \in S : x >= y
  <2>1. ASSUME NEW y \in S PROVE x >= y
    <3>1. n - x <= n - y
      BY <1>2, <1>3
    <3>2. QED BY <3>1
  <2>2. QED BY <2>1
<1>5. QED BY <1>4 DEF Connecting!Max

-----------------------------------------------------------------------------
(* A completed string names what it was made of.                             *)

LEMMA Attribute ==
  ASSUME NEW str, NEW f \in Connecting!Fields, NEW k \in Nat, Connecting!Naming(str, f) = {k}
  PROVE  Connecting!ConnectAttributes(str)[f] = str[k].value
<1>1. Connecting!Max({k}) = k
  BY DEF Connecting!Max
<1>2. QED BY <1>1 DEF Connecting!ConnectAttributes

LEMMA NoAttribute ==
  ASSUME NEW str, NEW f \in Connecting!Fields, Connecting!Naming(str, f) = {}
  PROVE  Connecting!ConnectAttributes(str)[f] = Connecting!NotGiven
BY DEF Connecting!ConnectAttributes

\* the pairs of a completed string
PairsOf(made, ci, room) ==
  /\ DOMAIN made = (IF room < 1024 THEN 1..6 ELSE 1..7)
  /\ ci.dsn # Connecting!NotGiven => made[1] = Connecting!Pair("DSN", ci.dsn)
  /\ ci.dsn = Connecting!NotGiven => made[1] = Connecting!Pair("DRIVER", ci.driver)
  /\ made[2] = Connecting!Pair("DATABASE", ci.database)
  /\ made[3] = Connecting!Pair("SERVER", ci.server)
  /\ made[4] = Connecting!Pair("PORT", ci.port)
  /\ made[5] = Connecting!Pair("UID", ci.username)
  /\ made[6] = Connecting!Pair("PWD", ci.password)
  /\ ~(room < 1024) => made[7] = Connecting!Pair("READONLY", ci.onlyread)

LEMMA Pairs ==
  ASSUME NEW ci, NEW room
  PROVE  PairsOf(Connecting!MakeConnectString(ci, room), ci, room)
<1>1. CASE room < 1024
  BY <1>1 DEF Connecting!MakeConnectString, PairsOf
<1>2. CASE ~(room < 1024)
  BY <1>2 DEF Connecting!MakeConnectString, PairsOf
<1>3. QED BY <1>1, <1>2

\* what the pairs of a string say, if each field is named once
LEMMA Once ==
  ASSUME NEW made, NEW k \in DOMAIN made, k \in Nat, NEW f \in Connecting!Fields,
         \A i \in DOMAIN made : made[i].attr \in DOMAIN Connecting!FieldOf,
         \A i \in DOMAIN made : Connecting!FieldOf[made[i].attr] = f <=> i = k
  PROVE  Connecting!ConnectAttributes(made)[f] = made[k].value
<1>1. Connecting!Naming(made, f) = {k}
  BY DEF Connecting!Naming
<1>2. QED BY <1>1, Attribute

LEMMA Nowhere ==
  ASSUME NEW made, NEW f \in Connecting!Fields,
         \A i \in DOMAIN made : Connecting!FieldOf[made[i].attr] # f
  PROVE  Connecting!ConnectAttributes(made)[f] = Connecting!NotGiven
<1>1. Connecting!Naming(made, f) = {}
  BY DEF Connecting!Naming
<1>2. QED BY <1>1, NoAttribute

\* the names it holds: a driver is left out for a data source, the moniker always
Named(ca, ci, room) ==
  /\ ca["dsn"] = ci["dsn"]
  /\ ca["driver"] = (IF ci["dsn"] # Connecting!NotGiven THEN Connecting!NotGiven ELSE ci["driver"])
  /\ \A f \in {"database", "server", "port", "username", "password"} : ca[f] = ci[f]
  /\ ca["onlyread"] = (IF room < 1024 THEN Connecting!NotGiven ELSE ci["onlyread"])
  /\ ca["dbus"] = Connecting!NotGiven

LEMMA NamesInString ==
  ASSUME NEW ci, NEW room
  PROVE  Named(Connecting!ConnectAttributes(Connecting!MakeConnectString(ci, room)), ci, room)
<1> DEFINE made == Connecting!MakeConnectString(ci, room)
           ca == Connecting!ConnectAttributes(made)
           of(i) == Connecting!FieldOf[made[i].attr]
           known(i) == made[i].attr \in DOMAIN Connecting!FieldOf
<1>1. PairsOf(made, ci, room)
  BY Pairs
<1> HIDE DEF made
<1>2. {"DSN", "DRIVER", "DATABASE", "SERVER", "PORT", "UID", "PWD", "READONLY"}
         \subseteq DOMAIN Connecting!FieldOf
  BY DEF Connecting!FieldOf
<1>3. /\ Connecting!FieldOf["DSN"] = "dsn" /\ Connecting!FieldOf["DRIVER"] = "driver"
      /\ Connecting!FieldOf["DATABASE"] = "database" /\ Connecting!FieldOf["SERVER"] = "server"
      /\ Connecting!FieldOf["PORT"] = "port" /\ Connecting!FieldOf["UID"] = "username"
      /\ Connecting!FieldOf["PWD"] = "password" /\ Connecting!FieldOf["READONLY"] = "onlyread"
  BY DEF Connecting!FieldOf
<1>4. \A i \in DOMAIN made : i \in {1, 2, 3, 4, 5, 6, 7}
  BY <1>1 DEF PairsOf
<1>5. {1, 2, 3, 4, 5, 6} \subseteq DOMAIN made /\ (7 \in DOMAIN made <=> ~(room < 1024))
  BY <1>1 DEF PairsOf
<1>6. ci["dsn"] # Connecting!NotGiven => known(1) /\ of(1) = "dsn" /\ made[1].value = ci["dsn"]
  BY <1>1, <1>2, <1>3 DEF PairsOf, Connecting!Pair
<1>7. ci["dsn"] = Connecting!NotGiven => known(1) /\ of(1) = "driver" /\ made[1].value = ci["driver"]
  BY <1>1, <1>2, <1>3 DEF PairsOf, Connecting!Pair
<1>8. known(2) /\ of(2) = "database" /\ made[2].value = ci["database"]
  BY <1>1, <1>2, <1>3 DEF PairsOf, Connecting!Pair
<1>9. known(3) /\ of(3) = "server" /\ made[3].value = ci["server"]
  BY <1>1, <1>2, <1>3 DEF PairsOf, Connecting!Pair
<1>10. known(4) /\ of(4) = "port" /\ made[4].value = ci["port"]
  BY <1>1, <1>2, <1>3 DEF PairsOf, Connecting!Pair
<1>11. known(5) /\ of(5) = "username" /\ made[5].value = ci["username"]
  BY <1>1, <1>2, <1>3 DEF PairsOf, Connecting!Pair
<1>12. known(6) /\ of(6) = "password" /\ made[6].value = ci["password"]
  BY <1>1, <1>2, <1>3 DEF PairsOf, Connecting!Pair
<1>13. ~(room < 1024) => known(7) /\ of(7) = "onlyread" /\ made[7].value = ci["onlyread"]
  BY <1>1, <1>2, <1>3 DEF PairsOf, Connecting!Pair
<1> HIDE DEF known, of
<1>14. \A i \in DOMAIN made : known(i)
  BY <1>4, <1>5, <1>6, <1>7, <1>8, <1>9, <1>10, <1>11, <1>12, <1>13
<1>15. of(1) \in {"dsn", "driver"}
  BY <1>6, <1>7
<1>16. ASSUME NEW f \in Connecting!Fields, NEW k \in DOMAIN made, k \in Nat,
              \A i \in DOMAIN made : of(i) = f <=> i = k
       PROVE  ca[f] = made[k].value
  BY <1>14, <1>16, Once DEF of, known
<1>17. ASSUME NEW f \in Connecting!Fields, \A i \in DOMAIN made : of(i) # f
       PROVE  ca[f] = Connecting!NotGiven
  BY <1>17, Nowhere DEF of
<1>18. {"dsn", "driver", "database", "server", "port", "username", "password", "onlyread", "dbus"}
         \subseteq Connecting!Fields
  BY DEF Connecting!Fields
<1> HIDE DEF ca
<1> DEFINE at(f, k) == \A i \in DOMAIN made : of(i) = f <=> i = k
<1>19. /\ at("database", 2) /\ at("server", 3) /\ at("port", 4)
       /\ at("username", 5) /\ at("password", 6)
  BY <1>4, <1>5, <1>8, <1>9, <1>10, <1>11, <1>12, <1>13, <1>15
<1>20. /\ ca["database"] = ci["database"] /\ ca["server"] = ci["server"] /\ ca["port"] = ci["port"]
       /\ ca["username"] = ci["username"] /\ ca["password"] = ci["password"]
  BY <1>5, <1>8, <1>9, <1>10, <1>11, <1>12, <1>16, <1>18, <1>19
<1>21. ca["dbus"] = Connecting!NotGiven
  <2>1. \A i \in DOMAIN made : of(i) # "dbus"
    BY <1>4, <1>5, <1>8, <1>9, <1>10, <1>11, <1>12, <1>13, <1>15
  <2>2. QED BY <1>17, <1>18, <2>1
<1>22. ca["onlyread"] = (IF room < 1024 THEN Connecting!NotGiven ELSE ci["onlyread"])
  <2>1. CASE room < 1024
    <3>1. \A i \in DOMAIN made : of(i) # "onlyread"
      BY <1>4, <1>5, <1>8, <1>9, <1>10, <1>11, <1>12, <1>15, <2>1
    <3>2. QED BY <1>17, <1>18, <2>1, <3>1
  <2>2. CASE ~(room < 1024)
    <3>1. at("onlyread", 7)
      BY <1>4, <1>5, <1>8, <1>9, <1>10, <1>11, <1>12, <1>13, <1>15, <2>2
    <3>2. QED BY <1>5, <1>13, <1>16, <1>18, <2>2, <3>1
  <2>3. QED BY <2>1, <2>2
<1>23. /\ ca["dsn"] = ci["dsn"]
       /\ ca["driver"] = (IF ci["dsn"] # Connecting!NotGiven THEN Connecting!NotGiven ELSE ci["driver"])
  <2>1. CASE ci["dsn"] # Connecting!NotGiven
    <3>1. at("dsn", 1) /\ \A i \in DOMAIN made : of(i) # "driver"
      BY <1>4, <1>5, <1>6, <1>8, <1>9, <1>10, <1>11, <1>12, <1>13, <2>1
    <3>2. ca["dsn"] = made[1].value
      BY <1>5, <1>16, <1>18, <3>1
    <3>3. ca["driver"] = Connecting!NotGiven
      BY <1>17, <1>18, <3>1
    <3>4. QED BY <1>6, <2>1, <3>2, <3>3
  <2>2. CASE ci["dsn"] = Connecting!NotGiven
    <3>1. at("driver", 1) /\ \A i \in DOMAIN made : of(i) # "dsn"
      BY <1>4, <1>5, <1>7, <1>8, <1>9, <1>10, <1>11, <1>12, <1>13, <2>2
    <3>2. ca["driver"] = made[1].value
      BY <1>5, <1>16, <1>18, <3>1
    <3>3. ca["dsn"] = Connecting!NotGiven
      BY <1>17, <1>18, <3>1
    <3>4. QED BY <1>7, <2>2, <3>2, <3>3
  <2>3. QED BY <2>1, <2>2
<1>24. Named(ca, ci, room)
  BY <1>20, <1>21, <1>22, <1>23 DEF Named
<1>25. QED BY <1>24 DEF ca, made

-----------------------------------------------------------------------------
(* What is complete stays so.                                                *)

\* a field of a string or, if the string left it out, of its data source
Filled(ca, f) ==
  IF /\ ca[f] = Connecting!NotGiven
     /\ ~(ca["dsn"] = Connecting!NotGiven /\ ca["driver"] # Connecting!NotGiven)
  THEN Connecting!Entry(ca["dsn"])[f] ELSE ca[f]
Copied == {"driver", "server", "database", "username", "password", "dbus"}

\* what GetDSNinfo and GetDSNdefaults leave
CompletedFrom(ci, ca) ==
  /\ ci["dsn"] = ca["dsn"]
  /\ ci["port"] = (IF Filled(ca, "port") = Connecting!NotGiven THEN Connecting!DefaultPort ELSE Filled(ca, "port"))
  /\ ci["onlyread"] = (IF Filled(ca, "onlyread") = Connecting!NotGiven THEN "0" ELSE Filled(ca, "onlyread"))
  /\ \A f \in Copied : ci[f] = Filled(ca, f)

LEMMA CompletedIs ==
  ASSUME NEW str
  PROVE  CompletedFrom(Connecting!Completed(str), Connecting!ConnectAttributes(str))
<1> DEFINE ci == Connecting!Completed(str)
           ca == Connecting!ConnectAttributes(str)
           info == Connecting!GetDSNinfo(ca, FALSE)
<1>1. ci = Connecting!GetDSNdefaults(info)
  BY DEF Connecting!Completed
<1>2. ca = [f \in Connecting!Fields |-> ca[f]]
  BY DEF Connecting!ConnectAttributes
<1> HIDE DEF ci, ca
<1>3. /\ info = [f \in Connecting!Fields |-> info[f]] /\ info["dsn"] = ca["dsn"]
      /\ \A f \in Connecting!Fields \ {"dsn"} : info[f] = Filled(ca, f)
  <2>1. CASE ca["dsn"] = Connecting!NotGiven /\ ca["driver"] # Connecting!NotGiven
    BY <1>2, <2>1 DEF Connecting!GetDSNinfo, Filled
  <2>2. CASE ~(ca["dsn"] = Connecting!NotGiven /\ ca["driver"] # Connecting!NotGiven)
    <3>1. info = [f \in Connecting!Fields |->
                    IF f = "dsn" THEN ca["dsn"]
                    ELSE IF ca[f] = Connecting!NotGiven THEN Connecting!Entry(ca["dsn"])[f] ELSE ca[f]]
      BY <2>2 DEF Connecting!GetDSNinfo, Connecting!DefaultSource
    <3>2. "dsn" \in Connecting!Fields
      BY DEF Connecting!Fields
    <3> HIDE DEF info
    <3>3. QED BY <2>2, <3>1, <3>2 DEF Filled
  <2>3. QED BY <2>1, <2>2
<1> HIDE DEF info
<1>4. {"dsn", "port", "onlyread"} \cup Copied = Connecting!Fields
  BY DEF Connecting!Fields, Copied
<1>5. /\ ci["dsn"] = info["dsn"]
      /\ ci["port"] = (IF info["port"] = Connecting!NotGiven THEN Connecting!DefaultPort ELSE info["port"])
      /\ ci["onlyread"] = (IF info["onlyread"] = Connecting!NotGiven THEN "0" ELSE info["onlyread"])
      /\ \A f \in Copied : ci[f] = info[f]
  BY <1>1, <1>3, <1>4 DEF Connecting!GetDSNdefaults, Copied
<1>6. "port" \in Connecting!Fields \ {"dsn"} /\ "onlyread" \in Connecting!Fields \ {"dsn"}
      /\ Copied \subseteq Connecting!Fields \ {"dsn"}
  BY DEF Connecting!Fields, Copied
<1>7. QED BY <1>3, <1>5, <1>6 DEF CompletedFrom, ci, ca

Stays(ci, room) ==
  LET made == Connecting!MakeConnectString(ci, room)
      same == Connecting!Completed(made)
  IN /\ \A f \in Connecting!NamesKept : same[f] = ci[f]
     /\ Connecting!MakeConnectString(same, room) = made
     /\ ~Connecting!DbusProvided(made)

LEMMA CompletedAgain ==
  ASSUME NEW str, NEW room
  PROVE  Stays(Connecting!Completed(str), room)
<1> DEFINE ci == Connecting!Completed(str)
           made == Connecting!MakeConnectString(ci, room)
           same == Connecting!Completed(made)
           ca == Connecting!ConnectAttributes(str)
           cb == Connecting!ConnectAttributes(made)
<1>1. CompletedFrom(ci, ca)
  BY CompletedIs
<1>2. CompletedFrom(same, cb)
  BY CompletedIs
<1>3. Named(cb, ci, room)
  BY NamesInString
<1> HIDE DEF ci, made, same, ca, cb
<1> USE DEF CompletedFrom, Named
<1>4. ci["port"] # Connecting!NotGiven /\ ci["onlyread"] # Connecting!NotGiven
  <2>1. Connecting!DefaultPort # Connecting!NotGiven
    BY Zenon DEF Connecting!DefaultPort, Connecting!NotGiven
  <2>2. "0" # Connecting!NotGiven
    BY Zenon DEF Connecting!NotGiven
  <2>3. QED BY <1>1, <2>1, <2>2
<1>5. same["port"] = ci["port"]
  BY <1>2, <1>3, <1>4 DEF Filled
<1>6. ASSUME NEW f \in {"server", "database", "username", "password"}
      PROVE  same[f] = ci[f]
  <2>1. cb[f] = ci[f] /\ ci[f] = Filled(ca, f) /\ same[f] = Filled(cb, f)
    BY <1>1, <1>2, <1>3 DEF Copied
  <2>2. CASE ci[f] # Connecting!NotGiven
    BY <2>1, <2>2 DEF Filled
  <2>3. CASE /\ ci[f] = Connecting!NotGiven
             /\ ca["dsn"] = Connecting!NotGiven /\ ca["driver"] # Connecting!NotGiven
    <3>1. ci["driver"] = ca["driver"]
      BY <1>1, <2>3 DEF Copied, Filled
    <3>2. cb["dsn"] = Connecting!NotGiven /\ cb["driver"] # Connecting!NotGiven
      BY <1>1, <1>3, <2>3, <3>1
    <3>3. QED BY <2>1, <2>3, <3>2 DEF Filled
  <2>4. CASE /\ ci[f] = Connecting!NotGiven
             /\ ~(ca["dsn"] = Connecting!NotGiven /\ ca["driver"] # Connecting!NotGiven)
    <3>1. Connecting!Entry(ca["dsn"])[f] = Connecting!NotGiven
      BY <2>1, <2>4 DEF Filled
    <3>2. cb["dsn"] = ca["dsn"]
      BY <1>1, <1>3
    <3>3. QED BY <2>1, <2>4, <3>1, <3>2 DEF Filled
  <2>5. QED BY <2>2, <2>3, <2>4
<1>7. ci["dsn"] = Connecting!NotGiven => same["driver"] = ci["driver"]
  <2>1. "driver" \in Copied
    BY DEF Copied
  <2>2. CASE ci["dsn"] = Connecting!NotGiven /\ ci["driver"] # Connecting!NotGiven
    BY <1>2, <1>3, <2>1, <2>2 DEF Filled
  <2>3. CASE ci["dsn"] = Connecting!NotGiven /\ ci["driver"] = Connecting!NotGiven
    <3>1. /\ ca["driver"] = Connecting!NotGiven
          /\ Connecting!Entry(Connecting!NotGiven)["driver"] = Connecting!NotGiven
      BY <1>1, <2>1, <2>3 DEF Filled
    <3>2. QED BY <1>2, <1>3, <2>1, <2>3, <3>1 DEF Filled
  <2>4. QED BY <2>2, <2>3
<1>8. ~(room < 1024) => same["onlyread"] = ci["onlyread"]
  BY <1>2, <1>3, <1>4 DEF Filled
<1>9. same["dsn"] = ci["dsn"]
  BY <1>2, <1>3
<1>10. \A f \in Connecting!NamesKept : same[f] = ci[f]
  BY <1>5, <1>6, <1>9 DEF Connecting!NamesKept
<1>11. Connecting!MakeConnectString(same, room) = Connecting!MakeConnectString(ci, room)
  <2>1. \A f \in {"database", "server", "port", "username", "password"} : same[f] = ci[f]
    BY <1>5, <1>6
  <2>2. CASE room < 1024
    BY <1>7, <1>9, <2>1, <2>2 DEF Connecting!MakeConnectString
  <2>3. CASE ~(room < 1024)
    BY <1>7, <1>8, <1>9, <2>1, <2>3 DEF Connecting!MakeConnectString
  <2>4. QED BY <2>2, <2>3
<1>12. ~Connecting!DbusProvided(made)
  BY <1>3 DEF Connecting!DbusProvided, cb
<1>13. QED BY <1>10, <1>11, <1>12 DEF Stays, ci, made, same

-----------------------------------------------------------------------------
(* A string that is cut off.                                                 *)

LEMMA NothingSized == Connecting!Size(<<>>) = 0
<1> DEFINE Sums(f) == f = [i \in 0..Len(<<>>) |->
                             IF i = 0 THEN 0
                             ELSE f[i - 1] + Len(<<>>[i].attr) + Len(<<>>[i].value) + 2]
           upto == CHOOSE f : Sums(f)
<1>1. Connecting!Size(<<>>) = upto[Len(<<>>)]
  BY DEF Connecting!Size
<1>2. Len(<<>>) = 0
  OBVIOUS
<1>3. Sums(upto)
  <2> DEFINE f == [i \in 0..0 |-> 0]
  <2>1. Sums(f)
    BY <1>2
  <2> HIDE DEF Sums, f
  <2>2. QED BY <2>1
<1> HIDE DEF upto
<1>4. upto[0] = 0
  BY <1>2, <1>3
<1>5. QED BY <1>1, <1>2, <1>4

LEMMA MadeIsSeq ==
  ASSUME NEW ci, NEW room
  PROVE  \E X : Connecting!MakeConnectString(ci, room) \in Seq(X)
<1> DEFINE first6 == <<IF ci.dsn # Connecting!NotGiven THEN Connecting!Pair("DSN", ci.dsn)
                       ELSE Connecting!Pair("DRIVER", ci.driver),
                       Connecting!Pair("DATABASE", ci.database), Connecting!Pair("SERVER", ci.server),
                       Connecting!Pair("PORT", ci.port), Connecting!Pair("UID", ci.username),
                       Connecting!Pair("PWD", ci.password)>>
           last == Connecting!Pair("READONLY", ci.onlyread)
           X == {first6[i] : i \in 1..6} \cup {last}
<1>1. first6 \in Seq(X)
  <2>1. first6 = [i \in 1..6 |-> first6[i]]
    OBVIOUS
  <2> HIDE DEF first6, last
  <2>2. \A i \in 1..6 : first6[i] \in X
    OBVIOUS
  <2>3. first6 \in [1..6 -> X]
    BY <2>1, <2>2
  <2> HIDE DEF X
  <2>4. Seq(X) = UNION {[1..n -> X] : n \in Nat}
    BY SeqDef
  <2>5. QED BY <2>3, <2>4
<1>2. <<>> \in Seq(X) /\ <<last>> \in Seq(X)
  <2>1. last \in X
    OBVIOUS
  <2> HIDE DEF X, last
  <2>2. QED BY <2>1
<1>3. Connecting!MakeConnectString(ci, room) = first6 \o (IF room < 1024 THEN <<>> ELSE <<last>>)
  BY DEF Connecting!MakeConnectString
<1> HIDE DEF first6, last, X
<1>4. Connecting!MakeConnectString(ci, room) \in Seq(X)
  BY <1>1, <1>2, <1>3
<1>5. QED BY <1>4

LEMMA CutOff ==
  ASSUME NEW X, NEW whole \in Seq(X), NEW max \in Nat, Connecting!Size(whole) >= max
  PROVE  LET left == Connecting!Fitting(whole, max)
         IN Connecting!Size(left) <= max /\ left = SubSeq(whole, 1, Len(left))
<1> DEFINE fit == {n \in 0..Len(whole) : Connecting!Size(SubSeq(whole, 1, n)) <= max}
           n == Connecting!Max(fit)
<1>1. 0 \in fit
  <2>1. SubSeq(whole, 1, 0) = <<>>
    OBVIOUS
  <2>2. Connecting!Size(SubSeq(whole, 1, 0)) <= max
    <3> DEFINE size == Connecting!Size(SubSeq(whole, 1, 0))
    <3>1. size = Connecting!Size(<<>>)
      BY <2>1
    <3>2. size = 0
      BY <3>1, NothingSized
    <3> HIDE DEF size
    <3>3. size <= max
      BY <3>2
    <3>4. QED BY <3>3 DEF size
  <2>3. 0 \in 0..Len(whole)
    OBVIOUS
  <2>4. QED BY <2>2, <2>3
<1>2. n \in fit
  <2> HIDE DEF fit
  <2>1. fit \in SUBSET (0..Len(whole)) /\ Len(whole) \in Nat
    BY DEF fit
  <2>2. QED BY <1>1, <2>1, Greatest
<1>3. Connecting!Fitting(whole, max) = SubSeq(whole, 1, n)
  BY DEF Connecting!Fitting
<1>4. n \in 0..Len(whole) /\ Connecting!Size(SubSeq(whole, 1, n)) <= max
  BY <1>2
<1> HIDE DEF n
<1>5. Len(SubSeq(whole, 1, n)) = n
  BY <1>4
<1>6. QED BY <1>3, <1>4, <1>5

-----------------------------------------------------------------------------
(* What was tried, and what was tried again.                                 *)

Tried(str, max, jet, outcome) ==
  LET r == Connecting!SQLDriverConnectW(str, max, jet, outcome)
  IN [str |-> str, max |-> max, jet |-> jet, ret |-> r.ret, error |-> r.error,
      moniker |-> r.moniker, out |-> r.out, len |-> r.len]

FirstOK ==
  \/ first = Connecting!Untried
  \/ first.ret = "SUCCESS" /\ "str" \notin DOMAIN first
  \/ \E str \in ConnectStrings, max \in OutSizes, jet \in BOOLEAN, outcome \in Connecting!Tests :
       first = Tried(str, max, jet, outcome)
AgainOK ==
  again # Connecting!Untried =>
    /\ first.ret = "SUCCESS" /\ "str" \in DOMAIN first
    /\ again = Connecting!DriverConnect(first.out, first.max, first.jet, "ok")
ConnInv == FirstOK /\ AgainOK

LEMMA InitConn == Connecting!Init => ConnInv
  BY DEF Connecting!Init, ConnInv, FirstOK, AgainOK

LEMMA StepConn ==
  ASSUME ConnInv, [Connecting!Next]_(Connecting!vars)
  PROVE  ConnInv'
<1>1. ASSUME NEW str \in ConnectStrings, NEW max \in OutSizes, NEW jet \in BOOLEAN,
             NEW outcome \in Connecting!Tests, Connecting!ConnectWith(str, max, jet, outcome)
      PROVE  ConnInv'
  <2>1. first' = Tried(str, max, jet, outcome)
    BY <1>1 DEF Connecting!ConnectWith, Tried
  <2>2. again = Connecting!Untried /\ again' = again
    BY <1>1 DEF Connecting!ConnectWith, Connecting!Untried, ConnInv, AgainOK
  <2>3. QED BY <2>1, <2>2 DEF ConnInv, FirstOK, AgainOK
<1>2. ASSUME NEW dsn, Connecting!ConnectTo(dsn) PROVE ConnInv'
  <2>1. again = Connecting!Untried /\ again' = again
    BY <1>2 DEF Connecting!ConnectTo, Connecting!Untried, ConnInv, AgainOK
  <2>2. first'.ret = "SUCCESS" /\ "str" \notin DOMAIN first'
    BY <1>2 DEF Connecting!ConnectTo, Connecting!Connect
  <2>3. QED BY <2>1, <2>2 DEF ConnInv, FirstOK, AgainOK
<1>3. CASE Connecting!Reconnect
  BY <1>3 DEF Connecting!Reconnect, ConnInv, FirstOK, AgainOK
<1>4. CASE Connecting!Disconnect
  BY <1>4 DEF Connecting!Disconnect, ConnInv, FirstOK, AgainOK
<1>5. CASE UNCHANGED Connecting!vars
  BY <1>5 DEF Connecting!vars, ConnInv, FirstOK, AgainOK
<1>6. QED BY <1>1, <1>2, <1>3, <1>4, <1>5 DEF Connecting!Next

\* the answers of PGAPI_DriverConnect
Room(max, jet) == IF jet /\ max > 255 THEN 255 ELSE max
StringFor(str, max, jet) == Connecting!MakeConnectString(Connecting!Completed(str), Room(max, jet))
Reached(str) == ~Connecting!MissingOptions(str) /\ ~Connecting!MonikerTooLong(str)

LEMMA Answers ==
  ASSUME NEW str, NEW max, NEW jet, NEW outcome
  PROVE  LET r == Connecting!DriverConnect(str, max, jet, outcome)
             whole == StringFor(str, max, jet)
             truncated == Connecting!Size(whole) >= max
         IN \/ r.ret = "ERROR" /\ ~(Reached(str) /\ outcome = "ok")
            \/ /\ Reached(str) /\ outcome = "ok"
               /\ r.ret = (IF truncated THEN "SUCCESS_WITH_INFO" ELSE "SUCCESS")
               /\ r.moniker = Connecting!Moniker(str)
               /\ r.out = Connecting!Fitting(whole, max)
               /\ r.len = Connecting!Size(whole)
<1> USE DEF Connecting!DriverConnect, Connecting!Unconnected, Reached, StringFor, Room
<1>1. CASE Connecting!MissingOptions(str)
  BY <1>1
<1>2. CASE ~Connecting!MissingOptions(str) /\ Connecting!MonikerTooLong(str)
  BY <1>2
<1>3. CASE Reached(str) /\ outcome # "ok"
  BY <1>3
<1>4. CASE Reached(str) /\ outcome = "ok"
  BY <1>4
<1>5. QED BY <1>1, <1>2, <1>3, <1>4

\* without a buffer every string would be too long for it: it is so already
LEMMA WideAnswers ==
  ASSUME NEW str, NEW max, NEW jet, NEW outcome
  PROVE  Connecting!SQLDriverConnectW(str, max, jet, outcome) = Connecting!DriverConnect(str, max, jet, outcome)
<1> DEFINE r == Connecting!DriverConnect(str, max, jet, outcome)
           whole == StringFor(str, max, jet)
<1>1. ~(r.ret = "SUCCESS" /\ r.len >= max)
  <2>1. \/ r.ret = "ERROR"
        \/ /\ r.ret = (IF Connecting!Size(whole) >= max THEN "SUCCESS_WITH_INFO" ELSE "SUCCESS")
           /\ r.len = Connecting!Size(whole)
    BY Answers
  <2> HIDE DEF r, whole
  <2>2. QED BY <2>1
<1>2. QED BY <1>1 DEF Connecting!SQLDriverConnectW

LEMMA TriedIs ==
  ASSUME NEW str, NEW max, NEW jet, NEW outcome, NEW r, r = Tried(str, max, jet, outcome)
  PROVE  LET whole == StringFor(str, max, jet)
             truncated == Connecting!Size(whole) >= max
         IN /\ r.str = str /\ r.max = max /\ r.jet = jet
            /\ \/ r.ret = "ERROR"
               \/ /\ Reached(str)
                  /\ r.ret = (IF truncated THEN "SUCCESS_WITH_INFO" ELSE "SUCCESS")
                  /\ r.moniker = Connecting!Moniker(str)
                  /\ r.out = Connecting!Fitting(whole, max)
<1> DEFINE d == Connecting!DriverConnect(str, max, jet, outcome)
<1>1. /\ r.str = str /\ r.max = max /\ r.jet = jet
      /\ r.ret = d.ret /\ r.moniker = d.moniker /\ r.out = d.out
  <2>1. Connecting!SQLDriverConnectW(str, max, jet, outcome) = d
    BY WideAnswers
  <2> HIDE DEF d
  <2>2. QED BY <2>1 DEF Tried
<1> DEFINE whole == StringFor(str, max, jet)
<1>2. \/ d.ret = "ERROR"
      \/ /\ Reached(str)
         /\ d.ret = (IF Connecting!Size(whole) >= max THEN "SUCCESS_WITH_INFO" ELSE "SUCCESS")
         /\ d.moniker = Connecting!Moniker(str)
         /\ d.out = Connecting!Fitting(whole, max)
  BY Answers
<1> HIDE DEF d
<1>3. QED BY <1>1, <1>2

\* the completed string is complete, and leads to the same server
LEMMA CompletedLeads ==
  ASSUME NEW str, NEW max, NEW jet, Reached(str), ~Connecting!DbusProvided(str)
  PROVE  LET made == StringFor(str, max, jet)
         IN /\ Reached(made) /\ Connecting!Moniker(made) = Connecting!Moniker(str)
            /\ StringFor(made, max, jet) = made
            /\ \A f \in Connecting!NamesKept :
                 Connecting!Completed(made)[f] = Connecting!Completed(str)[f]
<1> DEFINE made == StringFor(str, max, jet)
           ci == Connecting!Completed(str)
           same == Connecting!Completed(made)
<1>1. /\ \A f \in Connecting!NamesKept : same[f] = ci[f]
      /\ StringFor(made, max, jet) = made
      /\ ~Connecting!DbusProvided(made)
  BY CompletedAgain DEF Stays, StringFor
<1>2. ci = Connecting!Completed(str) /\ same = Connecting!Completed(made)
  OBVIOUS
<1> HIDE DEF made, ci, same
<1>3. same["database"] = ci["database"] /\ same["server"] = ci["server"] /\ same["port"] = ci["port"]
  BY <1>1 DEF Connecting!NamesKept
<1>4. ~Connecting!MissingOptions(made)
  BY <1>1, <1>2, <1>3 DEF Reached, Connecting!MissingOptions
<1>5. ~Connecting!MonikerTooLong(made)
  BY <1>1, <1>2, <1>3 DEF Reached, Connecting!MonikerTooLong
<1>6. Connecting!Moniker(made) = Connecting!Moniker(str)
  BY <1>1, <1>2, <1>3 DEF Connecting!Moniker
<1>7. QED BY <1>1, <1>2, <1>4, <1>5, <1>6 DEF Reached, made

LEMMA LeadsBack ==
  ASSUME ConnInv, OutSizes \subseteq Nat
  PROVE  Connecting!ReconnectsToTheSame
<1>1. ASSUME again # Connecting!Untried, ~Connecting!DbusProvided(first.str)
      PROVE  /\ again.ret = "SUCCESS" /\ again.moniker = first.moniker /\ again.out = first.out
             /\ \A f \in Connecting!NamesKept :
                  Connecting!Completed(first.out)[f] = Connecting!Completed(first.str)[f]
  <2>1. /\ first.ret = "SUCCESS" /\ "str" \in DOMAIN first
        /\ again = Connecting!DriverConnect(first.out, first.max, first.jet, "ok")
    BY <1>1 DEF ConnInv, AgainOK
  <2>2. first # Connecting!Untried
    BY <2>1 DEF Connecting!Untried
  <2>3. PICK str \in ConnectStrings, max \in OutSizes, jet \in BOOLEAN, outcome \in Connecting!Tests :
          first = Tried(str, max, jet, outcome)
    BY <2>1, <2>2 DEF ConnInv, FirstOK
  <2> DEFINE made == StringFor(str, max, jet)
  <2>4. /\ first.str = str /\ first.max = max /\ first.jet = jet /\ Reached(str)
        /\ ~(Connecting!Size(made) >= max) /\ first.moniker = Connecting!Moniker(str)
        /\ first.out = Connecting!Fitting(made, max)
    <3>1. /\ first.str = str /\ first.max = max /\ first.jet = jet
          /\ \/ first.ret = "ERROR"
             \/ /\ Reached(str)
                /\ first.ret = (IF Connecting!Size(made) >= max THEN "SUCCESS_WITH_INFO" ELSE "SUCCESS")
                /\ first.moniker = Connecting!Moniker(str)
                /\ first.out = Connecting!Fitting(made, max)
      BY <2>3, TriedIs
    <3> HIDE DEF made
    <3>2. QED BY <2>1, <3>1
  <2>5. Connecting!Fitting(made, max) = made
    BY <2>4 DEF Connecting!Fitting
  <2>6. /\ Reached(made) /\ Connecting!Moniker(made) = Connecting!Moniker(str)
        /\ StringFor(made, max, jet) = made
        /\ \A f \in Connecting!NamesKept :
             Connecting!Completed(made)[f] = Connecting!Completed(str)[f]
    BY <1>1, <2>4, CompletedLeads
  <2> HIDE DEF made
  <2>7. again = Connecting!DriverConnect(made, max, jet, "ok") /\ first.out = made
    BY <2>1, <2>4, <2>5
  <2> DEFINE r == Connecting!DriverConnect(made, max, jet, "ok")
  <2>8. /\ r.ret = (IF Connecting!Size(made) >= max THEN "SUCCESS_WITH_INFO" ELSE "SUCCESS")
        /\ r.moniker = Connecting!Moniker(made)
        /\ r.out = Connecting!Fitting(made, max)
    <3> HIDE DEF r
    <3>1. \/ r.ret = "ERROR" /\ ~(Reached(made) /\ "ok" = "ok")
          \/ /\ r.ret = (IF Connecting!Size(StringFor(made, max, jet)) >= max
                         THEN "SUCCESS_WITH_INFO" ELSE "SUCCESS")
             /\ r.moniker = Connecting!Moniker(made)
             /\ r.out = Connecting!Fitting(StringFor(made, max, jet), max)
      BY Answers DEF r
    <3>2. QED BY <2>6, <3>1
  <2> HIDE DEF r
  <2>9. again = r
    BY <2>7 DEF r
  <2>10. QED BY <2>4, <2>5, <2>6, <2>7, <2>8, <2>9
<1>2. ASSUME first.ret = "SUCCESS_WITH_INFO"
      PROVE  LET whole == StringFor(first.str, first.max, first.jet)
             IN /\ Connecting!Size(first.out) <= first.max
                /\ first.out = SubSeq(whole, 1, Len(first.out))
  <2>1. first # Connecting!Untried
    BY <1>2 DEF Connecting!Untried
  <2>2. PICK str \in ConnectStrings, max \in OutSizes, jet \in BOOLEAN, outcome \in Connecting!Tests :
          first = Tried(str, max, jet, outcome)
    BY <1>2, <2>1 DEF ConnInv, FirstOK
  <2> DEFINE whole == StringFor(str, max, jet)
  <2>3. /\ first.str = str /\ first.max = max /\ first.jet = jet
        /\ Connecting!Size(whole) >= max /\ first.out = Connecting!Fitting(whole, max)
    <3>1. /\ first.str = str /\ first.max = max /\ first.jet = jet
          /\ \/ first.ret = "ERROR"
             \/ /\ Reached(str)
                /\ first.ret = (IF Connecting!Size(whole) >= max THEN "SUCCESS_WITH_INFO" ELSE "SUCCESS")
                /\ first.moniker = Connecting!Moniker(str)
                /\ first.out = Connecting!Fitting(whole, max)
      BY <2>2, TriedIs
    <3> HIDE DEF whole
    <3>2. QED BY <1>2, <3>1
  <2>4. PICK X : whole \in Seq(X)
    BY MadeIsSeq DEF StringFor
  <2> HIDE DEF whole
  <2>5. /\ Connecting!Size(first.out) <= max /\ first.out = SubSeq(whole, 1, Len(first.out))
    BY <2>3, <2>4, CutOff
  <2>6. QED BY <2>3, <2>5 DEF whole
<1>3. QED BY <1>1, <1>2 DEF Connecting!ReconnectsToTheSame, StringFor, Room

-----------------------------------------------------------------------------
(* The session.                                                              *)
(* The session, as far as it asks the catalog, connects or reads the errors. *)

SessionInv ==
  /\ doing = "catalog" => CatalogInv /\ FoundInv
  /\ doing = "diagnostics" => DiagInv
  /\ doing = "connecting" => ConnInv

LEMMA InitSession == SessionInit => SessionInv
  BY InitCatalog, InitFound, InitDiag, InitConn, DiagAssumption
     DEF SessionInit, SessionInv

\* a step of one of these parts is one of its own or none
LEMMA StepOfSession ==
  ASSUME [SessionNext]_sessionVars
  PROVE  /\ doing' = doing
         /\ doing = "catalog" => [Catalog!Next]_(Catalog!vars)
         /\ doing = "catalog" /\ UNCHANGED Catalog!vars => UNCHANGED sessionVars
         /\ doing = "diagnostics" => [Diagnostics!Next]_(Diagnostics!vars)
         /\ doing = "connecting" => [Connecting!Next]_(Connecting!vars)
<1>1. CASE UNCHANGED sessionVars
  BY <1>1 DEF sessionVars, Catalog!vars, Diagnostics!vars, Connecting!vars
<1>2. CASE AskCatalog
  BY <1>2
     DEF AskCatalog, sessionVars, Catalog!vars, ofReading, ofFixed, ofTexts, ofConnecting,
         ofDiag
<1>3. CASE MeetErrors
  BY <1>3 DEF MeetErrors
<1>4. CASE ReadLong \/ ReadFixed \/ AskTexts \/ AskInformation \/ Connect
  BY <1>4 DEF ReadLong, ReadFixed, AskTexts, AskInformation, Connect
<1>5. QED BY <1>1, <1>2, <1>3, <1>4 DEF SessionNext

LEMMA NextSession == SessionInv /\ [SessionNext]_sessionVars => SessionInv'
<1> SUFFICES ASSUME SessionInv, [SessionNext]_sessionVars PROVE SessionInv'
  OBVIOUS
<1>1. doing = "catalog" => CatalogInv' /\ FoundInv'
  BY StepOfSession, NextCatalog, NextFound, CatalogAssumption DEF SessionInv
<1>2. doing = "diagnostics" => DiagInv'
  BY StepOfSession, DiagStep, DiagAssumption DEF SessionInv
<1>3. doing = "connecting" => ConnInv'
  BY StepOfSession, StepConn DEF SessionInv
<1>4. QED BY <1>1, <1>2, <1>3, StepOfSession DEF SessionInv

(* A statement of a catalog function is well formed between two calls and    *)
(* has no internal statement left; the errors of the four kinds of handles   *)
(* and what was read of them fit together as DiagInv says; a second          *)
(* connection is made only with what came back from a first that succeeded.  *)
THEOREM SessionKept == Session => []SessionInv
<1>1. QED BY InitSession, NextSession, PTL DEF Session

(* A catalog function that is refused says so; one whose statement still has *)
(* rows is refused and leaves them; none leaves an internal statement.       *)
THEOREM FailureTold == Session => FailureIsTold
<1>1. SessionInv /\ [SessionNext]_sessionVars => [doing = "catalog" => Catalog!Told]_sessionVars
  BY StepOfSession, NextCatalog DEF SessionInv
<1>2. QED BY <1>1, SessionKept, PTL DEF Session, FailureIsTold

(* SQLColumns and SQLPrimaryKeys find a table that is there by the name they *)
(* were given, and, where it may be folded and is not there, by the one in   *)
(* lower case, whatever other programs do between the two questions.         *)
THEOREM FoundByName == Session => []FoundUnlessAbsent
<1>1. SessionInv => FoundUnlessAbsent
  BY DEF SessionInv, FoundInv, FoundUnlessAbsent
<1>2. QED BY <1>1, SessionKept, PTL

(* The record of a statement's error is of its last call, with the class of  *)
(* its number, and quotes its connection only for a failure since that call, *)
(* whatever is read in between (SC_create_errorinfo, SC_clear_error).        *)
THEOREM RecordIsOwn == Session => []RecordIsItsOwn
<1>1. SessionInv => RecordIsItsOwn
  BY OfItsLastCall, DiagAssumption DEF SessionInv, RecordIsItsOwn
<1>2. QED BY <1>1, SessionKept, PTL

(* Read in order, the records of an error make its message; each fits its    *)
(* buffer, and the wide entries get one however the first was asked for      *)
(* (ER_ReturnError, SQLGetDiagFieldW).                                       *)
THEOREM MessageIsWhole == Session => []MessageComesWhole
<1>1. SessionInv => MessageComesWhole
  BY ComesWhole, DiagAssumption DEF SessionInv, MessageComesWhole
<1>2. QED BY <1>1, SessionKept, PTL

(* A completed connection string that came back with success leads to the    *)
(* same server and the same names; one that was cut off holds whole pairs    *)
(* and fits its buffer (makeConnectString, PGAPI_DriverConnect).             *)
THEOREM ReconnectsSame == Session => []ReconnectsToTheSame
<1>1. SessionInv => ReconnectsToTheSame
  BY LeadsBack, ConnectAssumption DEF SessionInv, ReconnectsToTheSame, Connecting!BuffersKnown
<1>2. QED BY <1>1, SessionKept, PTL

-----------------------------------------------------------------------------
(* sm dpull and dpush, which share nothing with the above: whatever number   *)
(* of programs run the self-test of GetChecksums, are killed within it or    *)
(* cannot drop its procedure, nobody else leaves that behind                 *)
(* (SelfTestCleansUp of SchemaData).                                         *)

Record(r) ==
  /\ {"pc", "failing", "alone"} \subseteq DOMAIN r
  /\ r.failing \in BOOLEAN /\ r.alone \in BOOLEAN
  \* an error of the self-test ends the program
  /\ r.failing => r.pc \in {"drop", "failed", "undropped"}
Shaped == prog = [p \in Programs |-> prog[p]] /\ \A p \in Programs : Record(prog[p])

\* who is alone has seen every other program end, and none start since
AloneIsAlone ==
  \A p, q \in Programs : p # q /\ prog[p].alone => prog[q].pc \in Ended

Within(p) == prog[p].pc \in {"sum", "drop"}
CleanInv ==
  /\ Shaped
  /\ test \in BOOLEAN /\ orphan \in BOOLEAN
  /\ AloneIsAlone
  /\ SelfTestCleansUp

\* every step of a program outside the self-test is one of this kind
Quiet(p) ==
  /\ prog[p].pc \notin Ended \cup {"sum", "drop"}
  /\ prog' = [prog EXCEPT ![p] = prog'[p]]
  /\ Record(prog'[p])
  /\ prog'[p].alone => prog[p].alone
  /\ ~prog'[p].failing
  /\ prog'[p].pc \notin {"sum", "drop", "commands"}
  /\ test' = test /\ orphan' = orphan

LEMMA QuietKeeps ==
  ASSUME CleanInv, NEW p \in Programs, Quiet(p)
  PROVE  CleanInv'
<1> USE DEF CleanInv
<1>1. /\ prog' = [q \in Programs |-> prog'[q]]
      /\ \A q \in Programs : q # p => prog'[q] = prog[q]
  BY DEF Quiet, Shaped
<1>2. Shaped'
  <2>1. \A q \in Programs : Record(prog'[q])
    BY <1>1 DEF Quiet, Shaped
  <2>2. QED BY <1>1, <2>1 DEF Shaped, Record
<1>3. AloneIsAlone'
  BY <1>1 DEF AloneIsAlone, Quiet
<1>4. SelfTestCleansUp'
  BY <1>1 DEF SelfTestCleansUp, Quiet, At, Shaped
<1>5. QED BY <1>2, <1>3, <1>4 DEF Quiet

LEMMA IdleRecord == Record(Idle)
BY DEF Record, Idle

-----------------------------------------------------------------------------

LEMMA InitClean == Init => CleanInv
<1> SUFFICES ASSUME Init PROVE CleanInv
  OBVIOUS
<1>1. Shaped /\ \A p \in Programs : prog[p] = Idle
  BY IdleRecord DEF Init, Shaped
<1>2. AloneIsAlone /\ SelfTestCleansUp
  BY <1>1 DEF Init, Idle, AloneIsAlone, SelfTestCleansUp, Ended, At
<1>3. QED BY <1>1, <1>2 DEF CleanInv, Init

LEMMA StartClean ==
  ASSUME CleanInv, NEW p \in Programs, NEW op \in Operations, Start(p, op)
  PROVE  CleanInv'
<1> USE DEF CleanInv
<1> DEFINE Alone == \A r \in Programs \ {p} : prog[r].pc \in Ended
           Fresh == [Idle EXCEPT !.pc = op[1], !.dry = op[2], !.alone = Alone]
<1>1. /\ prog' = [q \in Programs |-> prog'[q]]
      /\ prog'[p] = Fresh
      /\ \A q \in Programs \ {p} :
           prog'[q] = IF prog[q].pc \in Ended THEN Idle ELSE [prog[q] EXCEPT !.alone = FALSE]
  <2>1. prog' = [q \in Programs |->
                   IF q = p THEN Fresh
                   ELSE IF prog[q].pc \in Ended THEN Idle ELSE [prog[q] EXCEPT !.alone = FALSE]]
    BY Zenon DEF Start
  <2> HIDE DEF Fresh, CleanInv
  <2>2. QED BY <2>1, Zenon
<1>0. /\ prog[p].pc \in Ended /\ test' = test /\ orphan' = orphan
  BY Zenon DEF Start
<1>2. Record(Fresh) /\ Fresh.pc \in {"create", "list", "listtofix"} /\ ~Fresh.failing
      /\ Fresh.alone = Alone
  BY DEF Record, Idle, Operations
<1> HIDE DEF Fresh
<1>3. \A q \in Programs \ {p} :
        /\ Record(prog'[q]) /\ ~prog'[q].alone
        /\ prog[q].pc \in Ended => prog'[q] = Idle
        /\ prog[q].pc \notin Ended => prog'[q].pc = prog[q].pc
  <2> TAKE q \in Programs \ {p}
  <2>1. CASE prog[q].pc \in Ended
    <3>1. prog'[q] = Idle
      BY <1>1, <2>1
    <3>2. ~Idle.alone
      BY DEF Idle
    <3>3. QED BY <2>1, <3>1, <3>2, IdleRecord
  <2>2. CASE prog[q].pc \notin Ended
    <3>1. prog'[q] = [prog[q] EXCEPT !.alone = FALSE] /\ Record(prog[q])
      BY <1>1, <2>2 DEF Shaped
    <3>2. QED BY <2>2, <3>1 DEF Record
  <2>3. QED BY <2>1, <2>2
<1>4. Shaped'
  BY <1>1, <1>2, <1>3 DEF Shaped, Record
<1>5. AloneIsAlone'
  <2>1. \A q \in Programs \ {p} : prog[q].pc \in Ended => prog'[q].pc \in Ended
    BY <1>3 DEF Idle, Ended
  <2>2. prog'[p].alone => Alone
    BY <1>1, <1>2
  <2>3. \A q \in Programs \ {p} : ~prog'[q].alone
    BY <1>3
  <2>4. QED BY <2>1, <2>2, <2>3 DEF AloneIsAlone
<1>6. SelfTestCleansUp'
  <2>1. test' => orphan' \/ \E q \in Programs : prog'[q].pc \in {"sum", "drop"}
    BY <1>0, <1>3 DEF SelfTestCleansUp, Ended
  <2>2. \A q \in Programs : prog'[q].alone => prog'[q].pc \notin {"commands", "failed"}
    BY <1>1, <1>2, <1>3
  <2>3. QED BY <2>1, <2>2 DEF SelfTestCleansUp, At
<1>7. QED BY <1>0, <1>4, <1>5, <1>6

\* a program within its self-test goes on, and is not alone in anybody's eyes
LEMMA WithinClean ==
  ASSUME CleanInv, NEW p \in Programs, CreateTest(p) \/ CreateTestFails(p) \/ SelfTest(p)
  PROVE  CleanInv'
<1> USE DEF CleanInv
<1>1. PICK r : /\ Goes(p, r) /\ Record(r) /\ r.pc \in {"sum", "drop"} /\ r.alone = prog[p].alone
  <2>1. CASE CreateTest(p)
    <3>1. /\ Record([prog[p] EXCEPT !.pc = "drop", !.failing = TRUE])
          /\ [prog[p] EXCEPT !.pc = "drop", !.failing = TRUE].alone = prog[p].alone
          /\ [prog[p] EXCEPT !.pc = "drop", !.failing = TRUE].pc = "drop"
      BY DEF Shaped, Record
    <3>2. /\ Record([prog[p] EXCEPT !.pc = "sum"])
          /\ [prog[p] EXCEPT !.pc = "sum"].alone = prog[p].alone
          /\ [prog[p] EXCEPT !.pc = "sum"].pc = "sum"
      BY <2>1 DEF Shaped, Record, CreateTest, At
    <3>3. QED BY <2>1, <3>1, <3>2 DEF CreateTest
  <2>4. CASE CreateTestFails(p)
    <3>1. /\ Record([prog[p] EXCEPT !.pc = "drop", !.failing = TRUE])
          /\ [prog[p] EXCEPT !.pc = "drop", !.failing = TRUE].alone = prog[p].alone
          /\ [prog[p] EXCEPT !.pc = "drop", !.failing = TRUE].pc = "drop"
      BY DEF Shaped, Record
    <3>2. QED BY <2>4, <3>1 DEF CreateTestFails
  <2>2. CASE SelfTest(p)
    <3>1. PICK failing \in {~test, TRUE} :
            Goes(p, [prog[p] EXCEPT !.pc = "drop", !.failing = failing])
      BY <2>2 DEF SelfTest
    <3>2. failing \in BOOLEAN
      BY DEF SelfTest
    <3>3. /\ Record([prog[p] EXCEPT !.pc = "drop", !.failing = failing])
          /\ [prog[p] EXCEPT !.pc = "drop", !.failing = failing].alone = prog[p].alone
          /\ [prog[p] EXCEPT !.pc = "drop", !.failing = failing].pc = "drop"
      BY <3>2 DEF Shaped, Record
    <3>4. QED BY <3>1, <3>3
  <2>3. QED BY <2>1, <2>2, <2>4
<1>2. /\ prog' = [q \in Programs |-> prog'[q]]
      /\ prog'[p] = r /\ \A q \in Programs : q # p => prog'[q] = prog[q]
  BY <1>1 DEF Goes, Shaped
<1>3. prog[p].pc \notin Ended
  BY DEF CreateTest, CreateTestFails, SelfTest, At, Ended
<1>4. Shaped'
  BY <1>1, <1>2 DEF Shaped, Record
<1>5. AloneIsAlone'
  BY <1>1, <1>2, <1>3 DEF AloneIsAlone
<1>6. SelfTestCleansUp'
  BY <1>1, <1>2, <1>3 DEF SelfTestCleansUp, AloneIsAlone, At
<1>7. test' \in BOOLEAN /\ orphan' \in BOOLEAN
  BY DEF CreateTest, CreateTestFails, SelfTest
<1>8. QED BY <1>4, <1>5, <1>6, <1>7

LEMMA DropTestClean ==
  ASSUME CleanInv, NEW p \in Programs, DropTest(p)
  PROVE  CleanInv'
<1> USE DEF CleanInv
<1>1. PICK r : Goes(p, r) /\ Record(r) /\ r.alone = prog[p].alone
  BY DEF DropTest, Fails, Shaped, Record
<1>2. /\ prog' = [q \in Programs |-> prog'[q]]
      /\ prog'[p] = r /\ \A q \in Programs : q # p => prog'[q] = prog[q]
  BY <1>1 DEF Goes, Shaped
<1>3. Shaped'
  BY <1>1, <1>2 DEF Shaped, Record
<1>4. AloneIsAlone'
  BY <1>1, <1>2 DEF AloneIsAlone, DropTest, At, Ended
<1>5. SelfTestCleansUp'
  BY DEF DropTest, SelfTestCleansUp
<1>6. QED BY <1>3, <1>4, <1>5 DEF DropTest

\* the procedure may be left, and its program says that it could not drop it
LEMMA DropTestFailsClean ==
  ASSUME CleanInv, NEW p \in Programs, DropTestFails(p)
  PROVE  CleanInv'
<1> USE DEF CleanInv
<1> DEFINE r == [prog[p] EXCEPT !.pc = "undropped"]
<1>1. Goes(p, r) /\ Record(r) /\ r.alone = prog[p].alone /\ r.pc = "undropped"
  BY DEF DropTestFails, Shaped, Record
<1> HIDE DEF r
<1>2. /\ prog' = [q \in Programs |-> prog'[q]]
      /\ prog'[p] = r /\ \A q \in Programs : q # p => prog'[q] = prog[q]
  BY <1>1 DEF Goes, Shaped
<1>3. Shaped'
  BY <1>1, <1>2 DEF Shaped, Record
<1>4. AloneIsAlone'
  BY <1>1, <1>2 DEF AloneIsAlone, DropTestFails, At, Ended
<1>5. prog[p].pc \notin Ended /\ test' \in BOOLEAN /\ orphan' = test' /\ (test' => test)
  <2>1. prog[p].pc = "drop" /\ test' \in {test, FALSE} /\ orphan' = test'
    BY Zenon DEF DropTestFails, At
  <2>2. test \in BOOLEAN
    OBVIOUS
  <2> HIDE DEF CleanInv
  <2>3. test' \in BOOLEAN /\ (test' => test)
    <3>1. CASE test' = test
      BY <2>2, <3>1
    <3>2. CASE test' = FALSE
      BY <3>2
    <3>3. QED BY <2>1, <3>1, <3>2
  <2>4. QED BY <2>1, <2>3 DEF Ended
<1>6. SelfTestCleansUp'
  BY <1>1, <1>2, <1>5 DEF SelfTestCleansUp, At
<1>7. QED BY <1>3, <1>4, <1>5, <1>6

LEMMA KillClean ==
  ASSUME CleanInv, NEW p \in Programs, Kill(p)
  PROVE  CleanInv'
<1> USE DEF CleanInv
<1>1. /\ prog' = [q \in Programs |-> prog'[q]]
      /\ prog'[p] = Idle /\ \A q \in Programs : q # p => prog'[q] = prog[q]
  BY DEF Kill, Goes, Shaped
<1>2. Shaped'
  BY <1>1, IdleRecord DEF Shaped, Record
<1>3. AloneIsAlone'
  BY <1>1 DEF AloneIsAlone, Idle, Ended
<1>4. test' = test /\ orphan' = (orphan \/ (test /\ prog[p].pc \in {"sum", "drop"}))
  BY DEF Kill
<1>5. SelfTestCleansUp'
  BY <1>1, <1>4 DEF SelfTestCleansUp, Idle, At
<1>6. QED BY <1>2, <1>3, <1>4, <1>5

LEMMA ChangeClean ==
  ASSUME CleanInv, NEW t, NEW rows, Change(t, rows)
  PROVE  CleanInv'
<1> USE DEF CleanInv
<1>1. /\ prog' = [q \in Programs |-> prog'[q]]
      /\ test' = test /\ orphan' = orphan
  BY DEF Change
<1>2. \A q \in Programs :
        /\ Record(prog'[q])
        /\ prog'[q].alone => prog[q].alone
        /\ prog'[q].failing => prog[q].failing
        /\ prog'[q].pc = prog[q].pc \/ (prog[q].pc = "pushed" /\ prog'[q].pc = "idle")
  <2> TAKE q \in Programs
  <2>0. prog'[q] = IF At(q, "pushed") THEN Idle
                   ELSE IF prog[q].pc \in {"list", "apply", "execute"}
                        THEN [prog[q] EXCEPT !.alone = FALSE] ELSE prog[q]
    BY DEF Change
  <2>1. CASE At(q, "pushed")
    BY <2>0, <2>1, IdleRecord DEF Idle, At
  <2>2. CASE ~At(q, "pushed") /\ prog[q].pc \in {"list", "apply", "execute"}
    BY <2>0, <2>2 DEF Record, Shaped
  <2>3. CASE ~At(q, "pushed") /\ prog[q].pc \notin {"list", "apply", "execute"}
    BY <2>0, <2>3 DEF Shaped
  <2>4. QED BY <2>1, <2>2, <2>3
<1>3. Shaped'
  BY <1>1, <1>2 DEF Shaped, Record
<1>4. AloneIsAlone'
  BY <1>2 DEF AloneIsAlone, Ended
<1>5. SelfTestCleansUp'
  BY <1>1, <1>2 DEF SelfTestCleansUp, At
<1>6. QED BY <1>1, <1>3, <1>4, <1>5

\* a program fails outside the self-test, or goes on
LEMMA FailsQuietly ==
  ASSUME CleanInv, NEW p \in Programs, Fails(p), test' = test, orphan' = orphan,
         prog[p].pc \notin Ended \cup {"sum", "drop"}
  PROVE  Quiet(p)
<1>1. prog = [q \in Programs |-> prog[q]] /\ Record(prog[p])
  BY DEF CleanInv, Shaped
<1>2. QED BY <1>1 DEF Fails, Goes, Ended, Quiet, Record

LEMMA GoesQuietly ==
  ASSUME CleanInv, NEW p \in Programs, NEW r, Goes(p, r), test' = test, orphan' = orphan,
         prog[p].pc \notin Ended \cup {"sum", "drop"},
         Record(r), r.alone => prog[p].alone, ~r.failing, r.pc \notin {"sum", "drop", "commands"}
  PROVE  Quiet(p)
BY DEF CleanInv, Shaped, Goes, Quiet

\* whatever a program does outside the self-test
LEMMA OthersQuiet ==
  ASSUME CleanInv, NEW p \in Programs,
         \/ ReadCommands(p) \/ Clean(p) \/ Export(p) \/ PullEnds(p)
         \/ List(p) \/ ApplyFile(p) \/ Execute(p) \/ PushEnds(p)
         \/ ListToFix(p) \/ FixFile(p) \/ FixEnds(p) \/ Refused(p)
  PROVE  Quiet(p)
<1> USE DEF CleanInv
<1>1. prog = [q \in Programs |-> prog[q]] /\ Record(prog[p])
  BY DEF Shaped
<1>2. CASE ReadCommands(p)
  <2>1. /\ test' = test /\ orphan' = orphan
        /\ prog[p].pc \notin Ended \cup {"sum", "drop"}
        /\ ~prog[p].failing
    <3>1. test' = test /\ orphan' = orphan /\ prog[p].pc = "commands"
      BY <1>2, Zenon DEF ReadCommands, At
    <3>2. QED BY <1>1, <3>1 DEF Ended, Record
  <2>2. PICK x, y, z : \/ Fails(p)
                       \/ Goes(p, [prog[p] EXCEPT !.pc = "clean", !.rules = x, !.cmds = y, !.todo = z])
    BY <1>2, Zenon DEF ReadCommands
  <2>3. CASE Fails(p)
    BY <2>1, <2>3, FailsQuietly
  <2>4. CASE ~Fails(p)
    <3> DEFINE r == [prog[p] EXCEPT !.pc = "clean", !.rules = x, !.cmds = y, !.todo = z]
    <3>1. Record(r) /\ r.alone = prog[p].alone /\ ~r.failing /\ r.pc = "clean"
      BY <1>1, <2>1 DEF Record
    <3>2. Goes(p, r)
      BY <2>2, <2>4
    <3> HIDE DEF r
    <3>3. QED BY <2>1, <3>1, <3>2, GoesQuietly
  <2>5. QED BY <2>3, <2>4
<1>3. CASE Clean(p)
  BY <1>1, <1>3 DEF Clean, Goes, Fails, At, Ended, Quiet, Record, Idle
<1>4. CASE Export(p)
  BY <1>1, <1>4 DEF Export, Goes, Fails, At, Ended, Quiet, Record, Idle
<1>5. CASE PullEnds(p)
  BY <1>1, <1>5 DEF PullEnds, Goes, Fails, At, Ended, Quiet, Record, Idle
<1>6. CASE List(p)
  <2>1. /\ test' = test /\ orphan' = orphan
        /\ prog[p].pc \notin Ended \cup {"sum", "drop"}
        /\ ~prog[p].failing
    BY <1>1, <1>6 DEF List, At, Ended, Record
  <2>2. CASE files = NULL /\ prog[p].dry
    <3> DEFINE r == [Idle EXCEPT !.pc = "pulled"]
    <3>1. Record(r) /\ ~r.alone /\ ~r.failing /\ r.pc = "pulled"
      BY DEF Record, Idle
    <3>2. Goes(p, r)
      BY <1>6, <2>2 DEF List
    <3> HIDE DEF r
    <3>3. QED BY <2>1, <3>1, <3>2, GoesQuietly
  <2>3. CASE files = NULL /\ ~prog[p].dry
    BY <1>6, <2>1, <2>3, FailsQuietly DEF List
  <2>4. CASE files # NULL
    <3> DEFINE r == [prog[p] EXCEPT !.pc = "apply", !.todo = Sorted(DOMAIN files)]
    <3>1. Record(r) /\ r.alone = prog[p].alone /\ ~r.failing /\ r.pc = "apply"
      BY <1>1, <2>1 DEF Record
    <3>2. Goes(p, r)
      BY <1>6, <2>4 DEF List
    <3> HIDE DEF r
    <3>3. QED BY <2>1, <3>1, <3>2, GoesQuietly
  <2>5. QED BY <2>2, <2>3, <2>4
<1>7. CASE ApplyFile(p)
  <2>1. /\ test' = test /\ orphan' = orphan
        /\ prog[p].pc \notin Ended \cup {"sum", "drop"}
        /\ ~prog[p].failing
    BY <1>1, <1>7 DEF ApplyFile, At, Ended, Record
  <2> DEFINE file == Head(prog[p].todo)
             put == IF prog[p].dry THEN <<>> ELSE PutSchemaData(ApplyTo(file), files[file])
             r == [prog[p] EXCEPT !.todo = Tail(@), !.stmts = put,
                                  !.pc = IF put = <<>> THEN "apply" ELSE "execute"]
  <2>2. CASE file \notin DOMAIN files
    BY <1>7, <2>1, <2>2, FailsQuietly DEF ApplyFile
  <2>3. CASE file \in DOMAIN files
    <3>1. Goes(p, r)
      BY <1>7, <2>3 DEF ApplyFile
    <3> HIDE DEF put
    <3>2. Record(r) /\ r.alone = prog[p].alone /\ ~r.failing /\ r.pc \in {"apply", "execute"}
      BY <1>1, <2>1 DEF Record
    <3> HIDE DEF r
    <3>3. QED BY <2>1, <3>1, <3>2, GoesQuietly
  <2>4. QED BY <2>2, <2>3
<1>8. CASE PushEnds(p)
  BY <1>1, <1>8 DEF PushEnds, Goes, Fails, At, Ended, Quiet, Record, Idle
<1>9. CASE Execute(p)
  <2>1. /\ test' = test /\ orphan' = orphan
        /\ prog[p].pc \notin Ended \cup {"sum", "drop"}
        /\ ~prog[p].failing
    BY <1>1, <1>9 DEF Execute, At, Ended, Record
  <2>2. Fails(p)
        \/ Goes(p, [prog[p] EXCEPT !.stmts = Tail(@),
                     !.pc = IF Len(prog[p].stmts) = 1 THEN "apply" ELSE "execute"])
    BY <1>9 DEF Execute
  <2>3. CASE Fails(p)
    BY <2>1, <2>3, FailsQuietly
  <2>4. CASE ~Fails(p)
    <3> DEFINE r == [prog[p] EXCEPT !.stmts = Tail(@),
                       !.pc = IF Len(prog[p].stmts) = 1 THEN "apply" ELSE "execute"]
    <3>1. Record(r) /\ r.alone = prog[p].alone /\ ~r.failing /\ r.pc \in {"apply", "execute"}
      BY <1>1, <2>1 DEF Record
    <3>2. Goes(p, r)
      BY <2>2, <2>4
    <3> HIDE DEF r
    <3>3. QED BY <2>1, <3>1, <3>2, GoesQuietly
  <2>5. QED BY <2>3, <2>4
<1>10. CASE ListToFix(p)
  <2>1. /\ test' = test /\ orphan' = orphan
        /\ prog[p].pc \notin Ended \cup {"sum", "drop"}
        /\ ~prog[p].failing
    <3>1. test' = test /\ orphan' = orphan /\ prog[p].pc = "listtofix"
      BY <1>10, Zenon DEF ListToFix, At
    <3>2. QED BY <1>1, <3>1 DEF Ended, Record
  <2>2. PICK x, y, z : \/ Goes(p, [Idle EXCEPT !.pc = "pulled"])
                       \/ Goes(p, [prog[p] EXCEPT !.pc = "fix", !.rules = x, !.todo = y, !.expect = z])
    BY <1>10, Zenon DEF ListToFix
  <2>3. CASE Goes(p, [Idle EXCEPT !.pc = "pulled"])
    BY <1>1, <2>1, <2>3 DEF Goes, Quiet, Record, Idle
  <2>4. CASE ~Goes(p, [Idle EXCEPT !.pc = "pulled"])
    <3> DEFINE r == [prog[p] EXCEPT !.pc = "fix", !.rules = x, !.todo = y, !.expect = z]
    <3>1. Record(r) /\ r.alone = prog[p].alone /\ ~r.failing /\ r.pc = "fix"
      BY <1>1, <2>1 DEF Record
    <3>2. Goes(p, r)
      BY <2>2, <2>4
    <3> HIDE DEF r
    <3>3. QED BY <2>1, <3>1, <3>2, GoesQuietly
  <2>5. QED BY <2>3, <2>4
<1>11. CASE FixFile(p)
  BY <1>1, <1>11 DEF FixFile, Goes, Fails, At, Ended, Quiet, Record, Idle
<1>12. CASE FixEnds(p)
  BY <1>1, <1>12 DEF FixEnds, Goes, Fails, At, Ended, Quiet, Record, Idle
<1>13. CASE Refused(p)
  BY <1>1, <1>13 DEF Refused, Goes, Fails, At, Ended, Quiet, Record, Idle
<1>14. QED BY <1>2, <1>3, <1>4, <1>5, <1>6, <1>7, <1>8, <1>9, <1>10, <1>11, <1>12, <1>13

LEMMA StutterClean == CleanInv /\ UNCHANGED vars => CleanInv'
BY DEF CleanInv, Shaped, Record, AloneIsAlone, SelfTestCleansUp, At, Ended, vars

LEMMA NextClean == CleanInv /\ [Next]_vars => CleanInv'
<1> SUFFICES ASSUME CleanInv, [Next]_vars PROVE CleanInv'
  OBVIOUS
<1>1. CASE \E p \in Programs, op \in Operations : Start(p, op)
  BY <1>1, StartClean
<1>2. CASE \E p \in Programs : CreateTest(p) \/ CreateTestFails(p) \/ SelfTest(p)
  BY <1>2, WithinClean
<1>3. CASE \E p \in Programs : DropTest(p)
  BY <1>3, DropTestClean
<1>9. CASE \E p \in Programs : DropTestFails(p)
  BY <1>9, DropTestFailsClean
<1>4. CASE \E p \in Programs :
             \/ ReadCommands(p) \/ Clean(p) \/ Export(p) \/ PullEnds(p)
             \/ List(p) \/ ApplyFile(p) \/ Execute(p) \/ PushEnds(p)
             \/ ListToFix(p) \/ FixFile(p) \/ FixEnds(p) \/ Refused(p)
  BY <1>4, OthersQuiet, QuietKeeps
<1>5. CASE \E p \in Programs : Kill(p)
  BY <1>5, KillClean
<1>6. CASE \E t \in Tables, rows \in Contents : Change(t, rows)
  BY <1>6, ChangeClean
<1>7. CASE UNCHANGED vars
  BY <1>7, StutterClean
<1>8. QED BY <1>1, <1>2, <1>3, <1>4, <1>5, <1>6, <1>7, <1>9 DEF Next

(* Whatever number of programs run the self-test at the same time, are       *)
(* refused statements in it or are killed: its procedure outlives only a     *)
(* program that was killed or could not drop it, and one that ran alone      *)
(* never goes on, nor fails with an error of the self-test, while it is      *)
(* there.                                                                    *)
THEOREM CleansUp == Spec => []SelfTestCleansUp
<1>1. CleanInv => SelfTestCleansUp
  BY DEF CleanInv
<1>2. QED BY <1>1, InitClean, NextClean, PTL DEF Spec
==============================================================================
