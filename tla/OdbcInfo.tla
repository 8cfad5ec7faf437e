------------------------------ MODULE OdbcInfo -------------------------------
(* What the ODBC driver says of itself: SQLGetInfo (src/vxodbc/info.cc,      *)
(* info30.cc), SQLGetFunctions and SQLGetTypeInfo.  The server is not asked; *)
(* a connection is made with the settings of a PostgreSQL 7.4 server, with   *)
(* neither schemas nor updatable cursors, and no setting changes that.       *)
(*                                                                           *)
(* A connection is that of OdbcTypes with [catalog, readonly, mssql, dsn,    *)
(* server, user]: whether the application is told of a catalog (not          *)
(* Microsoft Query), may only read, is told of a SQL Server; and its names.  *)
EXTENDS OdbcTypes, FiniteSets

CONSTANTS InfoConns, \* connections that are asked
          InfoSizes  \* sizes of the application's buffers, in bytes

VARIABLES told \* the last answer of SQLGetInfo: [conn, type, cb, answer], and whether
               \* the buffer was made after an earlier answer (again)

\* an answer: a text, or a number or set of flags of so many bytes
Text(s) == [bytes |-> 0, text |-> s]
Small(n) == [bytes |-> 2, value |-> n]
Long(n) == [bytes |-> 4, value |-> n]
YesNo(b) == Text(IF b THEN "Y" ELSE "N")
OwnDb == "__VERSAPLEX"

-----------------------------------------------------------------------------
(* PGAPI_GetInfo's information types, in its order                           *)

AccessibleToDatabaseName(conn) == [
  ACCESSIBLE_PROCEDURES |-> Text("N"), ACCESSIBLE_TABLES |-> Text("N"),
  ACTIVE_CONNECTIONS |-> Small(128), ACTIVE_STATEMENTS |-> Small(0),
  ALTER_TABLE |-> Long({"ADD_COLUMN", "DROP_COLUMN", "ADD_COLUMN_SINGLE", "ADD_CONSTRAINT",
    "ADD_TABLE_CONSTRAINT", "CONSTRAINT_INITIALLY_DEFERRED", "CONSTRAINT_INITIALLY_IMMEDIATE",
    "CONSTRAINT_DEFERRABLE", "DROP_TABLE_CONSTRAINT_RESTRICT",
    "DROP_TABLE_CONSTRAINT_CASCADE", "DROP_COLUMN_RESTRICT", "DROP_COLUMN_CASCADE"}),
  BOOKMARK_PERSISTENCE |-> Long(0), COLUMN_ALIAS |-> Text("N"),
  CONCAT_NULL_BEHAVIOR |-> Small("NON_NULL"),
  CONVERT_FUNCTIONS |-> Long({"CONVERT"}),
  CORRELATION_NAME |-> Small("ANY"),
  CURSOR_COMMIT_BEHAVIOR |-> Small("PRESERVE"), CURSOR_ROLLBACK_BEHAVIOR |-> Small("PRESERVE"),
  DATA_SOURCE_NAME |-> Text(conn.dsn), DATA_SOURCE_READ_ONLY |-> YesNo(conn.readonly),
  DATABASE_NAME |-> Text(IF conn.catalog THEN OwnDb ELSE "")]

Convertible == {"CONVERT_INTEGER", "CONVERT_SMALLINT", "CONVERT_TINYINT", "CONVERT_BIT",
  "CONVERT_VARCHAR"}
NotConvertible == {"CONVERT_BIGINT", "CONVERT_DECIMAL", "CONVERT_DOUBLE", "CONVERT_FLOAT",
  "CONVERT_NUMERIC", "CONVERT_REAL", "CONVERT_DATE", "CONVERT_TIME", "CONVERT_TIMESTAMP",
  "CONVERT_BINARY", "CONVERT_LONGVARBINARY", "CONVERT_VARBINARY", "CONVERT_CHAR",
  "CONVERT_LONGVARCHAR", "CONVERT_WCHAR", "CONVERT_WLONGVARCHAR", "CONVERT_WVARCHAR"}
ConvertInfo == [from \in Convertible \cup NotConvertible |->
                  Long(IF from \in Convertible THEN {"BIT", "INTEGER"} ELSE {})]

DbmsToMaxSchemaName(conn) == [
  DBMS_NAME |-> Text(IF conn.mssql THEN "Microsoft SQL Server" ELSE "PostgreSQL"),
  DBMS_VER |-> Text(IF conn.mssql THEN "09.00.1399" ELSE "7.4"),
  DEFAULT_TXN_ISOLATION |-> Long("READ_COMMITTED"),
  DRIVER_NAME |-> Text("SQLSRV32.DLL"), DRIVER_ODBC_VER |-> Text("03.52"),
  DRIVER_VER |-> Text("03.85.1132"), EXPRESSIONS_IN_ORDERBY |-> Text("N"),
  FETCH_DIRECTION |-> Long({"NEXT", "FIRST", "LAST", "PRIOR", "ABSOLUTE", "RELATIVE", "BOOKMARK"}),
  FILE_USAGE |-> Small("NOT_SUPPORTED"),
  GETDATA_EXTENSIONS |-> Long({"ANY_COLUMN", "ANY_ORDER", "BOUND", "BLOCK"}),
  GROUP_BY |-> Small("EQUALS_SELECT"), IDENTIFIER_CASE |-> Small("LOWER"),
  IDENTIFIER_QUOTE_CHAR |-> Text("\""), KEYWORDS |-> Text(""), LIKE_ESCAPE_CLAUSE |-> Text("N"),
  LOCK_TYPES |-> Long({"NO_CHANGE"}),
  MAX_BINARY_LITERAL_LEN |-> Long(0), MAX_CHAR_LITERAL_LEN |-> Long(0),
  MAX_COLUMNS_IN_GROUP_BY |-> Small(0), MAX_COLUMNS_IN_INDEX |-> Small(0),
  MAX_COLUMNS_IN_ORDER_BY |-> Small(0), MAX_COLUMNS_IN_SELECT |-> Small(0),
  MAX_COLUMNS_IN_TABLE |-> Small(0), MAX_CURSOR_NAME_LEN |-> Small(32),
  MAX_SCHEMA_NAME_LEN |-> Small(128), MAX_TABLE_NAME_LEN |-> Small(128),
  MAX_COLUMN_NAME_LEN |-> Small(128)]

MaxIndexToOuterJoins == [
  MAX_INDEX_SIZE |-> Long(0), MAX_PROCEDURE_NAME_LEN |-> Small(0),
  MAX_QUALIFIER_NAME_LEN |-> Small(0), MAX_ROW_SIZE |-> Long(0),
  MAX_ROW_SIZE_INCLUDES_LONG |-> Text("Y"), MAX_STATEMENT_LEN |-> Long(0),
  MAX_TABLES_IN_SELECT |-> Small(0), MAX_USER_NAME_LEN |-> Small(0),
  MULT_RESULT_SETS |-> Text("Y"), MULTIPLE_ACTIVE_TXN |-> Text("Y"),
  NEED_LONG_DATA_LEN |-> Text("N"), NON_NULLABLE_COLUMNS |-> Small("NON_NULL"),
  NULL_COLLATION |-> Small("HIGH"), NUMERIC_FUNCTIONS |-> Long({}),
  ODBC_API_CONFORMANCE |-> Small("LEVEL1"), ODBC_SAG_CLI_CONFORMANCE |-> Small("NOT_COMPLIANT"),
  ODBC_SQL_CONFORMANCE |-> Small("CORE"), ODBC_SQL_OPT_IEF |-> Text("N"),
  OJ_CAPABILITIES |-> Long({"LEFT", "RIGHT", "FULL", "NESTED", "NOT_ORDERED", "INNER",
                            "ALL_COMPARISON_OPS"}),
  ORDER_BY_COLUMNS_IN_SELECT |-> Text("N"), OUTER_JOINS |-> Text("Y")]

OwnerTermToServerName(conn) == [
  OWNER_TERM |-> Text("owner"), OWNER_USAGE |-> Long({}),
  POS_OPERATIONS |-> Long({"POSITION", "REFRESH"}), POSITIONED_STATEMENTS |-> Long({}),
  PROCEDURE_TERM |-> Text("procedure"), PROCEDURES |-> Text("Y"),
  QUALIFIER_LOCATION |-> Small(IF conn.catalog THEN "START" ELSE "none"),
  QUALIFIER_NAME_SEPARATOR |-> Text(IF conn.catalog THEN "." ELSE ""),
  QUALIFIER_TERM |-> Text(IF conn.catalog THEN "catalog" ELSE ""),
  QUALIFIER_USAGE |-> Long(IF conn.catalog THEN {"DML_STATEMENTS"} ELSE {}),
  QUOTED_IDENTIFIER_CASE |-> Small("SENSITIVE"), ROW_UPDATES |-> Text("N"),
  SCROLL_CONCURRENCY |-> Long({"READ_ONLY"}), SCROLL_OPTIONS |-> Long({"FORWARD_ONLY", "STATIC"}),
  SEARCH_PATTERN_ESCAPE |-> Text("\\"), SERVER_NAME |-> Text(conn.server)]

SpecialToUserName(conn) == [
  SPECIAL_CHARACTERS |-> Text("_"), STATIC_SENSITIVITY |-> Long({}),
  STRING_FUNCTIONS |-> Long({"CONCAT", "LCASE", "LENGTH", "LOCATE", "LTRIM", "RTRIM",
                             "SUBSTRING", "UCASE"}),
  SUBQUERIES |-> Long({"QUANTIFIED", "IN", "EXISTS", "COMPARISON"}),
  SYSTEM_FUNCTIONS |-> Long({}), TABLE_TERM |-> Text("table"),
  TIMEDATE_ADD_INTERVALS |-> Long({}), TIMEDATE_DIFF_INTERVALS |-> Long({}),
  TIMEDATE_FUNCTIONS |-> Long({"NOW"}), TXN_CAPABLE |-> Small("ALL"),
  TXN_ISOLATION_OPTION |-> Long({"READ_COMMITTED", "SERIALIZABLE"}),
  SQL_UNION |-> Long({"UNION", "UNION_ALL"}), USER_NAME |-> Text(conn.user)]

InfoOf(conn) ==
  AccessibleToDatabaseName(conn) @@ ConvertInfo @@ DbmsToMaxSchemaName(conn) @@ MaxIndexToOuterJoins
    @@ OwnerTermToServerName(conn) @@ SpecialToUserName(conn)

-----------------------------------------------------------------------------
(* PGAPI_GetInfo30's, for which PGAPI_GetInfo has no answer                  *)

ScrollAttributes == {"NEXT", "ABSOLUTE", "RELATIVE", "BOOKMARK", "LOCK_NO_CHANGE",
  "POS_POSITION", "POS_REFRESH"}
ReadOnlyCursor == {"READ_ONLY_CONCURRENCY", "CRC_EXACT"}

CursorsToDropView(conn) == [
  DYNAMIC_CURSOR_ATTRIBUTES1 |-> Long({}), DYNAMIC_CURSOR_ATTRIBUTES2 |-> Long({}),
  FORWARD_ONLY_CURSOR_ATTRIBUTES1 |-> Long({"NEXT"}),
  FORWARD_ONLY_CURSOR_ATTRIBUTES2 |-> Long(ReadOnlyCursor),
  KEYSET_CURSOR_ATTRIBUTES1 |-> Long(ScrollAttributes),
  KEYSET_CURSOR_ATTRIBUTES2 |-> Long(ReadOnlyCursor),
  STATIC_CURSOR_ATTRIBUTES1 |-> Long(ScrollAttributes),
  STATIC_CURSOR_ATTRIBUTES2 |-> Long(ReadOnlyCursor),
  ODBC_INTERFACE_CONFORMANCE |-> Long("CORE"), ACTIVE_ENVIRONMENTS |-> Small(0),
  AGGREGATE_FUNCTIONS |-> Long("ALL"), ALTER_DOMAIN |-> Long({}), ASYNC_MODE |-> Long("NONE"),
  BATCH_ROW_COUNT |-> Long({"EXPLICIT"}),
  BATCH_SUPPORT |-> Long({"SELECT_EXPLICIT", "ROW_COUNT_EXPLICIT"}),
  CATALOG_NAME |-> YesNo(conn.catalog), COLLATION_SEQ |-> Text(""),
  CREATE_SCHEMA |-> Long({}),
  CREATE_TABLE |-> Long({"CREATE_TABLE", "COLUMN_CONSTRAINT", "COLUMN_DEFAULT",
    "GLOBAL_TEMPORARY", "TABLE_CONSTRAINT", "CONSTRAINT_NAME_DEFINITION",
    "CONSTRAINT_INITIALLY_DEFERRED", "CONSTRAINT_INITIALLY_IMMEDIATE", "CONSTRAINT_DEFERRABLE"})]
  @@ [i \in {"CREATE_ASSERTION", "CREATE_CHARACTER_SET", "CREATE_COLLATION", "CREATE_DOMAIN"} |->
        Long({})]

CreateViewToSqlConformance == [
  CREATE_TRANSLATION |-> Long({}), CREATE_VIEW |-> Long({"CREATE_VIEW"}),
  DDL_INDEX |-> Long({"CREATE_INDEX", "DROP_INDEX"}), DESCRIBE_PARAMETER |-> Text("N"),
  DROP_SCHEMA |-> Long({}), DROP_TABLE |-> Long({"DROP_TABLE", "RESTRICT", "CASCADE"}),
  DROP_VIEW |-> Long({"DROP_VIEW", "RESTRICT", "CASCADE"}),
  INDEX_KEYWORDS |-> Long(0), INFO_SCHEMA_VIEWS |-> Long({}),
  INSERT_STATEMENT |-> Long({"INSERT_LITERALS", "INSERT_SEARCHED", "SELECT_INTO"}),
  MAX_IDENTIFIER_LEN |-> Small(64),
  PARAM_ARRAY_ROW_COUNTS |-> Long("BATCH"), PARAM_ARRAY_SELECTS |-> Long("BATCH"),
  SQL_CONFORMANCE |-> Long("SQL92_ENTRY")]
  @@ [i \in {"DROP_ASSERTION", "DROP_CHARACTER_SET", "DROP_COLLATION", "DROP_DOMAIN",
             "DROP_TRANSLATION"} |-> Long({})]

Sql92 == [
  SQL92_DATETIME_FUNCTIONS |-> Long({"CURRENT_DATE", "CURRENT_TIME", "CURRENT_TIMESTAMP"}),
  SQL92_FOREIGN_KEY_DELETE_RULE |-> Long({"CASCADE", "NO_ACTION", "SET_DEFAULT", "SET_NULL"}),
  SQL92_FOREIGN_KEY_UPDATE_RULE |-> Long({"CASCADE", "NO_ACTION", "SET_DEFAULT", "SET_NULL"}),
  SQL92_GRANT |-> Long({"DELETE_TABLE", "INSERT_TABLE", "REFERENCES_TABLE", "SELECT_TABLE",
                  "UPDATE_TABLE"}),
  SQL92_NUMERIC_VALUE_FUNCTIONS |-> Long({"BIT_LENGTH", "CHAR_LENGTH", "CHARACTER_LENGTH", "EXTRACT",
                                    "OCTET_LENGTH", "POSITION"}),
  SQL92_PREDICATES |-> Long({"BETWEEN", "COMPARISON", "EXISTS", "IN", "ISNOTNULL", "ISNULL", "LIKE",
                       "OVERLAPS", "QUANTIFIED_COMPARISON"}),
  SQL92_RELATIONAL_JOIN_OPERATORS |-> Long({"CROSS", "EXCEPT", "FULL_OUTER", "INNER", "INTERSECT",
                                      "LEFT_OUTER", "NATURAL", "RIGHT_OUTER", "UNION"}),
  SQL92_REVOKE |-> Long({"DELETE_TABLE", "INSERT_TABLE", "REFERENCES_TABLE", "SELECT_TABLE",
                   "UPDATE_TABLE"}),
  SQL92_ROW_VALUE_CONSTRUCTOR |-> Long({"VALUE_EXPRESSION", "NULL"}),
  SQL92_STRING_FUNCTIONS |-> Long({"CONVERT", "LOWER", "UPPER", "SUBSTRING", "TRANSLATE", "TRIM_BOTH",
                             "TRIM_LEADING", "TRIM_TRAILING"}),
  SQL92_VALUE_EXPRESSIONS |-> Long({"CASE", "CAST", "COALESCE", "NULLIF"})]
Info30Of(conn) ==
  CursorsToDropView(conn) @@ CreateViewToSqlConformance @@ Sql92
    @@ [DTC_TRANSACTION_COST |-> Long(0)]

-----------------------------------------------------------------------------
(* Delivery.  A text of n letters has units of two bytes in the wide API;    *)
(* cb is the buffer's size in bytes, or NoBuffer.                            *)

NoBuffer == -1
TextInfo(conn, n, cb) ==
  LET unit == IF conn.unicode THEN 2 ELSE 1
      room == cb \div unit
  IN IF cb = NoBuffer THEN [ret |-> "SUCCESS", len |-> unit * n, terminated |-> FALSE, letters |-> 0]
     ELSE [ret |-> IF unit * n >= cb THEN "SUCCESS_WITH_INFO" ELSE "SUCCESS", len |-> unit * n,
           terminated |-> IF conn.unicode THEN n < room ELSE cb > 0,
           letters |-> IF n < room THEN n
                       ELSE IF conn.unicode THEN room ELSE AtLeast0(room - 1)]

\* a bug: the length stays in letters, as utf8_to_ucs2 counts it
DeliverInLetters(conn, answer, cb) ==
  [TextInfo(conn, Len(answer.text), cb) EXCEPT !.len = Len(answer.text)]

Deliver(conn, answer, cb) ==
  IF answer.bytes = 0 THEN TextInfo(conn, Len(answer.text), cb)
  ELSE [ret |-> "SUCCESS", len |-> answer.bytes, terminated |-> FALSE, letters |-> 0]

Unrecognized == [ret |-> "ERROR", len |-> 0, terminated |-> FALSE, letters |-> 0]

\* SQLGetInfo asks PGAPI_GetInfo, then, its error cleared, PGAPI_GetInfo30
AllInfo(conn) == InfoOf(conn) @@ Info30Of(conn)
SQLGetInfo(conn, type, cb) ==
  LET all == AllInfo(conn)
  IN IF type \in DOMAIN all THEN Deliver(conn, all[type], cb) ELSE Unrecognized

-----------------------------------------------------------------------------
(* SQLGetFunctions: three lists of what there is                             *)

Core == {"BINDCOL", "CANCEL", "COLATTRIBUTE", "CONNECT", "DESCRIBECOL", "DISCONNECT",
  "EXECDIRECT", "EXECUTE", "FETCH", "FREESTMT", "GETCURSORNAME", "NUMRESULTCOLS", "PREPARE",
  "ROWCOUNT", "SETCURSORNAME"}
Level1 == {"BINDPARAMETER", "COLUMNS", "DRIVERCONNECT", "GETDATA", "GETFUNCTIONS", "GETINFO",
  "GETTYPEINFO", "PARAMDATA", "PUTDATA", "SPECIALCOLUMNS", "STATISTICS", "TABLES"}
Level2 == {"EXTENDEDFETCH", "FOREIGNKEYS", "MORERESULTS", "NATIVESQL", "NUMPARAMS",
  "PRIMARYKEYS", "PROCEDURECOLUMNS", "PROCEDURES", "SETPOS", "TABLEPRIVILEGES"}
Odbc3 == {"ALLOCHANDLE", "BINDPARAM", "CLOSECURSOR", "ENDTRAN", "FETCHSCROLL", "FREEHANDLE",
  "GETCONNECTATTR", "GETDESCFIELD", "GETDIAGFIELD", "GETDIAGREC", "GETENVATTR", "GETSTMTATTR",
  "SETCONNECTATTR", "SETDESCFIELD", "SETENVATTR", "SETSTMTATTR"}
Deprecated == {"ALLOCCONNECT", "ALLOCENV", "ALLOCSTMT", "ERROR", "FREECONNECT", "FREEENV",
  "TRANSACT", "GETCONNECTOPTION", "GETSTMTOPTION", "SETCONNECTOPTION", "SETSTMTOPTION",
  "PARAMOPTIONS", "SETSCROLLOPTIONS"}
\* SQL_API_ALL_FUNCTIONS, a list of ODBC 2
ListedFunctions == Core \cup Level1 \cup Level2 \cup Deprecated
\* any other function id
FunctionExists(f) == f \in Core \cup Level1 \cup Level2 \cup Odbc3 \cup {"BULKOPERATIONS"}
\* PGAPI_GetFunctions30, SQL_API_ODBC3_ALL_FUNCTIONS
ListedFunctions30 == Core \cup Level1 \cup Level2 \cup Odbc3 \cup {"COPYDESC", "DATASOURCES"}

-----------------------------------------------------------------------------
(* PGAPI_GetTypeInfo: a row for each type of SqlTypes that is asked for; for *)
(* Microsoft Jet one more, of integers that number the rows.                 *)

TypeInfo(conn, sqltype, serial) ==
  LET type == PgTypeOf(sqltype)
  IN [TYPE_NAME |-> NameOf(type, serial), DATA_TYPE |-> sqltype,
      PRECISION |-> ColumnSize(type, NoColumn, "none"),
      LITERAL |-> LiteralQuote(type), CREATE_PARAMS |-> CreateParams(type),
      NULLABLE |-> IF serial THEN "NO_NULLS" ELSE Nullable,
      CASE_SENSITIVE |-> CaseSensitive(type), SEARCHABLE |-> Searchable(type),
      UNSIGNED_ATTRIBUTE |-> IF conn.jet /\ sqltype = "INTEGER" THEN "TRUE" ELSE IsUnsigned(type),
      MONEY |-> IsMoney(type), AUTO_INCREMENT |-> IF serial THEN "TRUE" ELSE AutoIncrement(type),
      MINIMUM_SCALE |-> MinDecimalDigits(type), MAXIMUM_SCALE |-> MaxDecimalDigits(type),
      SQL_DATA_TYPE |-> SqlDescType(conn, type, NoColumn),
      SQL_DATETIME_SUB |-> DatetimeSub(conn, type), NUM_PREC_RADIX |-> Radix(type)]

GetTypeInfo(conn, asked) ==
  LET rows(t) == IF asked \notin {"ALL_TYPES", t} THEN <<>>
                 ELSE IF t = "INTEGER" /\ conn.jet
                      THEN <<TypeInfo(conn, t, FALSE), TypeInfo(conn, t, TRUE)>>
                      ELSE <<TypeInfo(conn, t, FALSE)>>
      upto[i \in 0..Len(SqlTypes)] == IF i = 0 THEN <<>> ELSE upto[i - 1] \o rows(SqlTypes[i])
  IN upto[Len(SqlTypes)]

-----------------------------------------------------------------------------
(* The application asks for a text, again with room for what it was told.    *)

Untold == [again |-> FALSE, type |-> "none"]
TextTypes(conn) == LET all == AllInfo(conn) IN {t \in DOMAIN all : all[t].bytes = 0}
Heard(conn, type, cb, again) ==
  [conn |-> conn, type |-> type, cb |-> cb, again |-> again, answer |-> SQLGetInfo(conn, type, cb)]
InfoUnit(conn) == IF conn.unicode THEN 2 ELSE 1

\* what the constants are: the driver's texts have a length
InfoKnown ==
  /\ InfoSizes \subseteq Nat
  /\ \A conn \in InfoConns :
       /\ conn.unicode \in BOOLEAN
       /\ LET all == AllInfo(conn)
          IN \A type \in TextTypes(conn) : Len(all[type].text) \in Nat

InitInfo == told = Untold
\* a buffer for wide letters has an even size, as ODBC demands; one of an odd
\* size could stay unterminated
AskInfo(conn, type, cb) ==
  /\ told = Untold
  /\ cb = NoBuffer \/ cb % InfoUnit(conn) = 0
  /\ told' = Heard(conn, type, cb, FALSE)
AskInfoAgain ==
  /\ told # Untold /\ ~told.again
  /\ told' = Heard(told.conn, told.type, told.answer.len + InfoUnit(told.conn), TRUE)
ForgetInfo == told.again /\ told' = Untold

NextInfo ==
  \/ \E conn \in InfoConns, cb \in InfoSizes \cup {NoBuffer} : \E type \in TextTypes(conn) : AskInfo(conn, type, cb)
  \/ AskInfoAgain
  \/ ForgetInfo

SpecInfo == InitInfo /\ [][NextInfo]_told

(* Texts of SQLGetInfo: with success and a buffer the application has every  *)
(* letter and a terminator, and never is more written than the buffer holds; *)
(* the length it is told is enough for the next time (info.cc's counting of  *)
(* bytes and letters, and of a terminator of one byte or two).               *)
InfoFits ==
  told # Untold =>
    LET unit == InfoUnit(told.conn)
        a == told.answer
    IN /\ told.cb # NoBuffer => unit * (a.letters + IF a.terminated THEN 1 ELSE 0) <= told.cb
       /\ told.cb # NoBuffer /\ a.ret = "SUCCESS" => a.terminated /\ unit * a.letters = a.len
       /\ told.again => a.ret = "SUCCESS"
=============================================================================
