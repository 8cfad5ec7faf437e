----------------------------- MODULE OdbcTypes -------------------------------
(* What the ODBC driver tells an application about the type of a column:     *)
(* the answers of src/vxodbc/pgtypes.cc, and of SQLDescribeCol and           *)
(* SQLColAttribute (results.cc), which two applications, or two calls of one *)
(* application, compare.  A type of versaplexd becomes a PostgreSQL type     *)
(* (vxhelpers.h) whose attributes are answered by one function each.         *)
(*                                                                           *)
(* A connection is [unicode, jet, odbc3, lf]: reached through the wide API,  *)
(* used by Microsoft Jet, its environment of ODBC 3, line ends converted.    *)
(* All other settings of it have the driver's defaults.  A column is [type,  *)
(* size, catalog, name]: size is what the server said, as the driver keeps   *)
(* it, and catalog that the result is of a catalog function.                 *)
EXTENDS Integers, Sequences, TLC

-----------------------------------------------------------------------------
(* Types                                                                     *)

Integral == {"INT2", "OID", "XID", "INT4", "INT8"}
Floating == {"FLOAT4", "FLOAT8", "MONEY"}
Exact    == Integral \cup {"NUMERIC"}
Dated    == {"DATE", "TIME", "DATETIME"}
Letters  == {"CHAR", "CHAR2", "CHAR4", "CHAR8"}
Strings  == {"VARCHAR", "BPCHAR", "TEXT"}
PgTypes  == Exact \cup Floating \cup Dated \cup Letters \cup Strings
            \cup {"NAME", "BOOL", "BYTEA", "LO_UNDEFINED", "UNKNOWN"}

\* vxtype_to_pgtype: the type of a column of versaplexd
VxTypeToPgType == [
  String |-> "VARCHAR", Int64 |-> "INT8", Int32 |-> "INT4", Int16 |-> "INT2",
  UInt8 |-> "CHAR", Bool |-> "BOOL", Double |-> "FLOAT8", Uuid |-> "VARCHAR",
  Binary |-> "BYTEA", DateTime |-> "DATETIME", Decimal |-> "NUMERIC"]

\* the SQL types of SQLGetTypeInfo, in its order
SqlTypes == <<"BIGINT", "BIT", "CHAR", "TYPE_DATE", "DATE", "DECIMAL", "DOUBLE", "FLOAT",
  "INTEGER", "LONGVARBINARY", "LONGVARCHAR", "NUMERIC", "REAL", "SMALLINT", "TYPE_TIME",
  "TYPE_TIMESTAMP", "TIME", "TIMESTAMP", "TINYINT", "VARBINARY", "VARCHAR", "WCHAR",
  "WVARCHAR", "WLONGVARCHAR">>

MaxVarcharSize == 255
NoTotal == -4
Wclen == 2
Unknown == -1

\* a smallint: the size of a column is kept in one
Int2(n) == ((n + 32768) % 65536) - 32768

-----------------------------------------------------------------------------
(* Sizes of a column; NoColumn asks about the type, whatever the result.     *)

NoColumn == [type |-> "none", size |-> 0, catalog |-> FALSE, name |-> ""]
IsColumn(col) == col # NoColumn

\* getNumericDecimalDigits, getNumericColumnSize: no result has a type
\* modifier or a longest value, so only a catalog result knows a size
NumericDecimalDigits(col) ==
  IF IsColumn(col) /\ col.catalog /\ col.size > 0 THEN col.size ELSE 6
NumericColumnSize(col) ==
  IF IsColumn(col) /\ col.catalog /\ col.size > 0 THEN 2 * col.size ELSE 28

\* getCharColumnSize: the size if it is known, else the driver's maximum;
\* a type the driver does not know as a string may be said not to be known
CharColumnSize(type, col, unknownAs) ==
  IF ~IsColumn(col) THEN MaxVarcharSize
  ELSE IF col.size > 0 THEN col.size
  ELSE IF col.catalog \/ type \in Strings \/ unknownAs = "max" THEN MaxVarcharSize
  ELSE Unknown

\* pgtype_column_size
ColumnSize(type, col, unknownAs) ==
  CASE type = "CHAR" -> 1 [] type = "CHAR2" -> 2 [] type = "CHAR4" -> 4 [] type = "CHAR8" -> 8
    [] type = "NAME" -> 0
    [] type = "INT2" -> 5
    [] type \in {"OID", "XID", "INT4"} -> 10
    [] type = "INT8" -> 19
    [] type = "NUMERIC" -> NumericColumnSize(col)
    [] type \in {"FLOAT4", "MONEY"} -> 7
    [] type = "FLOAT8" -> 15
    [] type = "DATE" -> 10 [] type = "TIME" -> 8 [] type = "DATETIME" -> 28
    [] type = "BOOL" -> 1
    [] type = "LO_UNDEFINED" -> NoTotal
    [] OTHER -> CharColumnSize(type, col, unknownAs)

\* pgtype_precision, pgtype_scale: of numbers only
Precision(type, col) == IF type = "NUMERIC" THEN NumericColumnSize(col) ELSE Unknown
Scale(type, col) == IF type = "NUMERIC" THEN NumericDecimalDigits(col) ELSE Unknown

\* pgtype_display_size: the letters of the longest value
DisplaySize(type, col, unknownAs) ==
  CASE type = "INT2" -> 6 [] type \in {"OID", "XID"} -> 10 [] type = "INT4" -> 11
    [] type = "INT8" -> 20
    [] type = "NUMERIC" -> NumericColumnSize(col) + 2
    [] type = "MONEY" -> 15 [] type = "FLOAT4" -> 13 [] type = "FLOAT8" -> 22
    [] OTHER -> ColumnSize(type, col, unknownAs)

\* a string of n letters in bytes: two for each if wide; with line ends
\* converted twice as many, but no more than the driver's maximum
StringBytes(conn, n) ==
  IF n = NoTotal THEN n
  ELSE IF conn.unicode THEN n * Wclen
  ELSE IF ~conn.lf THEN n
  ELSE IF n <= MaxVarcharSize /\ 2 * n > MaxVarcharSize THEN MaxVarcharSize
  ELSE 2 * n

\* pgtype_to_ctype: what SQL_C_DEFAULT means for a column
CType(conn, type) ==
  CASE type = "INT8" -> IF conn.jet THEN "CHAR" ELSE "SBIGINT"
    [] type \in {"NUMERIC", "BOOL"} -> "CHAR"
    [] type = "INT2" -> "SSHORT"
    [] type \in {"OID", "XID"} -> "ULONG"
    [] type = "INT4" -> "SLONG"
    [] type \in {"FLOAT4", "MONEY"} -> "FLOAT"
    [] type = "FLOAT8" -> "DOUBLE"
    [] type = "DATE" -> IF conn.odbc3 THEN "TYPE_DATE" ELSE "DATE"
    [] type = "TIME" -> IF conn.odbc3 THEN "TYPE_TIME" ELSE "TIME"
    [] type = "DATETIME" -> IF conn.odbc3 THEN "TYPE_TIMESTAMP" ELSE "TIMESTAMP"
    [] type \in {"BYTEA", "LO_UNDEFINED"} -> "BINARY"
    [] OTHER -> IF conn.unicode THEN "WCHAR" ELSE "CHAR"

\* a bug: neither sign nor point of a number counts
BufferLengthUnsigned(conn, type, col, unknownAs) ==
  CASE type = "INT2" -> 2
    [] type \in {"OID", "XID", "INT4"} -> 4
    [] type = "INT8" -> IF CType(conn, type) = "CHAR" THEN 19 ELSE 8
    [] type = "NUMERIC" -> NumericColumnSize(col)
    [] type \in {"FLOAT4", "MONEY"} -> 4
    [] type = "FLOAT8" -> 8
    [] type = "DATETIME" -> 16
    [] OTHER -> ColumnSize(type, col, unknownAs)

\* pgtype_buffer_length: the bytes of a value in its default C type
BufferLength(conn, type, col, unknownAs) ==
  CASE type = "INT2" -> 2
    [] type \in {"OID", "XID", "INT4"} -> 4
    [] type = "INT8" -> IF CType(conn, type) = "CHAR" THEN 20 ELSE 8
    [] type = "NUMERIC" -> NumericColumnSize(col) + 2
    [] type \in {"FLOAT4", "MONEY"} -> 4
    [] type = "FLOAT8" -> 8
    [] type \in {"DATE", "TIME"} -> 6
    [] type = "DATETIME" -> 16
    [] type \in {"VARCHAR", "BPCHAR"} -> StringBytes(conn, ColumnSize(type, col, unknownAs))
    [] OTHER -> ColumnSize(type, col, unknownAs)

\* pgtype_desclength
DescLength(type, col, unknownAs) ==
  CASE type = "INT2" -> 2
    [] type \in {"OID", "XID", "INT4", "FLOAT4", "MONEY"} -> 4
    [] type = "INT8" -> 20
    [] type = "NUMERIC" -> NumericColumnSize(col) + 2
    [] type = "FLOAT8" -> 8
    [] OTHER -> ColumnSize(type, col, unknownAs)

\* pgtype_transfer_octet_length
TransferOctetLength(conn, type, col, unknownAs) ==
  CASE type \in Strings -> StringBytes(conn, ColumnSize(type, col, unknownAs))
    [] type = "BYTEA" -> ColumnSize(type, col, unknownAs)
    [] OTHER -> Unknown

-----------------------------------------------------------------------------
(* SQL types                                                                 *)

\* sqltype_to_pgtype
PgTypeOf(sqltype) ==
  CASE sqltype \in {"BINARY", "VARBINARY", "LONGVARBINARY"} -> "BYTEA"
    [] sqltype \in {"CHAR", "WCHAR"} -> "BPCHAR"
    [] sqltype = "BIT" -> "CHAR"
    [] sqltype \in {"TYPE_DATE", "DATE"} -> "DATE"
    [] sqltype \in {"DOUBLE", "FLOAT"} -> "FLOAT8"
    [] sqltype \in {"DECIMAL", "NUMERIC"} -> "NUMERIC"
    [] sqltype = "BIGINT" -> "INT8"
    [] sqltype = "INTEGER" -> "INT4"
    [] sqltype \in {"LONGVARCHAR", "WLONGVARCHAR"} -> "TEXT"
    [] sqltype = "REAL" -> "FLOAT4"
    [] sqltype \in {"SMALLINT", "TINYINT"} -> "INT2"
    [] sqltype \in {"TIME", "TYPE_TIME"} -> "TIME"
    [] sqltype \in {"TIMESTAMP", "TYPE_TIMESTAMP"} -> "DATETIME"
    [] sqltype \in {"VARCHAR", "WVARCHAR"} -> "VARCHAR"
    [] OTHER -> "UNKNOWN"

\* pgtype_to_concise_type: a string longer than the driver's maximum is long
ConciseType(conn, type, col) ==
  LET long == IsColumn(col) /\ CharColumnSize(type, col, "max") > MaxVarcharSize
      Text(wide, narrow) == IF conn.unicode THEN wide ELSE narrow
  IN CASE type \in Letters -> Text("WCHAR", "CHAR")
       [] type = "NAME" -> Text("WVARCHAR", "VARCHAR")
       [] type = "TEXT" \/ (type \in Strings /\ long) -> Text("WLONGVARCHAR", "LONGVARCHAR")
       [] type = "BPCHAR" /\ ~long -> Text("WCHAR", "CHAR")
       [] type = "VARCHAR" /\ ~long -> Text("WVARCHAR", "VARCHAR")
       [] type = "BYTEA" -> "VARBINARY"
       [] type = "LO_UNDEFINED" -> "LONGVARBINARY"
       [] type = "INT2" -> "SMALLINT"
       [] type \in {"OID", "XID", "INT4"} -> "INTEGER"
       [] type = "INT8" -> IF conn.jet THEN "NUMERIC" ELSE "BIGINT"
       [] type = "NUMERIC" -> "NUMERIC"
       [] type = "FLOAT4" -> "REAL"
       [] type \in {"FLOAT8", "MONEY"} -> "FLOAT"
       [] type = "DATE" -> IF conn.odbc3 THEN "TYPE_DATE" ELSE "DATE"
       [] type = "TIME" -> IF conn.odbc3 THEN "TYPE_TIME" ELSE "TIME"
       [] type = "DATETIME" -> IF conn.odbc3 THEN "TYPE_TIMESTAMP" ELSE "TIMESTAMP"
       [] type = "BOOL" -> "CHAR"
       [] OTHER -> "VARCHAR"

\* pgtype_to_sqldesctype, pgtype_to_datetime_sub
SqlDescType(conn, type, col) ==
  LET concise == ConciseType(conn, type, col)
  IN IF concise \in {"TYPE_DATE", "TYPE_TIME", "TYPE_TIMESTAMP"} THEN "DATETIME" ELSE concise
DatetimeSub(conn, type) ==
  LET concise == ConciseType(conn, type, NoColumn)
  IN CASE concise = "TYPE_DATE" -> 1 [] concise = "TYPE_TIME" -> 2
       [] concise = "TYPE_TIMESTAMP" -> 3 [] OTHER -> Unknown

\* sqltype_to_default_ctype
DefaultCType(conn, sqltype) ==
  CASE sqltype = "BIGINT" -> "SBIGINT"
    [] sqltype \in {"WCHAR", "WVARCHAR", "WLONGVARCHAR"} -> IF conn.unicode THEN "WCHAR" ELSE "CHAR"
    [] sqltype = "BIT" -> "BIT"
    [] sqltype = "TINYINT" -> "STINYINT"
    [] sqltype = "SMALLINT" -> "SSHORT"
    [] sqltype = "INTEGER" -> "SLONG"
    [] sqltype = "REAL" -> "FLOAT"
    [] sqltype \in {"FLOAT", "DOUBLE"} -> "DOUBLE"
    [] sqltype \in {"BINARY", "VARBINARY", "LONGVARBINARY"} -> "BINARY"
    [] sqltype \in {"DATE", "TIME", "TIMESTAMP", "TYPE_DATE", "TYPE_TIME", "TYPE_TIMESTAMP"} -> sqltype
    [] OTHER -> "CHAR"

\* ctype_length: bytes of a C type; the length of the others is the value's
CTypeLength(ctype) ==
  CASE ctype \in {"SSHORT", "SHORT", "USHORT"} -> 2
    [] ctype \in {"SLONG", "LONG", "ULONG", "FLOAT"} -> 4
    [] ctype = "DOUBLE" -> 8
    [] ctype \in {"BIT", "STINYINT", "TINYINT", "UTINYINT"} -> 1
    [] ctype \in {"DATE", "TYPE_DATE", "TIME", "TYPE_TIME"} -> 6
    [] ctype \in {"TIMESTAMP", "TYPE_TIMESTAMP"} -> 16
    [] OTHER -> 0

-----------------------------------------------------------------------------
(* The other attributes of a type                                            *)

\* pgtype_min_decimal_digits, _max_, pgtype_decimal_digits
Undivided == Integral \cup Floating \cup {"BOOL", "DATETIME"}
MinDecimalDigits(type) == IF type \in Undivided \cup {"NUMERIC"} THEN 0 ELSE Unknown
DecimalDigits(type, col) ==
  CASE type \in Undivided -> 0 [] type = "NUMERIC" -> NumericDecimalDigits(col) [] OTHER -> Unknown
MaxDecimalDigits(type) ==
  CASE type \in Undivided -> 0
    [] type = "NUMERIC" -> NumericDecimalDigits(NoColumn)
    [] OTHER -> Unknown

\* pgtype_radix, _auto_increment, _case_sensitive, _money, _searchable, _unsigned
Radix(type) == IF type \in Exact \cup Floating THEN 10 ELSE Unknown
AutoIncrement(type) ==
  IF type \in Exact \cup Floating \cup Dated \cup {"BOOL"} THEN "FALSE" ELSE "none"
CaseSensitive(type) == type \in Letters \cup Strings \cup {"NAME"}
IsMoney(type) == type \in {"MONEY", "NUMERIC"}
Searchable(type) ==
  IF type \in Letters \cup Strings \cup {"NAME"} THEN "SEARCHABLE" ELSE "ALL_EXCEPT_LIKE"
IsUnsigned(type) ==
  CASE type \in {"OID", "XID"} -> "TRUE"
    [] type \in (Exact \cup Floating) \ {"OID", "XID"} -> "FALSE"
    [] OTHER -> "none"

\* pgtype_nullable: always, pgtype_literal_prefix, _suffix, pgtype_create_params
Nullable == "NULLABLE"
LiteralQuote(type) == IF type \in Exact \cup Floating THEN "none" ELSE "'"
CreateParams(type) ==
  CASE type \in {"BPCHAR", "VARCHAR"} -> "max. length"
    [] type = "NUMERIC" -> "precision, scale"
    [] OTHER -> "none"

\* pgtype_to_name
NameOf(type, auto) ==
  CASE type = "INT8" /\ auto -> "bigserial" [] type = "INT4" /\ auto -> "serial"
    [] type \in {"CHAR", "BPCHAR"} -> "char"
    [] OTHER -> type

-----------------------------------------------------------------------------
(* PGAPI_DescribeCol: the driver's own answers; the size of any other column *)
(* is the server's, of at least 4, as an unsigned long.                      *)

Huge == 2147483647  \* for any size above the models' bound: -1 as an unsigned long
Unsigned(n) == IF n < 0 THEN Huge ELSE n
Described(sqltype, size, scale) == [sqltype |-> sqltype, size |-> size, scale |-> scale]

DescribeCol(col) ==
  CASE col.type = "BOOL" -> Described("BIT", 1, 0)
    [] col.type = "CHAR" -> Described("TINYINT", 3, 0)
    [] col.type = "INT4" -> Described("INTEGER", ColumnSize("INT4", col, "none"), 0)
    [] col.type = "NUMERIC" -> Described("DECIMAL", 19, 4)
    [] col.type = "FLOAT8" ->
         Described("DOUBLE", ColumnSize("FLOAT8", col, "none"), Precision("FLOAT8", col))
    [] col.type = "DATETIME" -> Described("VARCHAR", 19, 1)
    [] OTHER -> Described("VARCHAR", IF Unsigned(col.size) < 4 THEN 4 ELSE Unsigned(col.size), 1)

-----------------------------------------------------------------------------
(* PGAPI_ColAttributes.  The server sends nothing of the tables a result is  *)
(* made of, so every answer is of the type, the size or the name alone.      *)

AtLeast0(n) == IF n < 0 THEN 0 ELSE n
Unknown0(n) == IF n = Unknown THEN 0 ELSE n

\* the attributes of ODBC 2, and those ODBC 3 only renamed
ColumnAttributes(conn, col) == [
  AUTO_INCREMENT |-> AutoIncrement(col.type) \notin {"none", "FALSE"},
  CASE_SENSITIVE |-> CaseSensitive(col.type),
  DISPLAY_SIZE   |-> DisplaySize(col.type, col, "max"),
  LABEL          |-> col.name,
  NAME           |-> col.name,
  COLUMN_LENGTH  |-> AtLeast0(BufferLength(conn, col.type, col, "max")),
  MONEY          |-> IsMoney(col.type),
  NULLABLE       |-> Nullable,
  OWNER_NAME     |-> "",
  COLUMN_PRECISION |-> AtLeast0(ColumnSize(col.type, col, "max")),
  QUALIFIER_NAME |-> "",
  COLUMN_SCALE   |-> AtLeast0(DecimalDigits(col.type, col)),
  SEARCHABLE     |-> Searchable(col.type)]

KindAttributes(conn, col) == [
  TABLE_NAME |-> "",
  TYPE       |-> ConciseType(conn, col.type, col),
  TYPE_NAME  |-> NameOf(col.type, FALSE),
  UNSIGNED   |-> IsUnsigned(col.type) # "FALSE",
  UPDATABLE  |-> "READONLY",
  BASE_COLUMN_NAME |-> col.name,
  BASE_TABLE_NAME  |-> ""]

\* those with a meaning of their own in ODBC 3
DescAttributes(conn, col) == [
  DESC_LENGTH     |-> Unknown0(DescLength(col.type, col, "max")),
  OCTET_LENGTH    |-> Unknown0(TransferOctetLength(conn, col.type, col, "max")),
  DESC_PRECISION  |-> AtLeast0(Precision(col.type, col)),
  DESC_SCALE      |-> AtLeast0(Scale(col.type, col)),
  LOCAL_TYPE_NAME |-> NameOf(col.type, FALSE),
  DESC_TYPE       |-> SqlDescType(conn, col.type, col),
  NUM_PREC_RADIX  |-> Radix(col.type),
  LITERAL_PREFIX  |-> LiteralQuote(col.type),
  LITERAL_SUFFIX  |-> LiteralQuote(col.type),
  UNNAMED         |-> "NAMED",
  SS_1211         |-> 0]

TextAttributes == {"LABEL", "NAME", "OWNER_NAME", "QUALIFIER_NAME", "TABLE_NAME", "TYPE_NAME",
  "BASE_COLUMN_NAME", "BASE_TABLE_NAME", "LOCAL_TYPE_NAME", "LITERAL_PREFIX", "LITERAL_SUFFIX"}

\* a text goes into a buffer of cb letters with its terminator; a quote that
\* is not there is answered as the number 0
Reply(ret, value) == [ret |-> ret, value |-> value]
Untouched == "untouched"
Delivered(attr, value, cb) ==
  IF attr \in TextAttributes /\ value # "none" /\ Len(value) >= cb
  THEN Reply("SUCCESS_WITH_INFO", value)
  ELSE Reply("SUCCESS", value)

\* column 0 is the bookmark, of which only length and type are answered;
\* the number of columns is asked of no column
BookmarkAttribute(attr, variable) ==
  Reply("SUCCESS", CASE attr = "OCTET_LENGTH" -> 4
                      [] attr = "DESC_TYPE" -> IF variable THEN "BINARY" ELSE "INTEGER"
                      [] OTHER -> Untouched)

\* the three groups together
AttributesOf(conn, col) ==
  DOMAIN ColumnAttributes(conn, col) \cup DOMAIN KindAttributes(conn, col)
    \cup DOMAIN DescAttributes(conn, col)
AttributeOf(conn, col, attr) ==
  IF attr \in DOMAIN ColumnAttributes(conn, col) THEN ColumnAttributes(conn, col)[attr]
  ELSE IF attr \in DOMAIN KindAttributes(conn, col) THEN KindAttributes(conn, col)[attr]
  ELSE DescAttributes(conn, col)[attr]

ColAttributes(conn, columns, n, attr, cb, variable) ==
  IF attr = "COUNT" THEN Reply("SUCCESS", Len(columns))
  ELSE IF n = 0 THEN BookmarkAttribute(attr, variable)
  ELSE IF n > Len(columns) \/ attr \notin AttributesOf(conn, columns[n])
  THEN Reply("ERROR", Untouched)
  ELSE Delivered(attr, AttributeOf(conn, columns[n], attr), cb)
=============================================================================
