------------------------------- MODULE OdbcData --------------------------------
(* A value on its way from the server to the application: what the daemon    *)
(* sends of it (src/versaplexd/vxapi.cs ExecChunkRecordset), what the driver *)
(* keeps (src/vxodbc/vxhelpers.cc process_msg), what it says about the       *)
(* column (OdbcTypes), and what a call of SQLGetData with SQL_C_DEFAULT      *)
(* makes of it (OdbcValues; OdbcConvert for the texts, piece by piece).      *)
(*                                                                           *)
(* A value of the server is [null, value].                                   *)
EXTENDS OdbcConvert, OdbcValues, OdbcTypes

VARIABLES column, \* [conn, vxtype, v]: a value of a fixed type in the cursor's row
          got     \* what SQLGetData made of it, for a buffer of so many bytes (room)
fixedVars == <<column, got>>

-----------------------------------------------------------------------------
(* The way into the driver                                                   *)

NumberTypes == {"Int64", "Int32", "Int16", "UInt8", "Double", "Decimal"}
Zero == [neg |-> FALSE, whole |-> <<0>>, frac |-> <<>>]
NoDigits == [neg |-> FALSE, whole |-> <<>>, frac |-> <<>>]

\* ExecChunkRecordset: NULL is a zero, an empty text or the first date, with
\* a flag beside it
Sent(vxtype, v) ==
  [null |-> IF v.null THEN 1 ELSE 0,
   data |-> CASE ~v.null -> v.value
              [] v.null /\ vxtype = "Decimal" -> NoDigits
              [] v.null /\ vxtype \in NumberTypes \ {"Decimal"} -> Zero
              [] v.null /\ vxtype = "Bool" -> [letter |-> "0"]
              [] v.null /\ vxtype = "DateTime" -> [day |-> UnixEpochDay, sec |-> 0, usec |-> 0]
              [] OTHER -> <<>>]

\* set_tuplefield_string: every field becomes a text; the flags are opened, not read
ProcessField(sent) == [null |-> FALSE, value |-> sent.data]

-----------------------------------------------------------------------------
(* The way out of it, for the types whose values have a greatest length.  A  *)
(* UInt8 is left out: the driver takes it for one letter (VxTypeToPgType).   *)

FixedTypes == (NumberTypes \ {"UInt8"}) \cup {"Bool", "DateTime"}
LettersOf(v) ==
  (IF v.neg THEN 1 ELSE 0) + Len(v.whole) + (IF v.frac = <<>> THEN 0 ELSE 1 + Len(v.frac))

\* a number as SQL_C_CHAR is the text the server sent, as OdbcConvert has it
NumberText(v, cb) ==
  LET letters == [i \in 1..LettersOf(v) |-> "0"]
  IN IF NeededAtFirst("CHAR", letters) > cb
     THEN Converted("TRUNCATED", LettersOf(v), <<"its beginning">>)
     ELSE Converted("OK", LettersOf(v), <<v>>)

GetFixed(field, pgtype, ctype, cb) ==
  CASE field.null -> NullValue(TRUE)
    [] ~field.null /\ ctype = "CHAR" /\ pgtype \in Exact \cup Floating ->
         NumberText(field.value, cb)
    [] OTHER -> ConvertFixed(pgtype, field.value, ctype, cb, UnixEpochDay)

AsRead(vxtype, v, ctype, cb) ==
  GetFixed(ProcessField(Sent(vxtype, v)), VxTypeToPgType[vxtype], ctype, cb)

-----------------------------------------------------------------------------
(* The application fetches a value of a fixed type and reads it: in its      *)
(* default C type, into a buffer of SQL_COLUMN_LENGTH bytes and one for a    *)
(* terminator; as a text, into one of SQL_COLUMN_DISPLAY_SIZE; or a decimal  *)
(* as an exact number.  Long values are read as OdbcConvert has it.          *)

Connections == [unicode : BOOLEAN, jet : BOOLEAN, odbc3 : BOOLEAN, lf : BOOLEAN]
ResultColumn(vxtype) ==
  [type |-> VxTypeToPgType[vxtype], size |-> -1, catalog |-> FALSE, name |-> "c"]

Number(neg, whole, frac) == [neg |-> neg, whole |-> whole, frac |-> frac]
Nines(n) == [i \in 1..n |-> 9]
\* the shortest and the longest values of a type; decimal.ToString() has up to
\* 29 digits, or a zero before a point and 28 behind it
Samples == [
  Int64 |-> {Number(FALSE, <<0>>, <<>>), Number(TRUE, Nines(19), <<>>)},
  Int32 |-> {Number(FALSE, <<0>>, <<>>), Number(TRUE, <<2, 1, 4, 7, 4, 8, 3, 6, 4, 7>>, <<>>)},
  Int16 |-> {Number(FALSE, <<0>>, <<>>), Number(TRUE, <<3, 2, 7, 6, 8>>, <<>>)},
  Double |-> {Number(FALSE, <<0>>, <<>>), Number(TRUE, Nines(7), Nines(7))},
  Decimal |-> {Number(FALSE, <<0>>, <<5>>), Number(TRUE, Nines(28), <<>>),
               Number(TRUE, Nines(14), Nines(14)), Number(TRUE, <<0>>, Nines(28)),
               Number(TRUE, <<1>> \o Nines(14), Nines(14))},
  Bool |-> {[letter |-> l] : l \in {"0", "1", "f", "t"}},
  DateTime |-> {[day |-> d, sec |-> s, usec |-> u] :
                  d \in {SqlEpochDay, UnixEpochDay, 20000}, s \in {0, 1, 86399}, u \in {0, 999999}}]
Null == [null |-> TRUE]
NotNull(x) == [null |-> FALSE, value |-> x]

\* decimals whose halving carries, drops zeros and ends within a byte
SomeDigits == {0, 1, 5, 9}
Numbers ==
  {Number(neg, whole, frac) : neg \in BOOLEAN, whole \in UNION {[1..n -> SomeDigits] : n \in 1..3},
                              frac \in UNION {[1..n -> SomeDigits] : n \in 0..1}}

NoColumnYet == [vxtype |-> "none"]
NotRead == [how |-> "none"]
InitFixed == column = NoColumnYet /\ got = NotRead

FetchFixed(conn, vxtype, v) ==
  /\ column = NoColumnYet
  /\ column' = [vxtype |-> vxtype, conn |-> conn, v |-> v]
  /\ got' = NotRead

\* what SQLColAttribute says of the column
Attribute(attr) ==
  ColAttributes(column.conn, <<ResultColumn(column.vxtype)>>, 1, attr, 64, FALSE).value

Reads(how, ctype, room) ==
  /\ got = NotRead
  /\ LET a == AsRead(column.vxtype, column.v, ctype, room + 1)
     IN got' = [how |-> how, room |-> room, ret |-> a.ret, len |-> a.len, data |-> a.data]
  /\ UNCHANGED column

ReadDefault ==
  LET type == VxTypeToPgType[column.vxtype]
  IN Reads("default", DefaultConversion("DEFAULT", CType(column.conn, type)),
           Attribute("COLUMN_LENGTH"))
ReadText == Reads("text", "CHAR", Attribute("DISPLAY_SIZE"))
ReadNumeric == column.vxtype = "Decimal" /\ Reads("numeric", "NUMERIC", 18)

NextRow == column # NoColumnYet /\ column' = NoColumnYet /\ got' = NotRead

OneConnection == CHOOSE conn \in Connections : TRUE
NextFixed ==
  \/ \E conn \in Connections, vxtype \in FixedTypes :
       \E v \in {Null} \cup {NotNull(x) : x \in Samples[vxtype]} : FetchFixed(conn, vxtype, v)
  \/ \E x \in Numbers : FetchFixed(OneConnection, "Decimal", NotNull(x))
  \/ column # NoColumnYet /\ (ReadDefault \/ ReadText)
  \/ ReadNumeric
  \/ NextRow

SpecFixed == InitFixed /\ [][NextFixed]_fixedVars

-----------------------------------------------------------------------------
(* What an application may rely on                                           *)

(* An application that reads a value of a fixed type as SQL_C_DEFAULT into   *)
(* SQL_COLUMN_LENGTH bytes, or as a text into SQL_COLUMN_DISPLAY_SIZE bytes, *)
(* and a terminator, has all of it, and the length it is told does not go    *)
(* beyond the buffer: pgtypes.cc's tables of lengths against what convert.cc *)
(* writes, which never looks at the buffer's size for a type of fixed        *)
(* length.  A NULL comes as what was sent in its place, which fits as well.  *)
(* Decimals of 31 letters, one more than the tables announce, do not fit:    *)
(* they are cut, and the call says so and tells their whole length.          *)
Announced == 30
Beyond == column.vxtype = "Decimal" /\ ~column.v.null /\ LettersOf(column.v.value) > Announced
BuffersFit ==
  got.how \in {"default", "text"} =>
    IF Beyond
    THEN got.ret = "TRUNCATED" /\ got.len = LettersOf(column.v.value)
    ELSE /\ got.ret = "OK" /\ got.data # AsItWas
         /\ got.len \in (IF column.v.null THEN 0 ELSE 1)..got.room

(* An SQL_NUMERIC_STRUCT holds the decimal number it is made from: its bytes *)
(* are the digits without the point, its precision and scale count them      *)
(* (the halving of digits in convert.cc, whose carries and last byte no      *)
(* small example reaches).                                                   *)
SmallEnough(v) == Len(v.whole \o v.frac) <= 8 \* for TLC's integers
NumericIsExact ==
  got.how = "numeric" /\ ~column.v.null /\ SmallEnough(column.v.value) =>
    LET v == column.v.value
        s == got.data[1]
    IN /\ Bytes(s.val) = Decimal(v.whole \o v.frac)
       /\ s.sign = IF v.neg THEN 0 ELSE 1
       /\ s.scale = Len(v.frac)
       /\ s.precision = Len(Dropped(v.whole)) + Len(v.frac)

ValuesComeWhole == BuffersFit /\ NumericIsExact

(* What src/protocol.txt:42 says of a result, "Null values are specified by  *)
(* the byte being 1", reaches the application: a NULL is told as one         *)
(* (SQL_NULL_DATA, -1).  It is not: OdbcSession_null.cfg shows it.              *)
NullIsReported == got.how = "default" /\ column.v.null => got.len = -1
=============================================================================
