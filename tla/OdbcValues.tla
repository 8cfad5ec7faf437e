----------------------------- MODULE OdbcValues ------------------------------
(* Conversions of the ODBC driver whose result has a fixed length            *)
(* (src/vxodbc/convert.cc copy_and_convert_field): dates, truth values and   *)
(* numbers, into the C type the application asks for.  Texts and binary data *)
(* are OdbcConvert's.                                                        *)
(*                                                                           *)
(* A calendar date is the number of its day, day 0 being 1970-01-01.  A      *)
(* value of the server is a record: [day, sec, usec] (DATETIME), [day]       *)
(* (DATE), [sec] (TIME), [letter] (BOOL) or a number [neg, whole, frac] of   *)
(* digits (all numbers).  A conversion is [ret, len, data]; data is AsItWas  *)
(* where nothing is written.                                                 *)
EXTENDS Integers, Sequences

Converted(ret, len, data) == [ret |-> ret, len |-> len, data |-> data]
AsItWas == <<>>

-----------------------------------------------------------------------------
(* NULL is only told through an indicator.                                   *)

NullValue(hasIndicator) ==
  IF hasIndicator THEN Converted("OK", -1, AsItWas) ELSE Converted("ERROR", 0, AsItWas)

-----------------------------------------------------------------------------
(* Dates and times                                                           *)

SqlEpochDay == -25567  \* 1900-01-01
UnixEpochDay == 0

Clock(sec) == [hh |-> sec \div 3600, mm |-> (sec \div 60) % 60, ss |-> sec % 60]

\* a bug: the shift keeps the seconds' day
SimpleTimeUnshifted(ftype, v, today) ==
  IF ftype = "DATETIME" THEN [day |-> v.day, clock |-> Clock(v.sec), fr |-> v.usec * 1000]
  ELSE [day |-> today, clock |-> Clock(0), fr |-> 0]

\* std_time: what is not in the value is today's date and midnight; a time
\* of day, which the server sends as a time of 1900-01-01, moves to 1970
SimpleTime(ftype, v, today) ==
  CASE ftype = "DATETIME" ->
         [day |-> IF v.day = SqlEpochDay THEN UnixEpochDay ELSE v.day,
          clock |-> Clock(v.sec), fr |-> v.usec * 1000]
    [] ftype = "DATE" -> [day |-> v.day, clock |-> Clock(0), fr |-> 0]
    [] ftype = "TIME" -> [day |-> today, clock |-> Clock(v.sec), fr |-> 0]
    [] OTHER -> [day |-> today, clock |-> Clock(0), fr |-> 0]

\* neut_str of a truth value
BoolText(v) == IF v.letter \in {"f", "F", "n", "N", "0"} THEN "0" ELSE "1"

\* a text of known length is written only if it fits; the length is returned
\* either way, with success
FixedText(ftype, v, t, cb) ==
  LET Fits(len, text, written) ==
        IF cb > len THEN Converted("OK", written, text) ELSE Converted("OK", len, AsItWas)
  IN CASE ftype = "DATE" -> Fits(10, <<t.day>>, 10)
       [] ftype = "TIME" -> Fits(8, <<t.clock>>, 8)
       [] ftype = "DATETIME" -> IF t.clock = Clock(0) THEN Fits(19, <<t.day>>, 10)
                                ELSE Fits(19, <<t.day, t.clock>>, 19)
       [] ftype = "BOOL" -> Fits(1, <<BoolText(v)>>, 1)

\* the same as SQL_C_WCHAR: widened where it is, in letters of two bytes
WideOfFixed(fixed, cb) ==
  IF fixed.data = AsItWas THEN fixed
  ELSE Converted(IF cb < 2 * fixed.len THEN "TRUNCATED" ELSE "OK", 2 * fixed.len, fixed.data)

DateStruct(t) == Converted("OK", 6, <<t.day>>)
TimeStruct(t) == Converted("OK", 6, <<t.clock>>)
TimestampStruct(t) == Converted("OK", 16, <<t.day, t.clock, t.fr>>)

-----------------------------------------------------------------------------
(* Numbers                                                                   *)

\* the number a sequence of decimal digits, or of bytes from the lowest, is
Decimal(digits) ==
  LET upto[i \in 0..Len(digits)] == IF i = 0 THEN 0 ELSE 10 * upto[i - 1] + digits[i]
  IN upto[Len(digits)]
Bytes(bytes) ==
  LET from[i \in 1..Len(bytes) + 1] ==
        IF i > Len(bytes) THEN 0 ELSE bytes[i] + 256 * from[i + 1]
  IN from[1]

\* atoi: the digits before the point
Atoi(v) == IF v.neg THEN -Decimal(v.whole) ELSE Decimal(v.whole)

\* an integer of the C type: the low bits, silently
Width == [BIT |-> 8, STINYINT |-> 8, TINYINT |-> 8, UTINYINT |-> 8,
          SSHORT |-> 16, SHORT |-> 16, USHORT |-> 16]
Signed == {"STINYINT", "TINYINT", "SSHORT", "SHORT"}
LowBits(n, ctype) ==
  IF ctype \notin DOMAIN Width THEN n
  ELSE LET low == n % 2 ^ Width[ctype]
       IN IF ctype \in Signed /\ low >= 2 ^ (Width[ctype] - 1)
          THEN low - 2 ^ Width[ctype] ELSE low

\* one pass of the division by two: the digits left, leading zeros dropped,
\* and the digit that falls out
Dropped(digits) ==
  IF \A i \in DOMAIN digits : digits[i] = 0 THEN <<>>
  ELSE SubSeq(digits, CHOOSE i \in DOMAIN digits :
                        digits[i] # 0 /\ \A j \in 1..i - 1 : digits[j] = 0, Len(digits))
Carry(digits, i) == IF i = 1 THEN 0 ELSE digits[i - 1] % 2
Halved(digits) == Dropped([i \in DOMAIN digits |-> (10 * Carry(digits, i) + digits[i]) \div 2])
LowBit(digits) == digits[Len(digits)] % 2

\* a bug: the highest byte, not being full, is lost
ValFullBytes(digits) ==
  LET bits[d \in Seq(0..9)] == IF d = <<>> THEN <<>> ELSE <<LowBit(d)>> \o bits[Halved(d)]
      all == bits[Dropped(digits)]
  IN [b \in 1..Len(all) \div 8 |-> LET bit(i) == all[8 * (b - 1) + i]
       IN bit(1) + 2 * bit(2) + 4 * bit(3) + 8 * bit(4) + 16 * bit(5) + 32 * bit(6)
            + 64 * bit(7) + 128 * bit(8)]

\* val: eight such bits to a byte, from the lowest
Val(digits) ==
  LET bits[d \in Seq(0..9)] == IF d = <<>> THEN <<>> ELSE <<LowBit(d)>> \o bits[Halved(d)]
      all == bits[Dropped(digits)]
      bit(i) == IF i > Len(all) THEN 0 ELSE all[i]
      byte(first) == bit(first) + 2 * bit(first + 1) + 4 * bit(first + 2) + 8 * bit(first + 3)
                       + 16 * bit(first + 4) + 32 * bit(first + 5) + 64 * bit(first + 6)
                       + 128 * bit(first + 7)
  IN [b \in 1..(Len(all) + 7) \div 8 |-> byte(8 * (b - 1) + 1)]

\* SQL_NUMERIC_STRUCT: leading zeros of the whole part are no digits.  The
\* server's decimals fit the 15 bytes that are filled.
NumericStruct(v) ==
  [sign |-> IF v.neg THEN 0 ELSE 1,
   precision |-> Len(Dropped(v.whole)) + Len(v.frac),
   scale |-> Len(v.frac),
   val |-> Val(v.whole \o v.frac)]

\* lengths of the number types; those of 64 bits hold every number, whose
\* digits are left as they are
NumberLength == [BIT |-> 1, STINYINT |-> 1, TINYINT |-> 1, UTINYINT |-> 1, SSHORT |-> 2,
  SHORT |-> 2, USHORT |-> 2, SLONG |-> 4, LONG |-> 4, ULONG |-> 4]

\* an integer as SQL_C_BINARY is a bookmark
Varbookmark(v, cb) ==
  IF cb >= 4 THEN Converted("OK", 4, <<Atoi(v)>>) ELSE Converted("TRUNCATED", 4, AsItWas)

-----------------------------------------------------------------------------
(* SQL_C_DEFAULT is what the column's type says (ctypeOf), but never wide.   *)

DefaultConversion(ctype, ctypeOf) ==
  IF ctype # "DEFAULT" THEN ctype ELSE IF ctypeOf = "WCHAR" THEN "CHAR" ELSE ctypeOf

NumberOf(ftype, v) ==
  IF ftype = "BOOL" THEN [neg |-> FALSE, whole |-> <<IF BoolText(v) = "1" THEN 1 ELSE 0>>, frac |-> <<>>]
  ELSE v

ConvertFixed(ftype, v, ctype, cb, today) ==
  LET t == SimpleTime(ftype, v, today)
  IN CASE ctype = "CHAR" -> FixedText(ftype, v, t, cb)
       [] ctype = "WCHAR" -> WideOfFixed(FixedText(ftype, v, t, cb), cb)
       [] ctype \in {"DATE", "TYPE_DATE"} -> DateStruct(t)
       [] ctype \in {"TIME", "TYPE_TIME"} -> TimeStruct(t)
       [] ctype \in {"TIMESTAMP", "TYPE_TIMESTAMP"} -> TimestampStruct(t)
       [] ctype \in {"SBIGINT", "UBIGINT"} -> Converted("OK", 8, <<NumberOf(ftype, v)>>)
       [] ctype \in DOMAIN NumberLength ->
            Converted("OK", NumberLength[ctype], <<LowBits(Atoi(NumberOf(ftype, v)), ctype)>>)
       [] ctype \in {"FLOAT", "DOUBLE"} ->
            Converted("OK", IF ctype = "FLOAT" THEN 4 ELSE 8, <<NumberOf(ftype, v)>>)
       [] ctype = "BINARY" /\ ftype = "INT4" -> Varbookmark(v, cb)
       [] ctype = "NUMERIC" -> Converted("OK", 19, <<NumericStruct(NumberOf(ftype, v))>>)
       [] OTHER -> Converted("UNSUPPORTED_TYPE", 0, AsItWas)
=============================================================================
