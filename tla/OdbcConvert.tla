----------------------------- MODULE OdbcConvert -----------------------------
(* How the ODBC driver turns a value of the server, always a text, into what *)
(* the application asked for (src/vxodbc/convert.cc copy_and_convert_field), *)
(* and how SQLGetData delivers a long one in pieces: the buffer ttlbuf that  *)
(* keeps the converted value between calls and data_left, what of it is      *)
(* still to be delivered (-1: nothing yet; 0: all; -2: and said so).         *)
(*                                                                           *)
(* A value is a sequence of letters; "\n" and "\r" are the line ends, "\\"   *)
(* starts an octal escape of binary data.  A letter fills one unit, of two   *)
(* bytes for SQL_C_WCHAR and one otherwise.                                  *)
EXTENDS Integers, Sequences

CONSTANTS FieldTypes, \* of the column that is read
          Values,     \* what the rows of the result hold in it
          CTypes,     \* what the application asks for
          BufferSizes, \* cbValueMax
          MaxReads    \* a bound: of the times a bookmark is read

VARIABLES row,  \* [type, value] of the column in the row the cursor is on; lf: the
                \* LFConversion setting (default on for Windows only)
          gd,   \* the column's GetDataClass: left, buf (ttlbuf), size, used
          read  \* what the application has got of the value, and how
vars == <<row, gd, read>>

ReadingKnown ==
  /\ CTypes \subseteq {"CHAR", "WCHAR", "BINARY"}
  /\ BufferSizes \subseteq Nat
  /\ Values \subseteq Seq(STRING)
  /\ MaxReads \in Nat

TextTypes == {"UNKNOWN", "BPCHAR", "VARCHAR", "TEXT"}
Largest(a, b) == IF a > b THEN a ELSE b
NoBuf == <<"none">>

-----------------------------------------------------------------------------
(* Conversions of a whole value.                                             *)

\* a bug: a carriage return is added to a line end that has one
ConvertLinefeedsAgain(v, convlf) ==
  LET out[i \in 0..Len(v)] ==
        IF i = 0 THEN <<>>
        ELSE out[i - 1] \o (IF convlf /\ v[i] = "\n" THEN <<"\r", "\n">> ELSE <<v[i]>>)
  IN out[Len(v)]

\* convert_linefeeds: with the conversion on, \n becomes \r\n unless it is one
ConvertLinefeeds(v, convlf) ==
  LET out[i \in 0..Len(v)] ==
        IF i = 0 THEN <<>>
        ELSE out[i - 1] \o (IF convlf /\ v[i] = "\n" /\ (i = 1 \/ v[i - 1] # "\r")
                            THEN <<"\r", "\n">> ELSE <<v[i]>>)
  IN out[Len(v)]

\* conv_from_octal: the three digits after the escape
Digit == [d \in {"0", "1", "2", "3", "4", "5", "6", "7", "8", "9"} |->
  CASE d = "0" -> 0 [] d = "1" -> 1 [] d = "2" -> 2 [] d = "3" -> 3 [] d = "4" -> 4
    [] d = "5" -> 5 [] d = "6" -> 6 [] d = "7" -> 7 [] d = "8" -> 8 [] OTHER -> 9]
Digits == DOMAIN Digit
ConvFromOctal(v, i) == 64 * Digit[v[i + 1]] + 8 * Digit[v[i + 2]] + Digit[v[i + 3]]

\* convert_from_pgbinary: \\ is one backslash, \ooo the byte, the rest itself
ConvertFromPgbinary(v) ==
  LET from[i \in 1..Len(v) + 4] ==
        IF i > Len(v) THEN <<>>
        ELSE IF v[i] # "\\" THEN <<v[i]>> \o from[i + 1]
        ELSE IF v[i + 1] = "\\" THEN <<"\\">> \o from[i + 2]
        ELSE <<ConvFromOctal(v, i)>> \o from[i + 4]
  IN from[1]

\* pg_bin2hex: two letters for each byte
Bin2Hex(bytes) ==
  [i \in 1..2 * Len(bytes) |-> <<bytes[(i + 1) \div 2], IF i % 2 = 1 THEN "high" ELSE "low">>]

TextHandling(ftype, ctype) ==
  \/ ctype \in {"CHAR", "WCHAR"}
  \/ ctype = "BINARY" /\ ftype \in TextTypes

Whole(ftype, ctype, v) ==
  IF ctype # "WCHAR" /\ ftype = "BYTEA"
  THEN IF ctype = "BINARY" THEN ConvertFromPgbinary(v) ELSE Bin2Hex(ConvertFromPgbinary(v))
  ELSE ConvertLinefeeds(v, row.lf)

\* ATOI32U: the number in the four bytes of a bookmark, told from its digits
ATOI32U(v) ==
  LET number[i \in 0..Len(v)] == IF i = 0 THEN 0 ELSE 10 * number[i - 1] + Digit[v[i]]
  IN number[Len(v)]

\* what SQL_C_VARBOOKMARK, the same as SQL_C_BINARY, is of
IsBookmark(ftype, ctype) == ftype = "INT4" /\ ctype = "BINARY"

Unit(ctype) == IF ctype = "WCHAR" THEN 2 ELSE 1
Terminator(ctype) == CASE ctype = "WCHAR" -> 2 [] ctype = "BINARY" -> 0 [] OTHER -> 1

-----------------------------------------------------------------------------
(* One call of copy_and_convert_field for SQLGetData.                        *)

FreshGData == [left |-> -1, buf |-> NoBuf, size |-> 0, used |-> 0]
Answer(ret, len, data, g) == [ret |-> ret, len |-> len, data |-> data, gd |-> g]

\* the value was delivered before; saying so again waits for the next call
AtItsEnd(g, cb) == g.left = 0 \/ (g.left = -2 /\ cb > 0)
NoDataFound(g) == Answer("NO_DATA", 0, <<>>, [FreshGData EXCEPT !.left = -2, !.used = g.used])

\* the first call converts the value into ttlbuf, unless it can be copied as
\* it is and in one piece; a buffer kept from an earlier row is used again
NeededAtFirst(ctype, whole) == Unit(ctype) * Len(whole) + Terminator(ctype)
Buffered(g, ctype, v, whole, cb, converted) ==
  IF converted \/ whole # v \/ NeededAtFirst(ctype, whole) > cb
  THEN [left |-> -1, buf |-> whole, used |-> Unit(ctype) * Len(whole),
        size |-> Largest(IF g.buf = NoBuf THEN 0 ELSE g.size, NeededAtFirst(ctype, whole))]
  ELSE [FreshGData EXCEPT !.used = g.used]

\* bytes copied into a buffer of cb bytes: whole units, room for a terminator
\* a bug: no room for the terminator
CopyLenFull(ctype, len, cb) == IF len > cb THEN cb ELSE len
CopyLen(ctype, len, cb) ==
  LET room == IF ctype = "BINARY" THEN IF len > cb THEN cb ELSE len
              ELSE IF len >= cb THEN cb - 1 ELSE len
  IN Unit(ctype) * (room \div Unit(ctype))

LastUnits(s, n) == SubSeq(s, Len(s) - n + 1, Len(s))
FirstUnits(s, n) == SubSeq(s, 1, n)

TextPiece(g0, ftype, ctype, v, cb) ==
  LET whole == Whole(ftype, ctype, v)
      first == g0.left < 0
      g1 == IF first THEN Buffered(g0, ctype, v, whole, cb, ctype = "WCHAR" \/ ftype = "BYTEA")
            ELSE g0
      source == IF g1.buf = NoBuf THEN whole ELSE g1.buf
      len == IF g1.left > 0 THEN g1.left ELSE Unit(ctype) * Len(source)
      needed == IF first THEN NeededAtFirst(ctype, whole)
                ELSE IF g1.left > 0 THEN len + g1.size - g1.used ELSE 0
      copied == IF cb > 0 THEN CopyLen(ctype, len, cb) ELSE 0
      data == FirstUnits(LastUnits(source, len \div Unit(ctype)), copied \div Unit(ctype))
      g2 == [g1 EXCEPT !.left = len - copied]
  IN IF first /\ cb = 0 THEN Answer("TRUNCATED", Unit(ctype) * Len(whole), <<>>, g0)
     ELSE IF cb > 0 /\ needed > cb THEN Answer("TRUNCATED", len, data, g2)
     ELSE Answer("OK", len, data, [g2 EXCEPT !.left = 0, !.buf = NoBuf])

\* SQL_C_BINARY of binary data: no terminator, and len alone decides
BytesPiece(g0, v, cb) ==
  LET bytes == ConvertFromPgbinary(v)
      first == g0.left < 0
      size == IF g0.buf = NoBuf THEN 0 ELSE g0.size
      g1 == IF first THEN [left |-> -1, buf |-> bytes, used |-> Len(bytes),
                           size |-> Largest(size, Len(v) + 1)]
            ELSE g0
      len == IF g1.left > 0 THEN g1.left ELSE g1.used
      copied == IF cb = 0 THEN 0 ELSE CopyLen("BINARY", len, cb)
      g2 == [g1 EXCEPT !.left = len - copied]
  IN IF first /\ cb = 0 THEN Answer("TRUNCATED", Len(bytes), <<>>, g0)
     ELSE IF len > cb
          THEN Answer("TRUNCATED", len, FirstUnits(LastUnits(g1.buf, len), copied), g2)
          ELSE Answer("OK", len, LastUnits(g1.buf, len), [g2 EXCEPT !.left = 0, !.buf = NoBuf])

\* a bookmark is copied whole or not at all, and data_left stays as it is: a
\* call after it copies it again
Bookmark(g, v, cb) ==
  IF cb >= 4 THEN Answer("OK", 4, <<ATOI32U(v)>>, g) ELSE Answer("TRUNCATED", 4, <<>>, g)

CopyAndConvert(g0, ftype, ctype, v, cb) ==
  LET g == IF g0.left = -2 THEN [g0 EXCEPT !.left = -1] ELSE g0
  IN IF AtItsEnd(g0, cb) THEN NoDataFound(g0)
     ELSE IF ftype = "LO_UNDEFINED" THEN Answer("ERROR", 0, <<>>, g)
     ELSE IF TextHandling(ftype, ctype) THEN TextPiece(g, ftype, ctype, v, cb)
     ELSE IF IsBookmark(ftype, ctype) THEN Bookmark(g, v, cb)
     ELSE IF ftype = "BYTEA" THEN BytesPiece(g, v, cb)
     ELSE Answer("UNSUPPORTED_TYPE", 0, <<>>, g)

-----------------------------------------------------------------------------
Unread == [ctype |-> "none", got |-> <<>>, ret |-> "none", asked |-> FALSE, size |-> 0]

\* what a column of the type can hold
Holds(ftype, v) ==
  ftype \in {"INT4", "INT8"} => v # <<>> /\ \A i \in DOMAIN v : v[i] \in Digits

Init ==
  /\ row \in [type : FieldTypes, value : Values, lf : BOOLEAN]
  /\ Holds(row.type, row.value)
  /\ gd = FreshGData
  /\ read = Unread

(* SQLFetch onto another row.  Without bound columns (fresh = FALSE) the     *)
(* column stays the current one: only data_left is reset, ttlbuf is kept.    *)
(* Copying a bound column makes no column current and resets the last one.   *)
Move(v, fresh) ==
  /\ Holds(row.type, v)
  /\ row' = [row EXCEPT !.value = v]
  /\ gd' = IF fresh THEN FreshGData ELSE [gd EXCEPT !.left = -1]
  /\ read' = Unread

(* SQLGetData with one C type until the value is delivered; a length is      *)
(* asked for (cb = 0) before the first piece, or (asked) after it.           *)
GetData(ctype, cb) ==
  LET a == CopyAndConvert(gd, row.type, ctype, row.value, cb)
  IN /\ read.ctype \in {"none", ctype}
     /\ read.ret # "NO_DATA"
     /\ IsBookmark(row.type, ctype) => Len(read.got) < MaxReads
     /\ gd' = a.gd
     /\ read' = [ctype |-> ctype, got |-> read.got \o a.data, ret |-> a.ret,
                 asked |-> read.asked \/ (cb = 0 /\ gd.left # -1), size |-> cb]
     /\ UNCHANGED row

Next ==
  \/ \E v \in Values, fresh \in BOOLEAN : Move(v, fresh)
  \/ \E ctype \in CTypes, cb \in BufferSizes : GetData(ctype, cb)

Spec == Init /\ [][Next]_vars

-----------------------------------------------------------------------------
Expected == Whole(row.type, read.ctype, row.value)

(* An application that reads a value piece by piece, in one C type and with  *)
(* buffers of any sizes, has it whole and without repetition when a piece is *)
(* returned with success or the driver says that there is no more - unless   *)
(* it asked for a length in the middle (data_left and ttlbuf of              *)
(* copy_and_convert_field against buffers kept from earlier rows).  A        *)
(* bookmark only comes whole: no call says that it was read before.          *)
PiecesMakeWhole ==
  read.ret \in {"OK", "NO_DATA"} /\ ~read.asked =>
    IF IsBookmark(row.type, read.ctype)
    THEN /\ read.ret = "OK" /\ read.got # <<>>
         /\ \A i \in DOMAIN read.got : read.got[i] = ATOI32U(row.value)
    ELSE read.got = Expected

(* Before the end, what was delivered is the beginning of the value and      *)
(* data_left counts exactly the rest.                                        *)
LeftIsRest ==
  gd.left > 0 => /\ read.got = FirstUnits(Expected, Len(read.got))
                 /\ gd.left = Unit(read.ctype) * (Len(Expected) - Len(read.got))

PiecesExact == PiecesMakeWhole /\ LeftIsRest
=============================================================================
