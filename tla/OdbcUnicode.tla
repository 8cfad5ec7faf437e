----------------------------- MODULE OdbcUnicode ------------------------------
(* Texts at the wide entries of the ODBC driver (src/vxodbc/odbcapiw.cc,     *)
(* odbcapi30w.cc): the application's letters are of two bytes (UCS-2), the   *)
(* driver's texts UTF-8 (win_unicode.cc), and what the driver answers is     *)
(* fetched into a narrow buffer first, whose size the wide entry has to      *)
(* guess.                                                                    *)
(*                                                                           *)
(* A wide text is a sequence of codes in 0..65535, a narrow one of bytes,    *)
(* both without their terminator.  An answer is [ret, text, len, ended]:     *)
(* what was written, the length that is reported, and whether a terminator   *)
(* follows it.                                                               *)
EXTENDS Integers, Sequences

CONSTANTS Names,  \* wide texts of the application
          Buffers \* sizes of its buffers, in letters or (SQLColAttribute) bytes

VARIABLES name, \* what it says: a cursor's or a column's name, or a statement
          heard \* what it has been answered: [entry, cb, answer], and whether the
                \* buffer was made after an earlier answer (again)
vars == <<name, heard>>

\* what the constants are: no text has a zero in it
Codes == 1..65535
NamesKnown == Names \subseteq Seq(Codes) /\ Buffers \subseteq Nat

LF == 10
CR == 13
Min2(a, b) == IF a < b THEN a ELSE b
Prefix(text, n) == SubSeq(text, 1, Min2(n, Len(text)))
UpToNul(text) ==
  IF \A i \in DOMAIN text : text[i] # 0 THEN text
  ELSE Prefix(text, (CHOOSE i \in DOMAIN text : text[i] = 0 /\ \A j \in 1..i - 1 : text[j] # 0) - 1)

-----------------------------------------------------------------------------
(* win_unicode.cc                                                            *)

Tolower(code) == IF code \in 65..90 THEN code + 32 ELSE code
Utf8Of(code, lower) ==
  IF code < 128 THEN <<IF lower THEN Tolower(code) ELSE code>>
  ELSE IF code < 2048 THEN <<192 + (code \div 64), 128 + (code % 64)>>
  ELSE <<224 + (code \div 4096), 128 + ((code \div 64) % 64), 128 + (code % 64)>>

\* ucs2_to_utf8
Ucs2ToUtf8(text, lower) ==
  LET upto[i \in 0..Len(text)] == IF i = 0 THEN <<>> ELSE upto[i - 1] \o Utf8Of(text[i], lower)
  IN upto[Len(UpToNul(text))]

\* utf8_to_ucs2_lf: every first byte above 223 is taken to start three bytes,
\* every other one above 127 two; what is beyond the end reads as 0
Utf8ToUcs2(bytes, lfconv) ==
  LET at(i) == IF i > Len(bytes) THEN 0 ELSE bytes[i]
      from[i \in 1..Len(bytes) + 3] ==
        IF at(i) = 0 THEN <<>>
        ELSE IF at(i) < 128
             THEN (IF lfconv /\ at(i) = LF /\ (i = 1 \/ at(i - 1) # CR) THEN <<CR, LF>> ELSE <<at(i)>>)
                    \o from[i + 1]
        ELSE IF at(i) >= 224
             THEN <<4096 * (at(i) % 16) + 64 * (at(i + 1) % 64) + (at(i + 2) % 64)>> \o from[i + 3]
        ELSE <<64 * (at(i) % 32) + (at(i + 1) % 64)>> \o from[i + 2]
  IN from[1]

-----------------------------------------------------------------------------
(* Narrow answers                                                            *)

\* strncpy_null: as much as fits with the terminator
StrncpyNull(text, cb) == Prefix(text, IF cb > 0 THEN cb - 1 ELSE 0)

\* a text of the driver's for a buffer of cb bytes (or NoBuffer);
\* PGAPI_NativeSql, PGAPI_GetCursorName and PGAPI_ColAttributes end so
NoBuffer == -1
NarrowAnswer(text, cb) ==
  [ret |-> IF cb # NoBuffer /\ Len(text) >= cb THEN "SUCCESS_WITH_INFO" ELSE "SUCCESS",
   text |-> IF cb = NoBuffer THEN <<>> ELSE StrncpyNull(text, cb),
   len |-> Len(text), ended |-> cb > 0]

\* PGAPI_NativeSql's is the statement as it is
NativeSql(statement) == UpToNul(statement)

\* PGAPI_DescribeCol's column name is neither measured nor terminated: from a
\* buffer it fills, strlen reads on, as far as beyond
DescribeColName(column, cb, beyond) ==
  [ret |-> "SUCCESS", text |-> Prefix(column, cb),
   len |-> IF Len(column) < cb THEN Len(column) ELSE cb + beyond, ended |-> Len(column) < cb]

-----------------------------------------------------------------------------
(* Wide answers                                                              *)

\* a bug: what did not fit the guess is not asked for again
OnceOnly(text, guess) == [answer |-> NarrowAnswer(text, guess), size |-> guess]

\* an answer that did not fit the guess is asked for again with its length
Retried(text, guess) ==
  LET first == NarrowAnswer(text, guess)
  IN IF first.ret = "SUCCESS_WITH_INFO" /\ first.len >= guess
     THEN [answer |-> NarrowAnswer(text, first.len + 1), size |-> first.len + 1]
     ELSE [answer |-> first, size |-> guess]

\* a narrow answer that fits its buffer is converted into one of cb letters;
\* another one is only measured
Widened(fetched, cb) ==
  LET fits == fetched.answer.len < fetched.size
      letters == IF fits THEN Utf8ToUcs2(fetched.answer.text, FALSE) ELSE <<>>
      count == IF fits THEN Len(letters) ELSE fetched.answer.len
  IN [ret |-> IF fetched.answer.ret = "SUCCESS" /\ count > cb THEN "SUCCESS_WITH_INFO"
              ELSE fetched.answer.ret,
      text |-> Prefix(letters, cb), len |-> count, ended |-> fits /\ count < cb]

\* without a buffer the statement is only measured, in bytes
SQLNativeSqlW(statement, cb) ==
  Widened(Retried(NativeSql(Ucs2ToUtf8(statement, FALSE)), IF cb = 0 THEN NoBuffer ELSE 3 * cb), cb)

SQLSetCursorNameW(text) == Ucs2ToUtf8(text, FALSE)
SQLGetCursorNameW(cursor, cb) ==
  Widened(Retried(cursor, IF cb > 0 THEN 3 * cb ELSE 32), cb)

\* too long a name is found out by chance only after it was written; a buffer
\* of no letters is not complained of
SQLDescribeColW(column, cb, beyond) ==
  LET size == IF cb > 0 THEN 3 * cb ELSE 32
      wide == Widened([answer |-> DescribeColName(column, size, beyond), size |-> size], cb)
  IN IF cb = 0 THEN [wide EXCEPT !.ret = "SUCCESS"] ELSE wide

\* lengths of attributes are in bytes, and a text without room for its
\* terminator counts as truncated
SQLColAttributeW(column, cb) ==
  LET fetched == Retried(column, (3 * cb) \div 2)
      letters == Utf8ToUcs2(fetched.answer.text, FALSE)
  IN [ret |-> IF fetched.answer.ret = "SUCCESS" /\ 2 * Len(letters) >= cb
              THEN "SUCCESS_WITH_INFO" ELSE fetched.answer.ret,
      text |-> Prefix(letters, cb \div 2), len |-> 2 * Len(letters),
      ended |-> Len(letters) < cb \div 2]

-----------------------------------------------------------------------------
(* The application                                                           *)

Unheard == [entry |-> "none"]
Entries == {"SQLNativeSqlW", "SQLGetCursorNameW", "SQLColAttributeW", "SQLDescribeColW"}
AnswerOf(entry, cb, beyond) ==
  CASE entry = "SQLNativeSqlW" -> SQLNativeSqlW(name, cb)
    [] entry = "SQLGetCursorNameW" -> SQLGetCursorNameW(SQLSetCursorNameW(name), cb)
    [] entry = "SQLColAttributeW" -> SQLColAttributeW(Ucs2ToUtf8(name, FALSE), cb)
    [] entry = "SQLDescribeColW" -> SQLDescribeColW(Ucs2ToUtf8(name, FALSE), cb, beyond)
Terminator(entry) == IF entry = "SQLColAttributeW" THEN 2 ELSE 1

Init == name \in Names /\ heard = Unheard

Ask(entry, cb, beyond) ==
  /\ heard = Unheard
  /\ heard' = [entry |-> entry, cb |-> cb, answer |-> AnswerOf(entry, cb, beyond), again |-> FALSE]
  /\ UNCHANGED name

\* with a buffer for the length that was reported and a terminator
AskAgain(beyond) ==
  /\ heard # Unheard /\ ~heard.again
  /\ LET cb == heard.answer.len + Terminator(heard.entry)
     IN heard' = [heard EXCEPT !.cb = cb, !.answer = AnswerOf(heard.entry, cb, beyond), !.again = TRUE]
  /\ UNCHANGED name

Forget == heard # Unheard /\ heard.again /\ heard' = Unheard /\ UNCHANGED name

Next ==
  \/ \E entry \in Entries, cb \in Buffers, beyond \in 0..1 : Ask(entry, cb, beyond)
  \/ \E beyond \in 0..1 : AskAgain(beyond)
  \/ Forget

Spec == Init /\ [][Next]_vars

-----------------------------------------------------------------------------
(* What an application may rely on                                           *)

(* A statement or a name that went in through a wide entry comes out of the  *)
(* others letter by letter: with success the buffer holds all of it, else    *)
(* its beginning; and the length reported is such that the same question     *)
(* with a buffer for that length and a terminator is answered whole and      *)
(* terminated.  SQLDescribeColW, which never measures its narrow answer, is  *)
(* not to be relied on so.                                                   *)
WideTextArrives ==
  heard # Unheard /\ heard.entry # "SQLDescribeColW" =>
    /\ heard.answer.ret = "SUCCESS" => heard.answer.text = name
    /\ heard.answer.text = Prefix(name, Len(heard.answer.text))
    /\ heard.again => /\ heard.answer.ret = "SUCCESS"
                      /\ heard.answer.text = name
                      /\ heard.answer.ended
=============================================================================
