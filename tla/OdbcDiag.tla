------------------------------ MODULE OdbcDiag ------------------------------
(* The diagnostics of the ODBC driver (src/vxodbc/environ.cc, statement.cc,  *)
(* connection.cc, descriptor.cc, pgapi30.cc): how a failure is recorded on   *)
(* an environment, a connection, a statement or a descriptor, when the       *)
(* record is cleared, and what SQLGetDiagRec and SQLGetDiagField make of it. *)
(*                                                                           *)
(* A message is a sequence of letters: "e" of a statement's text, "c" of a   *)
(* connection's, "d" of a descriptor's.  Every read passes flag 0, so that   *)
(* errorpos stays 0 and an error record lives until its handle is cleared;   *)
(* nothing gives a result a message, a notice or a state of its own, nor a   *)
(* connection a state, so those branches cannot be taken.                    *)
EXTENDS Integers, Sequences

CONSTANTS Statements,  \* the statements of the one connection
          StmtNumbers, \* error numbers calls of statements end with
          StmtTexts,   \* their messages
          ConnNumbers, \* error numbers calls of the connection end with
          ConnTexts,
          DescNumbers, \* error numbers failed calls of the descriptor set
          DescTexts,
          DescBuffers, \* buffer lengths a descriptor's records are read with
          Buffers,     \* buffer lengths the application reads with
          MaxRecord,   \* records the application reads at most
          NULL

VARIABLES env,    \* [num, msg, odbc3] of the environment
          conn,   \* [num, msg] of the connection
          stmt,   \* [num, msg, ref, pg] of each statement
          desc,   \* [num, msg, typed, pg] of a descriptor
          reader, \* how far the application has read a statement's records
          blamed  \* the statements since whose last call the connection failed
vars == <<env, conn, stmt, desc, reader, blamed>>

DRVMNGRDIV == 511
Least(a, b) == IF a < b THEN a ELSE b

-----------------------------------------------------------------------------
(* Error records (PG_ErrorInfo).                                             *)

ER_Constructor(num, msg, state) ==
  [status |-> num, text |-> IF msg = NULL THEN <<>> ELSE msg,
   state |-> state, recsize |-> -1]

\* the size of the pieces is fixed by the first request
RecSize(er, cb) ==
  IF er.recsize >= 0 THEN er.recsize ELSE IF cb > 0 THEN cb - 1 ELSE DRVMNGRDIV

\* what one request finds: the piece, its length and the return code
\* a bug: the pieces overlap by one letter
StartOfRecordShort(rec, recsize) == (rec - 1) * (recsize - 1)
StartOfRecord(rec, recsize) == (rec - 1) * recsize

\* a bug: no room is left for the terminating NUL
WrittenOver(left, cb, recsize) ==
  Least(left, IF cb = 0 THEN 0
              ELSE IF left <= cb THEN left
              ELSE IF cb <= recsize THEN 0 ELSE recsize)

Written(left, cb, recsize) ==
  Least(left, IF cb = 0 THEN 0
              ELSE IF left < cb THEN left
              ELSE IF cb <= recsize THEN 0 ELSE recsize)

NoData == [ret |-> "NO_DATA", text |-> <<>>, len |-> 0, native |-> 0, state |-> "00000"]

ER_ReturnError(er, askedRec, cb) ==
  LET recsize == RecSize(er, cb)
      stapos == StartOfRecord(IF askedRec < 0 THEN 1 ELSE askedRec, recsize)
      left == Len(er.text) - stapos
      pcblen == Least(left, recsize)
      wrtlen == Least(Written(left, cb, recsize), pcblen)
  IN IF stapos > Len(er.text) THEN NoData
     ELSE [ret |-> IF wrtlen = 0 THEN "SUCCESS_WITH_INFO" ELSE "SUCCESS",
           text |-> SubSeq(er.text, stapos + 1, stapos + wrtlen),
           len |-> pcblen, native |-> er.status, state |-> er.state]

Requested(er, cb) == [er EXCEPT !.recsize = RecSize(er, cb)]

-----------------------------------------------------------------------------
(* SQLSTATEs, of ODBC 3 and of ODBC 2.                                       *)

PgSqlstateSet(odbc3, ver3, ver2) == IF odbc3 THEN ver3 ELSE ver2

\* Statement_sqlstate[]: a row for each number from LOWEST_STMT_ERROR on
LOWEST_STMT_ERROR == -6
StatementSqlstate ==
  << <<"01S01", "01S01">>, <<"01S02", "01S02">>, <<"01001", "01001">>, <<"01S06", "01S06">>,
     <<"01004", "01004">>, <<"00000", "00000">>, <<"00000", "00000">>, <<"HY000", "S1000">>,
     <<"HY010", "S1010">>, <<"HY010", "S1010">>, <<"HY001", "S1001">>, <<"07009", "S1002">>,
     <<"HY001", "S1001">>, <<"HY000", "S1000">>, <<"HY000", "S1000">>, <<"HY010", "S1010">>,
     <<"HYC00", "S1C00">>, <<"07009", "S1093">>, <<"HY092", "S1092">>, <<"07009", "S1002">>,
     <<"07006", "07006">>, <<"07005", "24000">>, <<"42S01", "S0001">>, <<"S1015", "S1015">>,
     <<"34000", "34000">>, <<"HY024", "S1009">>, <<"HY107", "S1107">>, <<"HY008", "S1008">>,
     <<"HY109", "S1109">>, <<"HY019", "22003">>, <<"HY011", "S1011">>, <<"?????", "?????">>,
     <<"08S01", "08S01">>, <<"HY092", "HY092">>, <<"22002", "22002">>, <<"HY091", "HY091">>,
     <<"HYC00", "HYC00">>, <<"HY106", "S1106">>, <<"07002", "07002">>, <<"HY009", "S1009">> >>

\* a row of such a table; a number outside it gets the row of EXEC_ERROR
\* a bug: the numbers are taken to start at LOWEST + 1
RowOfShifted(table, lowest, num) == table[num - lowest]
RowOf(table, lowest, num) ==
  IF num - lowest + 1 \in 1..Len(table) THEN table[num - lowest + 1] ELSE table[2 - lowest]

StmtState(num) ==
  LET row == RowOf(StatementSqlstate, LOWEST_STMT_ERROR, num)
  IN PgSqlstateSet(env.odbc3, row[1], row[2])

\* Descriptor_sqlstate[] is the same table without warnings 4..1 of the
\* statements' and without its last row
LOWEST_DESC_ERROR == -2
DescriptorSqlstate == SubSeq(StatementSqlstate, 1, 2) \o SubSeq(StatementSqlstate, 7, 39)

DescState(num) ==
  LET row == RowOf(DescriptorSqlstate, LOWEST_DESC_ERROR, num)
  IN PgSqlstateSet(env.odbc3, row[1], row[2])

ConnState(num) ==
  LET S(ver3, ver2) == PgSqlstateSet(env.odbc3, ver3, ver2)
  IN CASE num = -1                -> "01S02"
       [] num = -2                -> "01004"
       [] num = 201               -> "IM002"
       [] num \in {101, 202}      -> "08001"
       [] num \in {210, 211}      -> "28000"
       [] num \in {203, 208}      -> S("HY001", "S1001")
       [] num = 205               -> S("HYC00", "IM001")
       [] num = 206               -> S("HY009", "S1009")
       [] num = 207               -> S("HY010", "S1010")
       [] num = 209               -> S("HYC00", "S1C00")
       [] num = 214               -> S("HY019", "22003")
       [] num \in {104, 107, 113} -> "08S01"
       [] OTHER                   -> S("HY000", "S1000")

EnvState(num) ==
  PgSqlstateSet(env.odbc3, IF num = 1 THEN "HY001" ELSE "HY000",
                           IF num = 1 THEN "S1001" ELSE "S1000")

-----------------------------------------------------------------------------
(* Recording and clearing.                                                   *)

NotReading == [rec |-> 1, cb |-> 0, text |-> <<>>, done |-> FALSE]

\* bugs: the error record, or the reference to the connection, is kept
SC_clear_error_KeepRecord(st) == [st EXCEPT !.num = 0, !.msg = NULL, !.ref = FALSE]
SC_clear_error_KeepRef(st) == [st EXCEPT !.num = 0, !.msg = NULL, !.pg = NULL]

SC_clear_error(st) == [num |-> 0, msg |-> NULL, ref |-> FALSE, pg |-> NULL]
SC_set_error(st, num, msg) == [st EXCEPT !.num = num, !.msg = msg]

\* from an internal statement, which a catalogue call runs and drops
SC_error_copy(st, num, msg) ==
  IF num = 0 \/ (num < 0 /\ st.num > 0) THEN st
  ELSE [st EXCEPT !.num = num, !.msg = IF msg = NULL THEN @ ELSE msg, !.pg = NULL]
SC_full_error_copy(st, num, msg) == [st EXCEPT !.num = num, !.msg = msg]

CC_clear_error == [num |-> 0, msg |-> NULL]
CC_set_error(num, msg) == [num |-> num, msg |-> msg]
CC_set_error_statements == [s \in Statements |-> [stmt[s] EXCEPT !.ref = TRUE]]

DC_clear == [desc EXCEPT !.num = 0, !.msg = NULL, !.pg = NULL]
DC_set_error(num, msg) == [desc EXCEPT !.num = num, !.msg = msg]

Sep == <<";", "n">>

\* the record of a statement's error: its own text, and the connection's if
\* the connection failed since the statement's last call began
SC_create_errorinfo(st) ==
  IF st.pg # NULL THEN st.pg
  ELSE IF st.num = 0 THEN NULL
  ELSE LET own == IF st.msg = NULL THEN <<>> ELSE st.msg
           other == IF st.ref /\ conn.msg # NULL /\ conn.msg # <<>>
                    THEN Sep \o conn.msg ELSE <<>>
       IN ER_Constructor(st.num, own \o other, StmtState(st.num))

DC_create_errorinfo(dc) ==
  IF dc.pg # NULL THEN dc.pg
  ELSE IF dc.num = 0 THEN NULL
  ELSE ER_Constructor(dc.num, dc.msg, DescState(dc.num))

-----------------------------------------------------------------------------
Init ==
  /\ env = [num |-> 0, msg |-> NULL, odbc3 |-> FALSE]
  /\ conn = CC_clear_error
  /\ stmt = [s \in Statements |-> [num |-> 0, msg |-> NULL, ref |-> FALSE, pg |-> NULL]]
  /\ desc = [num |-> 0, msg |-> NULL, typed |-> FALSE, pg |-> NULL]
  /\ reader = [s \in Statements |-> NotReading]
  /\ blamed = {}

(* A call of a statement: it clears the statement's error first and may end  *)
(* with one or, the later replacing the earlier, with several.               *)
StmtCall(s, num, msg) ==
  /\ stmt' = [stmt EXCEPT ![s] = IF num = 0 THEN SC_clear_error(@)
                                 ELSE SC_set_error(SC_clear_error(@), num, msg)]
  /\ reader' = [reader EXCEPT ![s] = NotReading]
  /\ blamed' = blamed \ {s}
  /\ UNCHANGED <<env, conn, desc>>

(* SQLStatistics, SQLForeignKeys and SQLSpecialColumns run a statement of    *)
(* their own, fail with it and copy its error.                               *)
CatalogCall(s, num, msg) ==
  /\ \E copied \in {SC_error_copy(SC_clear_error(stmt[s]), num, msg),
                    SC_full_error_copy(SC_clear_error(stmt[s]), num, msg)} :
       stmt' = [stmt EXCEPT ![s] = copied]
  /\ reader' = [reader EXCEPT ![s] = NotReading]
  /\ blamed' = blamed \ {s}
  /\ UNCHANGED <<env, conn, desc>>

(* A call of the connection.  SQLSetConnectOption may give up only the       *)
(* number; a failure marks every statement.                                  *)
ConnCall(num, msg) ==
  /\ conn' = IF num = 0 THEN CC_clear_error ELSE CC_set_error(num, msg)
  /\ stmt' = IF num = 0 THEN stmt ELSE CC_set_error_statements
  /\ blamed' = IF num = 0 THEN blamed ELSE Statements
  /\ UNCHANGED <<env, desc, reader>>

(* SQLCopyDesc and SQLGetDescField never clear the descriptor they fail on;  *)
(* copying onto a descriptor that has a type starts with DC_Destructor.      *)
DescFails(num, msg) ==
  /\ desc' = DC_set_error(num, msg)
  /\ UNCHANGED <<env, conn, stmt, reader, blamed>>
CopyDesc ==
  /\ desc' = [IF desc.typed THEN DC_clear ELSE desc EXCEPT !.typed = TRUE]
  /\ UNCHANGED <<env, conn, stmt, reader, blamed>>

(* SQLSetEnvAttr: a value that is not supported is replaced, with a warning; *)
(* an unknown attribute, there and in SQLGetEnvAttr, sets only the number.   *)
SetEnvVersion(odbc3) ==
  /\ env' = [env EXCEPT !.odbc3 = odbc3]
  /\ UNCHANGED <<conn, stmt, desc, reader, blamed>>
SetEnvChanged ==
  /\ env' = [env EXCEPT !.num = -1, !.msg = <<"s">>]
  /\ UNCHANGED <<conn, stmt, desc, reader, blamed>>
EnvAttrUnknown ==
  /\ env' = [env EXCEPT !.num = 206]
  /\ UNCHANGED <<conn, stmt, desc, reader, blamed>>
\* SQLAllocConnect finds no room in conns[]
AllocConnectFails ==
  /\ env' = [env EXCEPT !.num = 1, !.msg = <<"m">>]
  /\ UNCHANGED <<conn, stmt, desc, reader, blamed>>

-----------------------------------------------------------------------------
(* Reading (SQLGetDiagRec, SQLGetDiagField and their wide forms).            *)

PGAPI_StmtError(s, cb) ==
  LET er == SC_create_errorinfo(stmt[s])
  IN stmt' = [stmt EXCEPT ![s].pg = IF er = NULL THEN NULL ELSE Requested(er, cb)]

StmtErrorFound(s, rec, cb) ==
  LET er == SC_create_errorinfo(stmt[s])
  IN IF er = NULL THEN NoData ELSE ER_ReturnError(er, rec, cb)

(* The application reads the records of a statement one after another with   *)
(* one buffer, until there are no more.                                      *)
ReadRecord(s, cb) ==
  LET found == StmtErrorFound(s, reader[s].rec, cb)
  IN /\ ~reader[s].done
     /\ (reader[s].rec = 1 \/ reader[s].cb = cb)
     /\ reader[s].rec <= MaxRecord
     /\ PGAPI_StmtError(s, cb)
     /\ reader' = [reader EXCEPT ![s] =
          IF found.ret = "NO_DATA" THEN [reader[s] EXCEPT !.done = TRUE]
          ELSE [reader[s] EXCEPT !.rec = @ + 1, !.cb = cb, !.text = @ \o found.text]]
     /\ UNCHANGED <<env, conn, desc, blamed>>

(* SQL_DIAG_NATIVE, SQL_DIAG_SQLSTATE and SQL_DIAG_NUMBER ask without a      *)
(* buffer.                                                                   *)
StmtField(s) ==
  /\ PGAPI_StmtError(s, 0)
  /\ UNCHANGED <<env, conn, desc, reader, blamed>>

\* SQLGetDiagFieldW asks again, with a buffer for the piece, when it got nothing
WideBuffer(cb) == (cb * 3) \div 2 + 1
\* a bug: it does not
StmtMessageWOnce(s, rec, cb) == StmtErrorFound(s, rec, WideBuffer(cb))
StmtMessageW(s, rec, cb) ==
  LET found == StmtErrorFound(s, rec, WideBuffer(cb))
      again == ER_ReturnError(Requested(SC_create_errorinfo(stmt[s]), WideBuffer(cb)),
                              rec, found.len + 1)
  IN IF found.ret = "SUCCESS_WITH_INFO" /\ found.len >= WideBuffer(cb) THEN again ELSE found

\* PGAPI_ConnectError: only the first record, which reading takes away unless
\* the length alone was asked for
CC_get_error == conn.num # 0
ConnectErrorFound(rec, cb, once) ==
  IF rec \notin {1, -1} \/ ~CC_get_error \/ conn.msg = NULL THEN NoData
  ELSE [ret |-> IF once THEN "SUCCESS_WITH_INFO" ELSE "SUCCESS",
        text |-> SubSeq(conn.msg, 1, Least(Len(conn.msg), cb - 1)),
        len |-> IF cb # 0 /\ Len(conn.msg) >= cb THEN cb - 1 ELSE Len(conn.msg),
        native |-> conn.num, state |-> ConnState(conn.num)]
ConnError(rec, cb, wantsLength) ==
  /\ conn' = IF rec \in {1, -1} /\ ~(wantsLength /\ cb = 0 /\ conn.msg # NULL)
             THEN [conn EXCEPT !.num = 0] ELSE conn
  /\ UNCHANGED <<env, stmt, desc, reader, blamed>>

\* PGAPI_EnvError takes number and message away together
EnvErrorFound(rec, cb) ==
  IF rec \notin {1, -1} \/ env.num = 0 \/ env.msg = NULL THEN NoData
  ELSE [ret |-> "SUCCESS", text |-> SubSeq(env.msg, 1, Least(Len(env.msg), cb - 1)),
        len |-> Len(env.msg), native |-> env.num, state |-> EnvState(env.num)]
EnvError(rec) ==
  /\ env' = IF rec \in {1, -1} /\ env.num # 0 /\ env.msg # NULL
            THEN [env EXCEPT !.num = 0, !.msg = NULL] ELSE env
  /\ UNCHANGED <<conn, stmt, desc, reader, blamed>>

DescError(cb) ==
  LET er == DC_create_errorinfo(desc)
  IN /\ desc' = [desc EXCEPT !.pg = IF er = NULL THEN NULL ELSE Requested(er, cb)]
     /\ UNCHANGED <<env, conn, stmt, reader, blamed>>

-----------------------------------------------------------------------------
Next ==
  \/ \E s \in Statements, num \in StmtNumbers \cup {0}, msg \in StmtTexts \cup {NULL} :
       StmtCall(s, num, msg) \/ CatalogCall(s, num, msg)
  \/ \E num \in ConnNumbers \cup {0}, msg \in ConnTexts : ConnCall(num, msg)
  \/ \E num \in DescNumbers, msg \in DescTexts : DescFails(num, msg)
  \/ CopyDesc
  \/ \E odbc3 \in BOOLEAN : SetEnvVersion(odbc3)
  \/ SetEnvChanged \/ EnvAttrUnknown \/ AllocConnectFails
  \/ \E s \in Statements, cb \in Buffers : ReadRecord(s, cb)
  \/ \E s \in Statements : StmtField(s)
  \/ \E rec \in {1, 2}, cb \in Buffers, wants \in BOOLEAN : ConnError(rec, cb, wants)
  \/ \E rec \in {1, 2} : EnvError(rec)
  \/ \E cb \in DescBuffers : DescError(cb)

Spec == Init /\ [][Next]_vars

-----------------------------------------------------------------------------
(* Properties.                                                               *)

Letters == {"c", "d", "e", ";", "n"}
States == {row[1] : row \in {StatementSqlstate[i] : i \in 1..40}}
          \cup {row[2] : row \in {StatementSqlstate[i] : i \in 1..40}}
InfosOf(sizes) == [status: Int, text: Seq(Letters), state: States, recsize: sizes]
Infos == InfosOf(Nat)

\* an assumption on the constants: numbers are of the tables, and the letters
\* of a text tell whose it is
ConstantsKnown ==
  /\ \A num \in StmtNumbers : num \in Int /\ num >= LOWEST_STMT_ERROR
  /\ \A num \in DescNumbers : num \in Int /\ num >= LOWEST_DESC_ERROR
  /\ ConnNumbers \subseteq Int
  /\ Buffers \cup DescBuffers \subseteq Nat /\ MaxRecord \in Nat
  /\ \A msg \in StmtTexts : msg \in Seq({"e"})
  /\ \A msg \in ConnTexts : msg \in Seq({"c"})
  /\ \A msg \in DescTexts : msg \in Seq({"d"})
  /\ NULL \notin Seq(Letters) /\ NULL \notin InfosOf(Int)

TypeOK ==
  /\ env.num \in Int /\ env.odbc3 \in BOOLEAN
  /\ conn.num \in Int /\ conn.msg \in ConnTexts \cup {NULL}
  /\ \A s \in Statements : /\ stmt[s].num \in StmtNumbers \cup {0}
                            /\ stmt[s].msg \in StmtTexts \cup {NULL}
                            /\ stmt[s].ref \in BOOLEAN
                            /\ (stmt[s].pg = NULL \/ stmt[s].pg \in Infos)
  /\ (desc.pg = NULL \/ desc.pg \in Infos)
  /\ blamed \subseteq Statements

(* The record kept for a statement is about the error the statement's last   *)
(* call ended with, whatever was read in between and however often: the      *)
(* cached pgerror never outlives its error (SC_create_errorinfo returns it   *)
(* without looking, SC_clear_error and SC_error_copy have to drop it).       *)
DiagIsOfLastCall ==
  \A s \in Statements : stmt[s].pg # NULL =>
    /\ stmt[s].pg.status = stmt[s].num
    /\ stmt[s].msg # NULL =>
         SubSeq(stmt[s].pg.text, 1, Len(stmt[s].msg)) = stmt[s].msg

(* A statement's diagnostics quote the connection only if the connection     *)
(* failed after the statement's last call began: an older failure, which the *)
(* application may have dealt with, is not reported again (ref_CC_error).    *)
ForeignTextIsNew ==
  \A s \in Statements : stmt[s].pg # NULL /\ s \notin blamed =>
    \A i \in 1..Len(stmt[s].pg.text) : stmt[s].pg.text[i] # "c"

(* An application that reads the records of a statement in order gets the    *)
(* whole message, each letter once, even if the connection fails or other    *)
(* fields are asked for while it reads (ER_ReturnError: the first request    *)
(* fixes the size of the pieces, and must have been this application's).     *)
RecordsTile ==
  \A s \in Statements :
    reader[s].done /\ stmt[s].pg # NULL /\ stmt[s].pg.recsize = reader[s].cb - 1
      /\ stmt[s].pg.recsize > 0
    => reader[s].text = stmt[s].pg.text

(* The state of a record says warning or success (class 00 or 01) exactly    *)
(* when the number does (not positive): the two tables of states and the     *)
(* enumerations of numbers agree (Statement_sqlstate, Descriptor_sqlstate).  *)
WarningsAreWarnings ==
  \A er \in {stmt[s].pg : s \in Statements} \cup {desc.pg} : er # NULL =>
    (er.status <= 0 <=> er.state \in {"00000", "01S01", "01S02", "01001", "01S06", "01004"})

(* What a read stores, with its terminating NUL, fits the buffer it was given *)
(* (ER_ReturnError, PGAPI_ConnectError, PGAPI_EnvError: pieces sized by an    *)
(* earlier request are cut, or withheld, to the present buffer).              *)
TextFits ==
  \A cb \in Buffers :
    LET found == {StmtErrorFound(s, rec, cb) : s \in Statements, rec \in 1..MaxRecord}
                 \cup {ConnectErrorFound(1, cb, once) : once \in BOOLEAN}
                 \cup {EnvErrorFound(1, cb)}
    IN \A f \in found : f.text = <<>> \/ Len(f.text) < cb

(* SQLGetDiagFieldW never comes back empty-handed from a record that has     *)
(* text, whatever size of pieces an earlier request fixed.                   *)
WideMessageComes ==
  \A s \in Statements, cb \in Buffers :
    LET found == StmtMessageW(s, 1, cb)
    IN stmt[s].pg # NULL /\ stmt[s].pg.recsize > 0 /\ stmt[s].pg.text # <<>>
       => Len(found.text) = found.len

(* A statement's record is that of its last call, class and all, and of      *)
(* nobody else's earlier failure (the three above).                          *)
RecordIsItsOwn == DiagIsOfLastCall /\ ForeignTextIsNew /\ WarningsAreWarnings

(* The message comes whole, within its buffers, through every entry.         *)
MessageComesWhole == RecordsTile /\ TextFits /\ WideMessageComes
=============================================================================
