---------------------------- MODULE MCOdbcSession -----------------------------
EXTENDS OdbcSession, Integers, Sequences

\* a line end, one that is converted already, an escaped byte and backslash,
\* and a number
MCValues == {<<>>, <<"a">>, <<"a", "\n", "b">>, <<"\r", "\n", "a", "b">>,
             <<"\\", "1", "0", "1", "a">>, <<"\\", "\\", "a">>, <<"1", "2">>}

\* a table in each case, and what only looks like a name
MCExisting == {<<"A">>, <<"a">>}
MCArgs == {[ptr |-> NoPointer, cb |-> 0]} \cup {[ptr |-> t, cb |-> -3] : t \in {<<>>, <<"A">>, <<"a">>}}
MCLowerOf == [c \in {"A"} |-> "a"]

\* codes around the boundaries of the encodings; 4 letters make 12 bytes, more
\* than the guesses for buffers of up to 3
MCCodes == {65, 127, 128, 2047, 2048, 65535}
MCNames == UNION {[1..n -> MCCodes] : n \in 0..2} \cup {<<a, b, a, b>> : a, b \in MCCodes}

\* whether the wide API is used, and a catalog told of, decides over the texts
MCInfoConns ==
  {[unicode |-> u, jet |-> FALSE, odbc3 |-> TRUE, lf |-> FALSE, catalog |-> c, readonly |-> FALSE,
    mssql |-> FALSE, dsn |-> "source", server |-> "", user |-> "me"] : u, c \in BOOLEAN}

Source(at, port, dbus) ==
  [driver |-> "", server |-> at, database |-> "db", username |-> "me", password |-> "",
   port |-> port, onlyread |-> "", dbus |-> dbus]
MCOdbcIni == [plain |-> Source("near", "", ""), ported |-> Source("far", "99", "dbus:near")]

\* where the string starts, or nothing of it, and what it says beyond that, in
\* any order
Says(a, v) == [attr |-> a, value |-> v]
Starts == {Says("DSN", n) : n \in {"plain", "ported", "missing"}} \cup {Says("DRIVER", "vx")}
Further == {Says("SERVER", ""), Says("SERVERNAME", "other"), Says("DATABASE", "db2"),
            Says("PORT", "7"), Says("UID", "you"), Says("DBUS", "dbus:there"), Says("APP", "x")}
FurtherPairs == UNION {[1..n -> Further] : n \in 0..2}
MCConnectStrings == {<<s>> \o f : s \in Starts, f \in FurtherPairs} \cup FurtherPairs
\* the errors calls end with: a warning and an error, of one and two pieces
MCStmtNumbers == {-2, 1}
MCStmtTexts == {<<"e">>, <<"e", "e">>}
MCConnTexts == {<<"c", "c">>}
MCDescTexts == {<<"d">>}
=============================================================================
