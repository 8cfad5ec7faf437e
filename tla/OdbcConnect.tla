----------------------------- MODULE OdbcConnect ------------------------------
(* How the ODBC driver makes a connection: from a connection string          *)
(* (src/vxodbc/drvconn.cc PGAPI_DriverConnect) or the name of a data source  *)
(* (connection.cc PGAPI_Connect), completed from odbc.ini and the defaults   *)
(* (dlg_specific.cc); and the completed string that goes back, from which    *)
(* the application is to connect another time.                               *)
(*                                                                           *)
(* A connection string is a sequence of pairs [attr, value]: attributes are  *)
(* in upper case, as they are compared, and values hold neither ";" nor      *)
(* trailing blanks.  Of ConnInfo the fields a string can name are kept.      *)
EXTENDS Integers, Sequences, FiniteSetsExt

CONSTANTS OdbcIni, \* the data sources of odbc.ini: their entries (every field but dsn) by name
          ConnectStrings, \* what the application connects with
          OutSizes        \* of its buffers for the completed string

VARIABLES first, \* the connection that was tried first: with str, a buffer of max
                 \* bytes (jet: by Microsoft Jet), and what was answered
          again  \* and the one that was made with its completed string
vars == <<first, again>>

Fields == {"dsn", "driver", "server", "database", "username", "password", "port",
           "onlyread", "dbus"}
\* a value that is not given: an empty text
NotGiven == ""
NoInfo == [f \in Fields |-> NotGiven]

-----------------------------------------------------------------------------
(* dlg_specific.cc                                                           *)

\* copyAttributes: the field each attribute is another name of
FieldOf == [DSN |-> "dsn", DRIVER |-> "driver", DATABASE |-> "database",
  SERVERNAME |-> "server", SERVER |-> "server", USERNAME |-> "username", UID |-> "username",
  PASSWORD |-> "password", PWD |-> "password", PORT |-> "port", READONLY |-> "onlyread",
  DBUS |-> "dbus"]

\* dconn_get_attributes: of two values for a field the later one counts
Naming(str, f) == {i \in DOMAIN str : str[i].attr \in DOMAIN FieldOf /\ FieldOf[str[i].attr] = f}
ConnectAttributes(str) ==
  [f \in Fields |-> IF Naming(str, f) = {} THEN NotGiven ELSE str[Max(Naming(str, f))].value]

\* INI_DSN, the data source of a string that names neither one nor a driver: a
\* blank, of which the chopping of trailing blanks leaves the empty name
DefaultSource == NotGiven

\* getDSNinfo: what the string left out, or everything, is the data source's;
\* a driver without a data source is not completed
Entry(n) ==
  IF n \notin DOMAIN OdbcIni THEN [NoInfo EXCEPT !.dbus = "dbus:session"]
  ELSE [f \in Fields |-> IF f = "dsn" THEN n
                         ELSE IF f = "dbus" /\ OdbcIni[n].dbus = NotGiven THEN "dbus:session"
                         ELSE OdbcIni[n][f]]
GetDSNinfo(ci, overwrite) ==
  IF ci.dsn = NotGiven /\ ci.driver # NotGiven THEN ci
  ELSE LET dsn == IF ci.dsn = NotGiven THEN DefaultSource ELSE ci.dsn
       IN [f \in Fields |-> IF f = "dsn" THEN dsn
                            ELSE IF overwrite \/ ci[f] = NotGiven THEN Entry(dsn)[f] ELSE ci[f]]

DefaultPort == "5432"
GetDSNdefaults(ci) ==
  [ci EXCEPT !.port = IF @ = NotGiven THEN DefaultPort ELSE @,
             !.onlyread = IF @ = NotGiven THEN "0" ELSE @]

Pair(attr, value) == [attr |-> attr, value |-> value]

\* a bug: the port is left out
MakeConnectStringPortless(ci, room) ==
  <<IF ci.dsn # NotGiven THEN Pair("DSN", ci.dsn) ELSE Pair("DRIVER", ci.driver),
    Pair("DATABASE", ci.database), Pair("SERVER", ci.server),
    Pair("UID", ci.username), Pair("PWD", ci.password)>>
    \o (IF room < 1024 THEN <<>> ELSE <<Pair("READONLY", ci.onlyread)>>)

\* the completed string for a buffer of so many bytes; its texts are shorter
\* than MAX_CONNECT_STRING
MakeConnectString(ci, room) ==
  <<IF ci.dsn # NotGiven THEN Pair("DSN", ci.dsn) ELSE Pair("DRIVER", ci.driver),
    Pair("DATABASE", ci.database), Pair("SERVER", ci.server), Pair("PORT", ci.port),
    Pair("UID", ci.username), Pair("PWD", ci.password)>>
    \o (IF room < 1024 THEN <<>> ELSE <<Pair("READONLY", ci.onlyread)>>)

\* bytes of a string whose pairs end with ";" each
Size(str) ==
  LET upto[i \in 0..Len(str)] ==
        IF i = 0 THEN 0 ELSE upto[i - 1] + Len(str[i].attr) + Len(str[i].value) + 2
  IN upto[Len(str)]

-----------------------------------------------------------------------------
(* connection.cc                                                             *)

\* PGAPI_Connect: the data source's moniker alone decides whom to talk to,
\* and nobody has to answer; names that are given replace the data source's
Connect(dsn, uid, pwd) ==
  LET ci == GetDSNinfo([NoInfo EXCEPT !.dsn = dsn], TRUE)
      Given(new, old) == IF new = NotGiven THEN old ELSE new
  IN [ret |-> "SUCCESS", moniker |-> <<ci.dbus>>,
      ci |-> GetDSNdefaults([ci EXCEPT !.username = Given(uid, @), !.password = Given(pwd, @)])]

-----------------------------------------------------------------------------
(* drvconn.cc                                                                *)

\* only a moniker in the string itself is used; a data source's is replaced
DbusProvided(str) == ConnectAttributes(str).dbus # NotGiven
Completed(str) == GetDSNdefaults(GetDSNinfo(ConnectAttributes(str), FALSE))

MissingOptions(str) ==
  LET ci == Completed(str)
  IN \/ ci.database = NotGiven
     \/ ~DbusProvided(str) /\ (ci.port = NotGiven \/ ci.server = NotGiven)

Moniker(str) ==
  LET ci == Completed(str)
  IN IF DbusProvided(str) THEN <<ci.dbus>> ELSE <<"dbus:tcp", ci.server, ci.port>>
MonikerTooLong(str) ==
  ~DbusProvided(str) /\ 20 + Len(Completed(str).server) + Len(Completed(str).port) >= 256

\* the completed string for a buffer of max bytes: if it does not fit with a
\* terminator, as many whole pairs as do
Fitting(str, max) ==
  IF Size(str) >= max
  THEN LET fit == {n \in 0..Len(str) : Size(SubSeq(str, 1, n)) <= max}
       IN SubSeq(str, 1, Max(fit))
  ELSE str

\* PGAPI_DriverConnect: test is what came of asking the server ("ok",
\* "closed", "refused"); Microsoft Jet takes no string above 255 bytes
Unconnected(error) == [ret |-> "ERROR", error |-> error, moniker |-> <<>>, out |-> <<>>, len |-> 0]
DriverConnect(str, max, jet, test) ==
  LET room == IF jet /\ max > 255 THEN 255 ELSE max
      whole == MakeConnectString(Completed(str), room)
      truncated == Size(whole) >= max
  IN CASE MissingOptions(str) -> Unconnected("options")
       [] ~MissingOptions(str) /\ MonikerTooLong(str) -> Unconnected("moniker")
       [] ~MissingOptions(str) /\ ~MonikerTooLong(str) /\ test # "ok" ->
            [Unconnected(test) EXCEPT !.moniker = Moniker(str)]
       [] OTHER ->
            [ret |-> IF truncated THEN "SUCCESS_WITH_INFO" ELSE "SUCCESS",
             error |-> IF truncated THEN "truncated" ELSE "none",
             moniker |-> Moniker(str), out |-> Fitting(whole, max), len |-> Size(whole)]

\* SQLDriverConnectW: without a buffer every string is too long for it
SQLDriverConnectW(str, max, jet, test) ==
  LET r == DriverConnect(str, max, jet, test)
  IN IF r.ret = "SUCCESS" /\ r.len >= max
     THEN [r EXCEPT !.ret = "SUCCESS_WITH_INFO", !.error = "truncated"] ELSE r

-----------------------------------------------------------------------------
(* The application                                                           *)

Untried == [ret |-> "none"]
Init == first = Untried /\ again = Untried

Tests == {"ok", "closed", "refused"}
ConnectWith(str, max, jet, test) ==
  /\ first = Untried
  /\ LET r == SQLDriverConnectW(str, max, jet, test)
     IN first' = [str |-> str, max |-> max, jet |-> jet, ret |-> r.ret, error |-> r.error,
                  moniker |-> r.moniker, out |-> r.out, len |-> r.len]
  /\ UNCHANGED again

ConnectTo(dsn) ==
  /\ first = Untried
  /\ first' = Connect(dsn, "me", NotGiven)
  /\ UNCHANGED again

\* another time, with what came back
Reconnect ==
  /\ first.ret = "SUCCESS" /\ "str" \in DOMAIN first
  /\ again = Untried
  /\ again' = DriverConnect(first.out, first.max, first.jet, "ok")
  /\ UNCHANGED first

Disconnect ==
  /\ first # Untried
  /\ first' = Untried /\ again' = Untried

Next ==
  \/ \E str \in ConnectStrings, max \in OutSizes, jet \in BOOLEAN, test \in Tests :
       ConnectWith(str, max, jet, test)
  \/ \E dsn \in DOMAIN OdbcIni \cup {DefaultSource} : ConnectTo(dsn)
  \/ Reconnect
  \/ Disconnect

Spec == Init /\ [][Next]_vars

-----------------------------------------------------------------------------
\* an assumption on the constants
BuffersKnown == OutSizes \subseteq Nat

(* What an application may rely on                                           *)

(* A completed string that came back with success leads to the same server   *)
(* and to the same names when it is used to connect: it holds everything     *)
(* that odbc.ini and the defaults decided - unless the string named a D-Bus  *)
(* moniker, which the completed one leaves out.  One that was cut off holds  *)
(* whole pairs of it, in their order.                                        *)
NamesKept == {"dsn", "database", "server", "port", "username", "password"}
ReconnectsToTheSame ==
  /\ again # Untried /\ ~DbusProvided(first.str) =>
       /\ again.ret = "SUCCESS" /\ again.moniker = first.moniker /\ again.out = first.out
       /\ \A f \in NamesKept : Completed(first.out)[f] = Completed(first.str)[f]
  /\ first.ret = "SUCCESS_WITH_INFO" =>
       LET whole == MakeConnectString(Completed(first.str),
                      IF first.jet /\ first.max > 255 THEN 255 ELSE first.max)
       IN Size(first.out) <= first.max /\ first.out = SubSeq(whole, 1, Len(first.out))
=============================================================================
