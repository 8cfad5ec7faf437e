----------------------------- MODULE OdbcSession ------------------------------
(* A session of an application with the ODBC driver, apart from its cursors  *)
(* and handles (OdbcCursor, OdbcHandles): it reads long values, or those of  *)
(* fixed types, asks the catalog, has names converted, asks what the driver  *)
(* is, connects, or reads the records of errors.  What the seven use of the  *)
(* driver's state is apart, so a session does one for good.                  *)
EXTENDS Integers, Sequences

CONSTANTS FieldTypes, Values, CTypes, BufferSizes, MaxReads,
          LowerOf, Args, Existing, NoPointer,
          WideNames, WideBuffers,
          InfoConns, InfoSizes,
          OdbcIni, ConnectStrings, OutSizes,
          DiagStatements, StmtNumbers, StmtTexts, ConnNumbers, ConnTexts, DescNumbers,
          DescTexts, DescBuffers, DiagBuffers, MaxRecord

VARIABLES doing,                       \* which of the seven
          row, gd, read,               \* Reading, long values
          column, got,                 \* Reading, fixed types
          conn, stmt,                  \* Catalog, and Diagnostics
          server, asked,               \* Catalog
          name, heard,                 \* Texts
          told,                        \* Information
          first, again,                \* Connecting
          env, desc, reader, blamed    \* Diagnostics
ofReading   == <<row, gd, read>>
ofFixed     == <<column, got>>
ofCatalog   == <<server, asked>>
ofTexts     == <<name, heard>>
ofConnecting == <<first, again>>
ofDiag      == <<env, desc, reader, blamed>>
sessionVars == <<doing, row, gd, read, column, got, conn, stmt, server, asked, name, heard, told, first, again,
          env, desc, reader, blamed>>

Reading    == INSTANCE OdbcData
Catalog    == INSTANCE OdbcCatalog WITH NULL <- NoPointer
Texts      == INSTANCE OdbcUnicode WITH Names <- WideNames, Buffers <- WideBuffers
Information == INSTANCE OdbcInfo
Connecting == INSTANCE OdbcConnect
Diagnostics == INSTANCE OdbcDiag WITH Statements <- DiagStatements, Buffers <- DiagBuffers,
                                      NULL <- NoPointer

ASSUME ReadingAssumption == Reading!ReadingKnown
ASSUME DiagAssumption == Diagnostics!ConstantsKnown
ASSUME CatalogAssumption == Catalog!TextsKnown
ASSUME ConnectAssumption == Connecting!BuffersKnown
ASSUME TextsAssumption == Texts!NamesKnown
ASSUME InfoAssumption == Information!InfoKnown

Unused == "unused"
NotLong       == row = Unused /\ gd = Unused /\ read = Unused
NotFixed      == column = Unused /\ got = Unused
NoHandles     == conn = Unused /\ stmt = Unused
NoCatalog     == server = Unused /\ asked = Unused
NoTexts       == name = Unused /\ heard = Unused
NoInformation == told = Unused
NotConnecting == first = Unused /\ again = Unused
NoErrors      == env = Unused /\ desc = Unused /\ reader = Unused /\ blamed = Unused

SessionInit ==
  \/ doing = "long" /\ Reading!Init /\ NotFixed /\ NoHandles /\ NoCatalog /\ NoTexts
       /\ NoInformation /\ NotConnecting /\ NoErrors
  \/ doing = "fixed" /\ Reading!InitFixed /\ NotLong /\ NoHandles /\ NoCatalog /\ NoTexts
       /\ NoInformation /\ NotConnecting /\ NoErrors
  \/ doing = "catalog" /\ Catalog!Init /\ NotLong /\ NotFixed /\ NoTexts /\ NoInformation
       /\ NotConnecting /\ NoErrors
  \/ doing = "texts" /\ Texts!Init /\ NotLong /\ NotFixed /\ NoHandles /\ NoCatalog
       /\ NoInformation /\ NotConnecting /\ NoErrors
  \/ doing = "information" /\ Information!InitInfo /\ NotLong /\ NotFixed /\ NoHandles /\ NoCatalog
       /\ NoTexts /\ NotConnecting /\ NoErrors
  \/ doing = "connecting" /\ Connecting!Init /\ NotLong /\ NotFixed /\ NoHandles /\ NoCatalog
       /\ NoTexts /\ NoInformation /\ NoErrors
  \/ doing = "diagnostics" /\ Diagnostics!Init /\ NotLong /\ NotFixed /\ NoCatalog /\ NoTexts
       /\ NoInformation /\ NotConnecting

ReadLong ==
  doing = "long" /\ Reading!Next
    /\ UNCHANGED <<doing, ofFixed, conn, stmt, ofCatalog, ofTexts, told, ofConnecting, ofDiag>>
ReadFixed ==
  doing = "fixed" /\ Reading!NextFixed
    /\ UNCHANGED <<doing, ofReading, conn, stmt, ofCatalog, ofTexts, told, ofConnecting, ofDiag>>
AskCatalog ==
  doing = "catalog" /\ Catalog!Next
    /\ UNCHANGED <<doing, ofReading, ofFixed, ofTexts, told, ofConnecting, ofDiag>>
AskTexts ==
  doing = "texts" /\ Texts!Next
    /\ UNCHANGED <<doing, ofReading, ofFixed, conn, stmt, ofCatalog, told, ofConnecting, ofDiag>>
AskInformation ==
  doing = "information" /\ Information!NextInfo
    /\ UNCHANGED <<doing, ofReading, ofFixed, conn, stmt, ofCatalog, ofTexts, ofConnecting, ofDiag>>
Connect ==
  doing = "connecting" /\ Connecting!Next
    /\ UNCHANGED <<doing, ofReading, ofFixed, conn, stmt, ofCatalog, ofTexts, told, ofDiag>>
MeetErrors ==
  doing = "diagnostics" /\ Diagnostics!Next
    /\ UNCHANGED <<doing, ofReading, ofFixed, ofCatalog, ofTexts, told, ofConnecting>>

SessionNext ==
  \/ ReadLong \/ ReadFixed \/ AskCatalog \/ AskTexts \/ AskInformation \/ Connect \/ MeetErrors

Session == SessionInit /\ [][SessionNext]_sessionVars

-----------------------------------------------------------------------------
(* Texts and binary data that are read piece by piece arrive whole, and what *)
(* is left of them is known; values of fixed types fit the buffers that the  *)
(* driver's own lengths ask for, and decimals are exact:                     *)
(* copy_and_convert_field, and convert.cc against pgtypes.cc.                *)
ValuesArrive ==
  /\ doing = "long" => Reading!PiecesExact
  /\ doing = "fixed" => Reading!ValuesComeWhole

(* No NULL is taken for a value, as src/protocol.txt:42 has it.              *)
NullIsReported == doing = "fixed" => Reading!NullIsReported

(* A catalog function that is refused says so, keeps an open result, and     *)
(* leaves no internal statement behind: info.cc.                             *)
FailureIsTold == [][doing = "catalog" => Catalog!Told]_sessionVars

(* A table that is there when it is asked for is found, though tables come   *)
(* and go between the two questions of a narrow entry: odbcapi.cc.           *)
FoundUnlessAbsent == doing = "catalog" => Catalog!FoundUnlessAbsent

(* A text that crosses the wide entries arrives letter by letter, and one of *)
(* the driver's own whole: odbcapiw.cc, odbcapi30w.cc, info.cc.              *)
WideTextArrives ==
  /\ doing = "texts" => Texts!WideTextArrives
  /\ doing = "information" => Information!InfoFits

(* A completed connection string leads to where it came from: drvconn.cc.    *)
ReconnectsToTheSame == doing = "connecting" => Connecting!ReconnectsToTheSame

(* The record of a statement's error is of its last call, with the right     *)
(* class of state, and quotes no older failure of its connection:            *)
(* SC_create_errorinfo, SC_clear_error, SC_error_copy.                       *)
RecordIsItsOwn == doing = "diagnostics" => Diagnostics!RecordIsItsOwn

(* An error's message comes whole, within the buffers it is read with, and   *)
(* through every entry: ER_ReturnError, SQLGetDiagFieldW.                    *)
MessageComesWhole == doing = "diagnostics" => Diagnostics!MessageComesWhole
=============================================================================
