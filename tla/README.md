# A verification of Versaplex

Versaplex puts SQL databases on a D-Bus: the daemon `versaplexd` answers method
calls of `vx.db` by running SQL; an ODBC driver, `vxodbc`, and the schema tool
`sm` are its main clients. These TLA+ modules model the parts whose correctness
depends on order, interleaving, failure, or on two pieces of code that have to
agree. TLC checks them on small instances; TLAPS proves the results of "What is
proved" for all instances.

Contents: the system; the modules; the runs; fairness; proofs; what is not
modelled; the plan.

## The system

Paths are below the repository's root. The hazards that each part is exposed to,
with the lines where they bite, are in PROJECT.json under "hazards".

### The daemon and the schema tool

| Part | State | Operations | Interacts with | What is hard, and what makes it right |
|---|---|---|---|---|
| Event loop and action queue (`versaplexd/versaplexd.cs`, routing in `vxapi.cs`, connection in `wvdbus-sharp/conn.cs`) | `action_queue`, `curaction`, `want_to_die`, the cache `usernames`, the statement `curcmd`, the stream's buffer | `WvDbusMsgReady`, `HandleCancelQuery`, the loop of `_Go`, `GetClientId`, `ExecuteCall`, `Quit` | clients over the bus; the bus daemon itself, in a nested message loop; the database | One thread, but identification waits in a nested loop that queues and cancels calls. Replies stay in order, none is lost, a canceled call has not run, Quit drains |
| Results in chunks (`ExecChunkRecordset`; `vxodbc/vxhelpers.cc`) | rows not yet sent, their size, tries; in the driver `signal_returns` and the result | cut into signals and a reply; sort by serial; give up; reconnect | the loop above; ODBC applications | Late signals of a query that the driver has given up, a query run twice. Each answered query gets its rows, once, in order |
| Changing a table (`vxdbschema.cs`: `PutSchemaTables`, `PutSchemaTable`, `ApplyChangedColumn`) | added columns, deleted indexes, the errors of trial runs, an open transaction | trial of each change, statements outside and inside the transaction, undoing by hand | SQL Server | Any statement may fail and the server may or may not roll back; death in between. No data lost, a clean report means the wanted table |
| Copying schemas (`vxschema.cs: CopySchema`, `vxschemadiff.cs`, `vxdiskschema.cs`, `vxdbschema.cs: Put`) | checksums of both sides, the elements in hand, errors of each pass | checksums, diff, get, drop, put, retries; `sm push`, `sm pull` | the database, the directory, everybody who changes either | Stale checksums, half-written files, elements that need one another. Only what differs is touched, every miss is reported, retries suffice and end |
| Streams and event loop (`wvdotnet/wvstream.cs`, `wveventer.cs`, `wvsockstream.cs`, `wvstreamstream.cs`, `wvbuf.cs`) | sockets with actions, timeouts, pending actions (from any thread), buffers | `runonce`, read, write, flush, close | everything | Output that the socket takes in parts; actions that change the lists being walked; close seen by a write or a read; messages in pieces; other threads' pending actions. Bytes stay in order, everything leaves and everything is handled |
| Database handles (`vxsqlpool.cs`, `wvdbi.cs`, `wvdata.cs`) | count of open handles (at most 50), one static current command, access levels | create, select, execute, dispose, cancel | everything that runs SQL | A failing open must give its place back; the current command is shared |
| Query parser (`vxapi.cs` 98-308, `vxsqltokenizer.cs`) | none | tokens to an allowed query or an exception; LIST commands | before every query | A function of the tokens and the level, with no state: what is admitted is defined by its rules alone |
| Single results and values (`ExecScalar`, `ExecRecordset`, `vxcolumninfo.cs`, `vxdbusdatetime.cs`) | none | convert rows to D-Bus types | loop | Size limit of a message |
| Marshalling (`wvdbus-sharp/msg*.cs`, `protocol.cs`, `auth.cs`) | buffers | encode, decode, authenticate | streams | Layout of bytes |
| Start and stop (`main.cs`, `versaplexd.cs` 173-216, `versaplexd-svc.cs`, `wvdbusserver.cs`) | `thread_ready`, `want_to_die`, the server thread | start, listen, stop, join | the loop | A thread that fails before it says it is ready |
| Checksums and elements of a database (`vxdbschema.cs` 205-263, 990-1223) | the self-test's procedure | create, sum, drop | SQL Server | Two programs at the same time |
| Remote backend (`vxdbusschema.cs`) | none | one call per operation | `sm`, daemon | a lost connection |
| Data export and import (`sm.cs`, `wvcsv.cs`, `vxdbschema.cs: GetSchemaData, PutSchemaData`, `vxdiskschema.cs: FixSchemaData`) | commands and rules of `data-export.txt`, files of `DATA` | dpull, dpush, dfix | database, directory, applications | Delete and insert without a transaction, files replaced one by one, texts quoted three times over. A push that ends brings back what was exported |
| Procedure wrappers, `vxcli`, veranda, utilities | | | | see "What is not modelled" |

### The ODBC driver

A driver for PostgreSQL, made over to send statements to `versaplexd`. An
application calls it, one call at a time on a statement; state that outlives a
call is where it goes wrong.

| Part (`vxodbc/`) | State | Operations | What is hard, and what makes it right |
|---|---|---|---|
| Cursors and results (`statement.cc`, `results.cc`, `qresult.cc`, `bind.cc`, `options.cc`, `execute.cc`) | the answer, the current row, the rowset's start, base and size, bindings, how much of each column was read | execute, close, fetch in every direction, position, read in pieces, bind, change options | Seven variables say where the cursor is, each moved by other calls. The row that is read is the row the cursor is on, the next rowset follows, nothing damaged is called a success |
| Handles (`environ.cc`, `connection.cc`, `statement.cc`, `descriptor.cc`) | the slots of all connections, each connection's lists of statements and descriptors, arrays of bindings | allocate, connect, free, copy, share | Any handle may go while others still point to it. Lists are exact, no array is freed twice |
| Diagnostics (`environ.cc`, `statement.cc`, `connection.cc`, `descriptor.cc`, `pgapi30.cc`) | number and text of an error per handle, the record made of it, the size of pieces | fail, clear, SQLGetDiagRec, SQLGetDiagField, SQLError | Records are made once, cached, cut in pieces by the first reader's buffer. A record is of the last call, and comes whole |
| Conversion of values (`convert.cc`, `vxhelpers.cc`) | the converted value and what is left of it, kept between calls and rows | texts and bytes in pieces; dates, numbers, truth values | A buffer that is reused, an exact decimal halved digit by digit |
| Types and information (`pgtypes.cc`, `results.cc`, `info.cc`, `info30.cc`) | none | lengths and names of types, columns, SQLGetInfo | What is announced in one file is filled in another |
| Catalog functions (`info.cc`, `odbcapi.cc`, `odbcapiw.cc`) | the statement's result, an internal statement | the ten functions, each by two entries | Asking again in lower case while the server changes; failures half-way |
| Wide entries and connecting (`odbcapiw.cc`, `odbcapi30w.cc`, `win_unicode.cc`, `drvconn.cc`, `dlg_specific.cc`) | none; odbc.ini | convert texts, guess sizes; complete a connection string | A guess too small; a completed string that leads elsewhere |
| Parameters, parser, setup | | | never reached, see "What is not modelled" |

A call travels like this. A client's message reaches the daemon through the bus;
`handlemessage` hands it to `WvDbusMsgReady`, which queues it (or, for CancelQuery,
acts at once and queues only the answer). The loop takes the oldest entry, asks
the bus who the client is if it does not know, running the message loop inside
itself meanwhile, runs the query, sends chunks and one reply. `sm` and the ODBC
driver are ordinary clients; `sm` may also open the database itself. In the
driver an answer is complete before the application's call returns, so that its
cursors never meet the network again.

## The modules

| Module | What it is | Checked or proved in |
|---|---|---|
| `Versaplexd` | the loop, the queue, identification, cancellation, replies, the loss of the bus | runs Versaplexd_* |
| `OrderedService` | what a client may rely on: its calls are served oldest first, signals and then at most one reply | implemented by `Versaplexd` |
| `MCVersaplexd` | symmetry of the clients | |
| `Versaplexd_proofs` | theorems, the refinement among them | TLAPS |
| `ChunkRecordset`, `MCChunkRecordset` | the driver, the bus and the daemon for one application's queries | ChunkRecordset_late |
| `ChunkRecordset_proofs` | theorems | TLAPS |
| `BufStream` | the daemon's stream: buffers, the socket, the passes of the event loop, messages made of pieces | BufStream_loop; theorems in `OdbcValues_proofs` |
| `PutSchemaTable`, `MCPutSchemaTable` | one table changed, statement by statement | PutSchemaTable_all |
| `PutSchemaTable_proofs` | theorems | TLAPS |
| `CopySchema`, `MCCopySchema` | a copy, element by element, with both backends | runs CopySchema_* |
| `CopySchema_proofs` | theorems | TLAPS |
| `OdbcCursor`, `MCOdbcCursor` | one statement of the driver, its answer, and every call that moves through it | OdbcCursor_all |
| `OdbcCursor_proofs` | theorems | TLAPS |
| `OdbcHandles` | environments, connections, statements, descriptors and the arrays they own | OdbcApplication_all |
| `OdbcHandles_proofs` | theorems; in its last sections, about `SchemaCsv` | TLAPS |
| `OdbcDiag` | errors and the records made of them | in `OdbcSession` |
| `OdbcConvert`, `OdbcValues` | conversion of texts in pieces; of everything of fixed length | in `OdbcSession` |
| `OdbcTypes`, `OdbcInfo` | what the driver says of types and columns; of itself | in `OdbcSession` |
| `OdbcData` | daemon, driver, type and conversion together: a value from the server to the application | in `OdbcSession` |
| `OdbcCatalog` | the catalog functions, their two entries and a changing server | in `OdbcSession` |
| `OdbcUnicode`, `OdbcConnect` | texts through wide entries; connection strings | in `OdbcSession` |
| `OdbcSession`, `MCOdbcSession` | the seven parts above as one specification | OdbcApplication_all |
| `MCOdbcApplication` | an application that has such a session, or handles (`OdbcHandles`) | OdbcApplication_all |
| `OdbcSession_proofs` | theorems about what goes through `OdbcCatalog`, `OdbcDiag` and `OdbcConnect`; in its last section, about `SchemaData` | TLAPS |
| `OdbcValues_proofs` | theorems about what goes through `OdbcConvert`, `OdbcData` (with `OdbcValues` and `OdbcTypes`), `OdbcInfo` and `OdbcUnicode`; in its last section, about `BufStream` | TLAPS |
| `SchemaCsv` | rows to CSV and back, INSERTs and their parts, the rules of exports and of dfix | in `SchemaData`; theorem in `OdbcHandles_proofs` |
| `SchemaData`, `MCSchemaData` | `sm dpull`, `dpush` and `dfix` on one directory and one database; the self-test of the checksums | SchemaData_all; theorem in `OdbcSession_proofs` |

There are eight modules with proofs. Three of them end in sections about something
else, `SchemaData`, `SchemaCsv` and `BufStream`, to keep that number; what stands
together shares no lemma but those about numbers, and a few of these (`LeastNat`,
`UpTo`, `Appended`) are in more than one module.

`BufStream` is below `Versaplexd`: there the stream is a queue of messages whose loss
a write or a read may notice, here it is bytes, buffers and registrations, and the
daemon's actions are only how much they write and whether they wait for an answer.
`Versaplexd` and `ChunkRecordset` meet in a query: `Versaplexd` has many clients
and counts chunks, `ChunkRecordset` has what the chunks hold and one client that
gives up. `CopySchema` and `PutSchemaTable` meet in `AlterTable`: what a failing
`PutSchemaTable` may leave of a table is any text there, and the other module says
which tables it can be. `ChunkRecordset` ends with a complete answer, and
`OdbcCursor` begins with one; `OdbcCursor` knows of a value only whether it fits,
which `OdbcConvert` and `OdbcValues` decide.

Definitions that carry the name of a function model that function whole. The
definitions whose comment calls them a bug or a mutant are no part of a
specification: they are the bugs that each property must notice (PROJECT.json,
"mutants").

### Versaplexd

The daemon has one thread, so `pc` is where it is: `io` and `drain` are the two
inner loops of `_Go`, `action` has an entry's action on the stack, `ident` waits
for the bus inside it (`stage` is which of the questions: certificate, unix user,
user id), `sql` and `rows` are inside a query, `done` is the end of the loop,
`dead` an exception that leaves it, `spin` the wait on a lost connection that does
not return. `Reading` says where messages are read: in `io`, `drain` and, this is
what makes the model interesting, in `ident`. `inbox` is what the stream has
brought, `busq` the daemon's questions that the bus has not answered, `sent` what
clients were sent. `CancelQueued` rewrites matching queue entries as the code
does; `CancelCurrent` is the other branch, for an action that waits for its
client's identity; the answer of a CancelQuery is queued. `executed` and `killed`
are history variables.

A query's data are left out: it is refused (no identity, not allowed), fails, is
too large for a message, or gives up to `MaxChunks` chunks. `GetClientId`'s
answer is what the bus said, an error, or an exception from a nested handler.
As in the code (versaplexd.cs:80), a CancelQuery that matches the current action
while that action waits for its identity does not stop it: it goes on and its
query runs. No property says otherwise, and `CancelMeetsNoStatement` says what is
true of it.

### ChunkRecordset

`SizeUpTo[n]` is the size of the first `n` rows of the longest result, so a row's size is
a difference (`RowSize`) and rows that follow each other need no sum; a statement has
any number of these rows. `Drop` is the loss of a connection: what was coming to the driver
is gone, and of its calls that the daemon has not taken, those behind any one. `ReadRow` is one turn of the row loop, with the send when `ChunkSize`
is reached, `Select` begins a try with empty lists, `ConnectAgain` is the one
repetition the code allows. In the driver `Drain` handles what came before a call
is sent, `Receive` is the wait, `Sorted` is `signal_sorter`, `Fifty` the end of the
wait without an answer, after 50 seconds or because the connection is lost,
`Reconnect` the second run in `runquery`, which appends to the same result. A message
is addressed to one connection; `Deliver` drops it when that is gone. WvStreams'
`WvDBusConn`, which is not in the repository, is modelled from its use:
`send_and_wait` returns the reply or, later, an error.

`RowsArrive` speaks of queries that were answered. A driver that got an error
gives the application what had come so far and says success; there is no document
of the driver to hold this against, so it is a hazard with a note.

### BufStream

Units stand for runs of bytes: what is written is numbered, a message from the bus
is `MsgLen` units. `kernel` and `wire` are the two directions of the socket, `outbuf`
and `inbuf` the buffers of `WvOutBufStream` and `WvDbus`. `pc` goes through a pass of
`runonce`: `select`, `read` (the action in `r`), `write` (the one in `w`), `pending`
and `run`, then through the loop of `_Go`: `drain`, `reply`, `ask`, `flush`, `nested`.
`_flush`, `Register` and `Write` are the output stream; `handlemessage` and
`NoMessage` are one turn of `handlemessages`, used by `Read` with a timeout of 0 and
by `Nested` with none. `ready` is what `Select` returned, which the reader may
outdate: `Written` then goes to `dead`. `Register` starts as it is after the
credential byte was written, which a new connection takes whole.

Left out: timeouts (nothing adds one), `WvInBufStream`'s own buffer (used during
authentication only), SocketException other than a lost connection.

### PutSchemaTable

A table is a function from columns to definition and data ("orig", "null" or
"filled") and from indexes to a column. `Works`, `Number` and `After` are the
server: which statements a table admits, the error numbers the code looks at, the
effect. `FailsWith` decides what a failing statement does to the transaction:
nothing, or the server has rolled back already, so that the code's own ROLLBACK
reports error 3903. The steps follow `PutSchemaTable`: indexes are dropped, each
column change tried in a transaction, columns added outside one, then the
transaction with drops, changes and new indexes, and after an error the undoing;
then the check for nulls left where NOT NULL was wanted. `script` holds the
statements of the element that is being handled, so that each statement is a step
and can fail or be the last before a crash. `Again` is a later put of the same
table, after a report or a crash. A ROLLBACK that fails with another number than
3903 is left out.

### CopySchema

Elements have texts from `Versions`. A file is a text, the text its header's MD5 is
of, and the checksum in the header (`ReadSchemaFile`, `AddFromFile`); a file that
was cut off has the wrong MD5 or no whole header. One action per step of
`CopySchema` and per element dropped or put; `Turn` is the order of `Put`, tables
first; `EndPass` is its rule for another pass. `DbEdit` and `DiskEdit` are everybody
else, `Killed` an exception or the end of the process at any moment, `Fails` the
server. `DbDrop` takes a table's triggers along, `Fits` says when the server
accepts an element.

Abstractions: checksums tell all texts apart; one side's checksums are read in one
step (the races in there are between two programs' self-tests, which are in `SchemaData`);
a table is handled by `AlterTable` or `PutSchemaElement` according to whether it
exists at its turn, whereas the code looks once at the beginning of a pass and
handles the difference as an error; after the loss of `sm` the daemon does not
finish the `Put` that it was doing; encrypted procedures and the option IsBackup
are left out.

### OdbcCursor

`s` is a statement: `StatementClass` with its result, its row descriptor and its
GetData state. Each entry point holds the statement's mutex from its first line
to its last, so an API call is one action; the handlers are functions from the
statement to the statement and a return code, and an action applies one.
`SetRowsetStart` is `SC_set_rowset_start`, which moves the cache's base by
increments; `GIdx2CacheIdx` the conversion of row numbers it serves; `Target`
the new start for each direction, `RowLoop` the loop of `PGAPI_ExtendedFetch`
over `SC_fetch`, `Piece` what one SQLGetData gives. `api` tells an ODBC 2
application (SQLExtendedFetch, `SQL_ROWSET_SIZE`) from one of ODBC 3. `out` and
`seen` are history: what the last call told and which rows and columns were read
since. A cell is "short", "long" or "bad", as the application's buffer takes it.
The branches for keysets, for cursors declared in the server and for updates are
left out: they need `CC_send_query`, which returns an error in this driver
(`connection.cc`), so no result of theirs can exist.

### OdbcHandles

Handles are addresses that the allocator may hand out again once they are free
(`Conns`, `Stmts`, `Descs`, and `Blocks` for arrays of bindings). A statement
has four implicit descriptors, `<<a, k>>`, which live inside it; `stmts[a].ard` says
which one it uses. `Cleanup` is `CC_cleanup`, `Freed` what `DC_Destructor` and
`ARDFields_free` free (which depends on the descriptor's type), `CopyFields`
`ARDFields_copy` and its like, `FreeSlot` the search in `conns[]`. `LostOnlyUntyped` states how
memory is lost and does not say that it is not: an explicit descriptor in which
columns were bound before it had a type is freed without its array. A statement
whose descriptor was freed (`SQLFreeHandle` does not look who uses it) keeps a
dangling `ard`; applications that use such a statement read freed memory, and the
model has only those that give it another first.

### OdbcDiag

Texts are sequences of letters that say whose text it is. `StmtCall`, `ConnCall`,
`DescFails` and their like end a call with or without an error; `ReadRecord`,
`StmtField`, `ConnError`, `EnvError`, `DescError` are the ways of reading one,
through the cached `PG_ErrorInfo` (`pg`), whose `recsize` the first reader's buffer
fixes. The tables of states are the code's, `RowOf` the index into them. `reader`
keeps how far the application has come, and `blamed` which statements may quote an
error of their connection.

### OdbcConvert, OdbcValues, OdbcTypes, OdbcData

`OdbcConvert` is SQLGetData on one column: `gd` is its `GetDataClass`, with the
buffer of the converted value and what of it is left; `Move` goes to another row
and, as in the code, may leave the buffer. `Bookmark` is an INT4 read as BINARY, which the
code takes for SQL_C_VARBOOKMARK: four bytes or none, and `data_left` stays as it is, so that each
call delivers them again (`MaxReads` bounds how often). `OdbcValues` is the part of
`copy_and_convert_field` without state: dates (with its clock, "today" being a
parameter), truth values, numbers in each C type, and the halving of a decimal's
digits into `SQL_NUMERIC_STRUCT`. `OdbcTypes` has one operator per function of
`pgtypes.cc` and the attributes of SQLDescribeCol and SQLColAttribute.
`OdbcData` puts them in a row: `Sent` is the daemon's side, `ProcessField` the
driver's, `AsRead` SQLGetData, into a buffer of the size that `Attribute` - the
driver's own SQLColAttribute - announces. `BuffersFit` thus holds
`pgtypes.cc` against `convert.cc`, and `NumericIsExact` evaluates the bytes that
come out. A decimal is announced with 30 letters; `decimal.ToString()` has 31 with a sign, a point
and 29 digits, or `-0.` and 28. Such a text is cut: `Beyond` names it,
and that the call then says SQL_SUCCESS_WITH_INFO and the whole length is the property.

### OdbcInfo, OdbcUnicode, OdbcConnect

`OdbcInfo` has the answers of SQLGetInfo as records over the information types, in
the order of the code, and its delivery: the copy into narrow or wide buffers.
SQLGetTypeInfo and SQLGetFunctions are functions of the connection. In
`OdbcUnicode` texts are codes and bytes, `Ucs2ToUtf8` and `Utf8ToUcs2` are
`win_unicode.cc` with its errors at codes outside the first plane, `Retried` and
`OnceOnly` the two ways the entries guess a buffer's size. `OdbcConnect` completes
a connection string by `ConnectAttributes`, `GetDSNinfo` and `GetDSNdefaults`,
makes the one that goes back (`MakeConnectString`, `Fitting`), and an application
that connects with that. A string with neither data source nor driver gets the default data
source, `INI_DSN`; it is a blank (`dlg_specific.h:39`), of which `GetDSNinfo`, chopping trailing blanks,
leaves the empty name (`DefaultSource`), with which nothing in odbc.ini begins.

### OdbcCatalog

A catalog function is one step through a wide entry and up to two through a
narrow one: `asked.stage` is "pending" between them, and `Others` may then change
the tables. `Pgapi` is what `info.cc` makes of a call: Tables, Columns and
PrimaryKeys ask the daemon, the other seven build a query that nothing sends, and
all that comes of them is their error. `Crashed` is the end of the process: two
paths of `info.cc` follow a null pointer (SQLForeignKeys with neither name; a
narrow entry for a name that is required and missing), which is why deadlock is
not checked there.

### OdbcSession

`OdbcDiag` and the modules after it share no state of the driver that matters to
them. `OdbcSession` is their disjoint sum of seven parts: it chooses one of them at
the start (`doing`) and instantiates its specification; each property speaks of one
part, but ValuesArrive of two (long values in `OdbcConvert`, fixed ones in
`OdbcData`) and WideTextArrives too (`OdbcUnicode`, `OdbcInfo`).
One run then answers "what does a single call return" for all of them. `MCOdbcApplication`
makes the same choice once more, between such a session and the handles, which share no
variable with it.

### SchemaCsv and SchemaData

`SchemaCsv` is the way of a row: `GetSchemaData` writes it, `Normalize` and
`Csv2Inserts` make statements of it, `InParts` groups them as `PutSchemaData` does
when they are long, `CsvFix` is dfix. A text is a sequence of letters, since the
question is which commas, quotation marks and line ends belong to it; a table is a
bag of rows. `SchemaData` has the three commands as processes on one directory and
one database: `prog[p].pc` is where a program is. Every statement and every file is
a step of its own, so kills, refusals, applications and other programs come between
any two (`Kill`, `Refused`, `Change`). `CreateTest`, `SelfTest` and `DropTest` are the
self-test of `GetChecksums`, which dpull runs first; the rest of that function only
reads. Each of its statements may also fail because the connection ends or time is over, with
its effect or without (`CreateTestFails`, `SelfTest`, `DropTestFails`): the drop in the `finally`
then leaves the procedure, its exception replaces any other, and the program ends (`undropped`).
`CutShort` is what a killed writer leaves, `Overwritten` what a .cql file
becomes that is opened without being truncated. `saved` and `orphan` are history: what
the last whole export had and under which rules, and whether the procedure was left by a
program that was killed within its self-test or could not drop it.

A rule of data-export.txt, `replace` or `skipfield`, is for a column of every table or, written
`table.column`, of one; `Exported` and `Skipped` have both, the one for a table going
first. `CsvFix` reads the same rules but puts the replacement of the second form in lower case
(`InLowerCase`), and has an exception where it is null (`Throws`). dfix with unchanged rules
thus changes such values, and `Refixed` says into what.

An apostrophe comes back doubled, because `GetCsvLine` doubles it for SQL and
`Csv2Inserts` doubles each again. PushRestores says this of apostrophes and otherwise that the
rows are those that were exported; that a push fills the table with them, as the comments of
both functions say, is FillsGivenTable, which SchemaData_apostrophe violates. Also read from the
code, and part of what PushRestores says: .cql files
are neither cleaned nor truncated, are written in a dry run, and are pushed without
a DELETE, as are files of priority 0; a file that was cut short after its table's
name empties the table without an error; types that `Csv2Inserts` does not know,
nvarchar among them, are put into the statement without apostrophes and refused; a
program whose self-test fails because another's procedure is there drops that one;
without DATA, dpush runs whatever is in the directory, data-export.txt too, as SQL.

## The runs

The passing runs:

| Run | Instance | What it shows |
|---|---|---|
| Versaplexd_cancel | 2 clients, 2 calls each, chunked queries and CancelQuery with any serial, 1 chunk, the bus stays | Replies keep the order of calls (OutputOrder); a canceled query has not run (CanceledNeverRan); CancelQuery never meets a begun statement, which makes it useless for long queries (CancelMeetsNoStatement); the daemon is an ordered service (ServesInOrder) |
| Versaplexd_kinds | 1 client, 2 calls of all eight kinds, the bus may be lost | No call disappears and Quit lets those before it run (NothingLost); Quit ends the loop (WantToDieEnds); calls are answered (EveryCallAnswered) |
| ChunkRecordset_late | 2 queries, results of 0 to 4 rows of sizes 1, 1, 3, 1 with chunks from size 2, one lost connection | An answered query has its rows, in chunks of the right size (RowsArrive); it runs once, or twice if the driver says so (RunOnce); it ends, and its result no longer changes then (EndsForGood) |
| PutSchemaTable_all | 2 columns and an index in every combination, and up to 3 plain columns; 1 failure without cause, 2 puts, a crash anywhere | Data survives (DataKept); silence means success (CleanMeansExact); errors and trials leave no trace that is not announced (FailuresLeaveNothing); Destructive arrives (DestructiveIsExact) |
| CopySchema_heal | a table and a view of it, 3 texts, both directions, all options, 2 edits, 1 failure, 2 copies | The plan of the proof (CopyInv); after a copy that nobody disturbed each element is equal or reported, whatever happened in the copy before, and after such a pull nothing is left to do (both are CopySettles); only differing elements change (OnlyDifferences); without --force only tables that the source lacks are dropped (TableKept) |
| CopySchema_order | 3 views in a chain of needs, pushed, any number of failures, 1 edit | The retries of Put suffice (RetryIsEnough) and end (CopyEnds) |
| BufStream_loop | Messages of 2 units, a kernel that takes 2, replies of 1 to 3, 2 calls of any kind, loss at any moment, one action that another thread adds | Bytes and messages stay whole and in order, and the loop throws only as `Written` says (Intact); the socket is selected for writing exactly when there is output (ListensForWrites); output leaves (EverythingLeaves); messages and added actions are handled (NothingWaits) |
| OdbcCursor_all | answers without columns, and of 3 rows of 2 cells of every kind; rowsets of 1 and 2, all directions, offsets -1, 0, 2, both APIs | The cached row that is read is the cursor's (CacheFollowsRowset); the next rowset follows the last though its size was changed (NextFollows); reading in pieces begins at the beginning (GetDataFromItsStart); success means that all of the rowset is whole (SuccessMeansWhole) |
| OdbcApplication_all | An application that has a session, or handles. The session: values with line ends, escapes and nothing, numbers of 4 and 8 bytes, bookmarks read up to 3 times, buffers 0 to 6 and 20; every fixed type and samples at its limits, decimals of 31 letters among them, all decimals of up to 4 digits out of 0, 1, 5, 9; 2 tables, 3 names; letters at each boundary of the encodings; 2 data sources and connection strings of up to 3 pairs, with a data source, a driver, or neither; a statement, its connection, a descriptor and the environment that fail, buffers of 0, 2, 4 letters, records to 9. The handles: 2 connections in 2 slots, 2 statements, 1 explicit descriptor, 2 arrays | Values come whole, in pieces or not, but for bookmarks, which come again, and decimals longer than announced, which are cut and told so (ValuesArrive); catalog functions tell of failures and find what is there (FailureIsTold, FoundUnlessAbsent); texts cross between encodings (WideTextArrives); a completed connection string leads to the same server (ReconnectsToTheSame); a record of an error is of the last call, quotes its connection only for newer failures, and has its class (RecordIsItsOwn); its pieces make the message and fit their buffers, through wide entries too (MessageComesWhole); lists and slots are exact (Registered); no array has two owners or a dead one (BindingsOwned); the one way to lose one (LostOnlyUntyped) |
| SchemaData_all | two tables of two columns; two programs that pull and push at once, with 1 kill or failing statement; one program after another with every command, rules for all tables and for one, dry runs, dfix, changed rules, an edit by an application, up to 2 faults; and one text of every length up to 4 out of a letter, an apostrophe, a quotation mark, a comma and a line end | A push that ends makes of each table what the last whole pull exported, apostrophes doubled, whatever was cut short, refused or run at once before (PushRestores); the self-test's procedure outlives only a program that was killed or whose drop failed, neither of which goes on to export, and goes with the next self-test that can drop it (SelfTestCleansUp) |

The violation runs, whose sentences PROJECT.json quotes under "findings":

| Run | What the counterexample does |
|---|---|
| CopySchema_stale | The database changes between checksums and text of a pull, and back; the file has the new text under the old checksum, and no later pull repairs it (LooksLikeSource) |
| SchemaData_apostrophe | A row with an apostrophe is pulled and pushed, undisturbed: the table has two apostrophes then (FillsGivenTable). Each further pull and push doubles them again |

Eight more configurations are kept to be run by hand. Each is violated; but
for the last two it checks what a comment or a document says:

| Configuration, of module | Property | What the counterexample does |
|---|---|---|
| Versaplexd_cancelother, MCVersaplexd | CanceledOnRequest | Client 2 sends CancelQuery with a serial that client 1's waiting query has too. `HandleCancelQuery` compares serials and not senders |
| Versaplexd_hang, MCVersaplexd | WantToDieIsSeen | The bus is lost during identification; `send_and_wait` loops and `want_to_die` is not looked at |
| PutSchemaTable_restored, MCPutSchemaTable | RestoredByHand | Adding a column fails after an index was dropped; nothing is restored because the transaction had not begun |
| CopySchema_trigger, MCCopySchema | ForceIsExact | With --force a table is dropped and created; its triggers, which did not differ, are gone and nobody says so |
| OdbcCursor_maxrows, MCOdbcCursor | EndIsFinal | With `SQL_ATTR_MAX_ROWS` reached a fetch finds no data, and the next one delivers the row behind (`statement.cc:1294` looks at one row number only) |
| OdbcSession_null, MCOdbcSession | NullIsReported | A NULL arrives as a zero or an empty text: the driver opens the flags of the protocol (`src/protocol.txt:42`) and does not read them |
| SchemaData_nulls, MCSchemaData | PushRestores | An export of one column: a NULL is an empty line, `Normalize` ends the rows there, and later rows are lost without an error |
| SchemaData_emptyline, MCSchemaData | PushRestores | A text with an empty line: a push refuses it, but dfix, which reads up to the empty line, writes a file whose push empties the table without an error |

Why the bounds are enough. Two clients make every question about whose call it is
visible, two calls per client every question of order; a third of either adds
states and no kind of step. In ChunkRecordset a late message needs a query before
the current one, so two; a reused serial needs two connections. A put whose first
attempt fails needs a second to show what the first left, and a third meets a
table that a second could also have met. In BufStream a reply must be
longer than the kernel's room, and the bus must be able to empty that while a second
call is in pieces: 3, 2 and 2 are the least such numbers. In CopySchema an effect that one copy
leaves for another needs two copies; a stale checksum needs an edit between two
reads and one to undo it; texts beyond three are never distinguished, since each
edit without `Reuse` takes a text that the element never had. `Reuse` is off in
CopySchema_heal, because with it CopySettles is false:
that is what CopySchema_stale shows. Three elements in a chain are the least with
an order that takes three passes.

In OdbcCursor three rows and rowsets of one and two give full, cut off and empty
rowsets at both ends, and a rowset behind another; `MaxRowsValues` is 0 there
because MAX_ROWS makes NextFollows and its like speak of another end, which the
hand-run configuration looks at. Two connections, two statements and one explicit
descriptor are the least with which a descriptor can be shared, copied across
connections and outlive a statement; the proofs hold for any number. Messages in
OdbcDiag's part are longer than the smallest buffer and shorter than the largest, so that
one, two and more pieces occur. In the session a buffer takes every size up to
that of the longest value; codes lie on both sides of each length of UTF-8, and
four letters of three bytes exceed the guesses for small buffers; a name exists
in upper case, lower case, both or neither, at either question. A bookmark that comes three times
would come any number of times: nothing has changed after the second.

In SchemaData the record `budget` holds the bounds: how often programs start, what
they are started for, edits and faults, and what data-export.txt says. A stale file
or a half-done push needs one program before the one that is looked at, and a
whole pull between them: three starts; two programs at once need four for each to
have pulled and pushed. A text of four letters has a pair of quotation marks and a
comma or line end on either side. `PartSize` is 1, so that every INSERT but the
first two may be lost alone. The budgets that include dfix leave texts with empty
lines out, for the reason that the hand-run configuration shows.

`CHECK_DEADLOCK` is off for OdbcApplication_all, where the process may crash
(`OdbcCatalog`), and for SchemaData, where programs are started so often and then
no more; elsewhere the states where nothing more can happen have a
stuttering step of their own (`Halted`, `Rest`).

## Fairness

- `Versaplexd!FairSpec`: weak fairness of the daemon's steps (its one thread goes
  on; statements end) and of the bus's answers. Clients and the loss of the bus
  have none. A step that reads a message is fair only as a part of the thread: the
  properties do not need that a particular call is read next.
- `BufStream!FairSpec`: weak fairness of the thread (its actions end), and of the bus
  and the kernel, which read, deliver and answer. EverythingLeaves and its like end
  when the connection is lost or the loop has ended.
- `ChunkRecordset!FairSpec`: weak fairness of the driver's steps, among them its
  timer. None for the daemon: that a query ends holds even if the daemon never
  answers.
- `CopySchema!FairSpec`: weak fairness of the copier. Failures are without limit in
  CopySchema_order; that `CopyEnds` holds there is due to the rule of `EndPass`
  alone. Edits by others need no fairness.
- The Odbc modules have none. The application decides what is called; a call is
  one step, or two, and the waits inside it are ChunkRecordset's.

## What is proved

For every value of the constants, under the ASSUMEs of the modules only (finite
sets of elements, disjoint sets of tables and triggers, addresses of different
kinds that differ, special values that are no texts, numbers that are numbers, answers made of
columns and rows, directions that the driver knows, row sizes that only add up, C types
that the driver knows and buffers with a size, names without zeros, and that the bus is no client; `MaxRuns` is at least 1, since a put
that is looked at has begun):

| Theorem | Module | Says |
|---|---|---|
| TypeCorrect | Versaplexd_proofs | Spec => []TypeOK |
| OutputInOrder | Versaplexd_proofs | Spec => []OutputOrder |
| CanceledDoesNotRun | Versaplexd_proofs | Spec => []CanceledNeverRan |
| CancelFindsNoStatement | Versaplexd_proofs | Spec => CancelMeetsNoStatement |
| NoCallIsLost | Versaplexd_proofs | Spec => []NothingLost |
| IdentityStays | Versaplexd_proofs | a cached identity of a client is never changed |
| Implements | Versaplexd_proofs | Spec => ServesInOrder, the refinement of OrderedService |
| TypeCorrect | ChunkRecordset_proofs | Spec => []TypeOK |
| ResultsArrive | ChunkRecordset_proofs | Spec => []RowsArrive |
| RunsOnce | ChunkRecordset_proofs | Spec => []RunOnce |
| StaysFinal | ChunkRecordset_proofs | Spec => FinishedIsFinal, the safety half of EndsForGood |
| TypeCorrect | OdbcValues_proofs | BufStream: Spec => []TypeOK |
| StreamIntact | OdbcValues_proofs | BufStream: Spec => []Intact |
| ListensRightly | OdbcValues_proofs | BufStream: Spec => []ListensForWrites |
| TypeCorrect | PutSchemaTable_proofs | Spec => []TypeOK |
| KeepsData | PutSchemaTable_proofs | Spec => []DataKept |
| LeavesNothing | PutSchemaTable_proofs | Spec => []FailuresLeaveNothing |
| CleanIsExact | PutSchemaTable_proofs | Spec => []CleanMeansExact |
| DestructiveSucceeds | PutSchemaTable_proofs | Spec => []DestructiveIsExact |
| PlanIsHeld | CopySchema_proofs | Spec => []CopyInv, which contains TypeOK |
| ChangesDifferencesOnly | CopySchema_proofs | Spec => OnlyDifferences |
| KeepsTables | CopySchema_proofs | Spec => TableKept |
| RetriesSuffice | CopySchema_proofs | Spec => []RetryIsEnough |
| PullsSettle | CopySchema_proofs | Spec => []PullSettles, the half of CopySettles that needs no assumption |
| CopiesSettle | CopySchema_proofs | Spec => []CopySettles, if no text comes back and no table with triggers is created again |
| HandlesTyped | OdbcHandles_proofs | Spec => []TypeOK |
| AlwaysRegistered | OdbcHandles_proofs | Spec => []Registered |
| BindingsNeverShared | OdbcHandles_proofs | Spec => []BindingsOwned |
| LossIsNamed | OdbcHandles_proofs | Spec => LostOnlyUntyped |
| CursorTyped | OdbcCursor_proofs | OdbcCursor: Spec => []TypeOK |
| CacheFollows | OdbcCursor_proofs | OdbcCursor: Spec => []CacheFollowsRowset |
| NextIsNext | OdbcCursor_proofs | OdbcCursor: Spec => NextFollows |
| ReadFromStart | OdbcCursor_proofs | OdbcCursor: Spec => GetDataFromItsStart |
| SuccessIsWhole | OdbcCursor_proofs | OdbcCursor: Spec => SuccessMeansWhole |
| SessionKept | OdbcSession_proofs | Session => []SessionInv, the invariants of OdbcCatalog, OdbcDiag and OdbcConnect |
| FailureTold | OdbcSession_proofs | Session => FailureIsTold |
| FoundByName | OdbcSession_proofs | Session => []FoundUnlessAbsent |
| RecordIsOwn | OdbcSession_proofs | Session => []RecordIsItsOwn |
| MessageIsWhole | OdbcSession_proofs | Session => []MessageComesWhole |
| ReconnectsSame | OdbcSession_proofs | Session => []ReconnectsToTheSame |
| ReadingKept | OdbcValues_proofs | Session => []ReadingInv, the invariants of OdbcConvert, OdbcData, OdbcInfo and OdbcUnicode |
| EveryValueArrives | OdbcValues_proofs | Session => []ValuesArrive |
| EveryDecimalExact | OdbcValues_proofs | the bytes of an SQL_NUMERIC_STRUCT are the number its digits are, for decimals of any number of digits |
| WideTextsArrive | OdbcValues_proofs | Session => []WideTextArrives |
| TextsFit | OdbcValues_proofs | a text of the driver never exceeds its buffer, is whole and terminated on success, and succeeds in a buffer made after the length that was told |
| CleansUp | OdbcSession_proofs | SchemaData: Spec => []SelfTestCleansUp |
| ExportComesBack | OdbcHandles_proofs | SchemaCsv: the text of an export is read as the INSERTs of the rows it was made of |

OutputOrder alone is not inductive: a reply is in order only if whatever is still
to be replied to stands in order behind it. `OrderInv` therefore puts a client's
calls in one line by serial - sent, running, queued, unread, and then the serials
not yet used (`SentOrder`, `RunningOrder`, `LineOrder`, `IssuedOrder`) - with
`TypeOK` and `PcOK`. Its proof does not go through the actions one by one:
each action moves entries along the line in one of a few ways (a call arrives, is
dropped, queued, taken, or something is sent about the running one), `Moves`
classifies them, and each kind of move preserves each part. CancelQuery rewrites
what entries do and not whose they are, which is lemma `CancelledKeeps`.

`ExecInv` extends that line to what has been executed: the calls whose statement has
begun stand in front of everything queued and unread, and the running action's is
among them only while its rows are read (`ExecutedOrder`). A canceled call is answered
when it runs, so it is not among them then, and never later. `KeepInv` follows a
call from `issued` to its answer: nothing runs between two actions and the loop ends
on an empty queue (`IdleOK`), what stands in line is what was issued (`CallsAgree`), and
each call to be answered is somewhere (`NothingDropped`). `IdentInv`: whoever is being
identified is unknown in the cache.

The refinement maps `asked` to the number of calls a client has made and
`pending` to the serials that are unread, queued or running (`Held`). The same
classification shows that each kind of move is a step of `OrderedService` or leaves
its variables alone; that what is sent concerns the client's oldest pending call
is `OrderInv`.

ChunkRecordset's proof has one invariant per party. `DriverInv`: only the query that
waits is registered in `signal_returns`, under the last serial, so that a message that
comes late finds nobody. `InboxInv`: what has come is for this connection and was
cut where it must be (`Sized`). `UnsentInv`: what the daemon has not sent are the last
rows that it read, and `cursize` is their size. `CallsInv`: the last call is the
last of the queue, and once the daemon has it no other message of it can come from
elsewhere. `ResultInv` puts them together: the result is some rows of a first run and the
first `j` of this one; the messages on their way take it, each from where the one
before ended, from `j` to a row `z` (`Chain`), and that is the row with which the daemon goes on
(`Stage`). A message that is read, sent, or of an older call each moves one end of
the chain or neither (`ChainRead`, `ChainComes`, `Passes`). ResultIsExact is this
for the moment a query ends, and `EndedStays` keeps it. For RunOnce `RunsInv` counts
along the queue: what has begun, what the daemon is about to begin, and the calls in front of
each call never exceed what the driver has sent (`Within`). The sizes of rows are given
as those of the first `n` together, because the size of a part is then a difference: a fold over
rows would need an induction of its own.

In BufStream both directions are one idea. `Ordered` says that the units of a
buffer stand where they belong from some place on; `OutInv` lays the bytes at the bus, in
the kernel and in `outbuf` behind one another, up to `written`, `InInv` the handled
messages, `inbuf`, the wire and what comes, up to what was posted. Taking, cutting and
joining keep `Ordered` (`CutOrdered`, `JoinOrdered`), wherever the socket cuts.
`RegInv` ties the registration of `_flush` and the set `w` to `outbuf`; with `DeadInv`,
which says what can make a socket found writable leave `w` before it is its turn,
an exception ends the loop only as `Intact` says.

PutSchemaTable's proof is layered. `TypeInv` says for each place what may be left
of a `script` and what has been noted (`PlaceInv`, `ScriptInv`, `NotesInv`). `DataInv` needs of it
only that no column is dropped without Destructive: the rows are then in the table, in the
one that was read, and in the one a rollback brings back. `UndoInv` describes what
is committed as the table that was found, with the columns added and without the
indexes deleted so far (`Found`); the two undoing loops shrink these sets to
nothing. For a clean report `TrialInv` says what a failed trial proves about the table,
`LoopsInv`, `ColumnsInv` and `IndexesInv` how far each loop has brought the table to the wanted one, with
`Fit` for a column that is still nullable because it has nulls, which the last check
reports; `ReportInv` is what is said at each end.

`CopyInv` says that, while a copy changes things, its plan is what the checksums
said: what is to be dropped was absent from the source, what is to be put differed,
the run is not dry, the source was not empty, only a table that may be dropped is
in `redo`. It is inductive with `TypeOK`; the two action theorems follow from it
through one lemma, `StepChanges`: a step that is not somebody's edit leaves both
sides alone, or writes one file, or drops one element with its triggers, or gives
one element a text, and that element is in the plan.

RetryIsEnough needs an account of each pass of `Put` (`PassInv`): the elements
with an error and those whose turn is to come are never more than the errors of
the pass before, and as long as they are as many, no element has been put, so that
none has come for which another was waiting. An element that did not fit therefore
still does not when the pass ends with as many errors as the last one, which is
when `EndPass` gives up.

CopySettles is proved under `Settling`: no text comes back (`~Reuse`), and there
are no triggers or no option is destructive. CopySchema_stale's instance breaks
CopySettles without the first, CopySchema_trigger's without the second, so neither
can be left out. The proof has two layers. `PullInv` and `PushInv` say how far an
undisturbed copy has come: its plan is the difference of the two sides as they
are, what it does not touch has the same checksums on both (or is a trigger that
fell with a table which the directory lacks), and what it has handled is right or
reported. That gives equal checksums, and for a pull it needs no assumption
(PullsSettle). That equal checksums mean equal texts is `TextsInv`, which holds at
all times: a file may lie, having the checksum of another text, since a pull reads
the checksum first and the text later; but the database has left the text that is
told, and it does not get it back, from an edit as texts are not reused
(`UsedInv`: whatever is anywhere has been the element's own), nor from a push,
which puts what the file contains (`LiesInv`, `LateInv`).

`HandlesInv` is `TypeOK`, `Registered` and `ImplicitOwned`: an implicit descriptor
points to its statement's connection. Without the last, Registered is not
inductive: `Cleanup` removes the descriptors on a connection's list and those
inside its statements, and that nothing is left which points to the connection
needs that the implicit ones pointed nowhere else (`CleanupExact`, `CleanupKeeps`).
Lists change in two ways, lemmas `Listing` and `Removing`. `BindingsOwned` is
inductive beside it: a step leaves the arrays alone, frees those of descriptors
that go, puts a new array into one descriptor, or moves a descriptor's array into
a larger one (`BindingsSame`, `BindingsFreed`, `BindingsNone`, `BindingsMoved`).
LostOnlyUntyped needs that only row descriptors and untyped explicit ones hold arrays
(`OnlyRowsHold`); each step then accounts for every array (`Accounted`).

The cursor's invariant is `Inv`. `Sound` types the statement and says that its result
is one of the answers and each of its columns has a record (`ResultOK`), that nothing is left of a
column no array covers (`ColumnsOK`), and, which makes CacheFollowsRowset
inductive, that the cache is valid and its base is the rowset's start as soon as rows
were fetched or the cursor is on one (`BaseOK`). `Loaded` is what a fetch
leaves and positioning and reading keep: the rowset is inside the result, the size
that SQL_FETCH_NEXT will add is the number of rows shown unless the result ended
(NextFollows), and if the current column was not read since the
rowset was loaded, nothing of another value is left of it (GetDataFromItsStart). The rows of a rowset are a
recursive function, so what a fetch of any size leaves is an induction over its
rounds: `LoopSolved` shows that the recursion has a solution and `Looping` that after
round `i` the cursor is `i` rows further and everything so far was whole unless
noted (`Looped`). `FetchedRowset` and `FetchedOr` are what the fetches promise
with that; `Placing`, `Leaving` and `Targets` are the three ways into and out of it.

`CatalogInv` types the statement, says that it holds no internal statement unless
the process has crashed, and that a call that is to ask again found no open
result. Each of the ten functions gives a `Good` answer: success, or an error with
its number, a result and the internal statements accounted for; `NarrowWell`,
`WideWell` and `AskAgainWell` carry this through the entries. `FoundInv` is
FoundUnlessAbsent with what makes it inductive: a second question is asked only after
the name as given matched nothing, by its lower-case form, and only where names may be
folded (`Refolded`). It assumes (`CatalogAssumption`) that arguments and their
lower-case forms are texts, and that NULL is none.

`DiagInv` says of every statement that a record, when one is kept, has the number, the
class and the text of the statement's error, with the connection's text behind it only if
the connection failed since the last call; and of its reader that what was read so far
is the text before the record that comes next, as long as the buffers have the size of
the pieces. The last is what makes `RecordsTile` inductive, which speaks of readers at
the end only. `Creating` and `Requesting` are what making a record leaves, `Piecewise`
and `ReadingOn` what reading one does; that each number has the class of its row is
read off the tables of states (`StmtStates`, `DescStates`). It is assumed
(`DiagAssumption`) that numbers are not below the tables, that the letters of a text tell
whose it is, and that NULL is no text and no record.

`ConnInv` remembers how a connection came about: the first with a string, a buffer
and what the server answered, or by the name of a data source; the second with what
came back from a first that succeeded. The rest is about the operators. A completed string names each
field once, so reading it gives back what it was made of (`NamesInString`); completing
it again changes nothing (`CompletedAgain`), because what is empty after the first
time was empty in the data source too, and a driver without a data source keeps
everything from being filled in both times. `CutOff` is the string that does not fit. Only the buffers'
sizes are assumed to be numbers (`ConnectAssumption`).

`SessionInv` is CatalogInv and FoundInv in the catalog's part, DiagInv in the
diagnostics' and ConnInv in that of connecting; a step of `OdbcSession` is one of the
part it chose (`StepOfSession`), so the theorems about all three are about `Session`.

`CleanInv` adds two things to SelfTestCleansUp, which is not inductive: only a
program that is about to drop the procedure, has ended or could not drop it, has failed in its
self-test (`Shaped`), and a program that is called alone has no other running beside
it (`AloneIsAlone`), so that none creates the procedure again behind a failed one.
The steps outside the self-test are all of one kind, `Quiet`: they leave the
procedure alone and lead to no place inside the self-test.

ExportComesBack is the part of PushRestores that is about letters: what
`GetSchemaData` writes, `Normalize` reads as the INSERTs of the selected rows, for any
number of rows, values of any length and any rules. The only hypotheses are about the data: NULL is no
text, columns that are exported have names that are texts without a quotation mark,
different from each other, there is at least one, the server accepts each value, and
the text has no empty line - one where `Normalize` would end the rows
(SchemaData_nulls and SchemaData_emptyline show what happens otherwise). Three facts
about a value carry it, each shown by adding one letter at a time. The number of quotation
marks at the end of a text is one more with each that is added, and none after another letter (`QuotesMore`);
with every mark doubled, each comma or line end within has an even number before it, so
that none closes the value (`UncutMore`, `EscapedSound`); and of each pair one mark is left
(`UnescapedMore`). From there on it is about places: a value stands in its line, and a line in
the text, where the ones before it end (`PlacedIn`, `FieldsPlaced`), and there
`GetLine` and `CsvLines` begin to read it (`FieldRead`, `RowRead`, `LinesRead`).
Their recursion is over places in a text and refers to later ones, so it has a solution
(`LineSolved`, `LinesSolved`).

`ReadingInv` has four parts, again one per part of the session. `PieceInv`: `gd` and
the column's value belong together, a conversion that has begun put the whole
converted value into the driver's buffer (`BegunReading`, `BufferReady`), `data_left` counts
its units from where the last piece ended, and what was read is the beginning of it
(`Delivers`, `Arrived`). Each piece is a piece of that text from there on
(`FirstPiece`, `LastPiece`, `PieceUnits`), also in a buffer kept from another row. What was read of a
bookmark is its number so many times, whole each time.
The converted text is a recursive function over the value's letters - line ends
doubled, escapes read, bytes in hexadecimal; that it is a text for values of any length is
shown once for functions that append from the beginning (`Appended`) and once for those that
gather from the end by steps of several letters (`Gathered`). `FixedInv` only says that a value was sent, received and
read as an application does that follows the driver's own lengths; the rest is
that the longest text of each type (`NumberLetters`, `SamplesAre`) is no longer than
`OdbcTypes` announces, or a decimal that is cut and told of. It is for the samples of the model; decimals are not sampled in
EveryDecimalExact: halving a sequence of digits halves its number and drops the lowest bit (`HalvedHalves`), which therefore
ends (`HalvingEnds`), so the recursion over all sequences has a solution
(`BitsSolved`), and its bits weigh what the number is (`BitsWeigh`), byte by byte
(`ByteWeighs`).

`InfoInv` says that a buffer of SQLGetInfo has whole units and that the second call
had the room that the first asked for; `TextsFit` is the rest. `HeardInv` says the same of the wide
entries, where the room is counted differently by each (`Enough`). The entry's
answer tells the truth (`Telling`, `EntriesTell`) because a text comes back from
UTF-8: each letter's one, two or three bytes are read back as that letter wherever
they stand (`LettersSpelled`, `FromLetter`), so the whole is (`ComesBack`), and
because an answer that was cut at the guessed size is asked for once more with the
length it told (`RetriedWhole`). It is assumed (`TextsAssumption`) that names have no
zero in them, which would end them.

Inductions over data are done over numbers, by the least member of a set of
counterexamples (`LeastNat`, `UpTo`), since the provers cannot instantiate the
library's theorems with an operator; each recursive function needs a lemma that
its recursion has a solution.

Only model-checked are: the liveness properties (EveryCallAnswered, WantToDieEnds,
QueryEnds in EndsForGood, CopyEnds, EverythingLeaves, NothingWaits), which are out
of the prover's reach; CopySettles without its assumptions; and PushRestores as a whole.
ExportComesBack is its part within one file. The rest needs the files in their
order, the rows a command selects and what dfix makes of them, and the sums of bags over the
statements that are still to run; the first two are `SortSeq` and `SelectSeq`, which have
no definition the provers can expand (ExportComesBack names the selected rows and asks
only that they are rows). EndIsFinal is no theorem: OdbcCursor_maxrows violates it.

## What is not modelled

PROJECT.json lists every part with the reason. In short: marshalling and conversion
of values in the daemon (no state, no order), text generation
(pascalgen, LIST commands), the graphical and command-line clients (one blocking
call at a time), utilities, and the programs under examples, benchmarks and
sqlsucker. Streams of files, handles, and start and stop are left for the plan. Of the data
commands, images (base64 and hexadecimal), the format of dates, identity columns,
carriage returns, files in DATA that nobody exported, and dfix for a table without a
file of its schema are left out.

Of the ODBC driver, code that this driver inherited and cannot reach: everything
behind `CC_send_query`, which always returns an error - keysets, updates by
position, cursors in the server, transactions, large objects, the second half of
`info.cc`'s functions - as well as `parse.cc`, and the half of `convert.cc` that
writes parameters into statements, which nothing calls. The dialog of Windows
(`setup.cc`), writing `odbc.ini` and tracing are left out.

What was met while modelling, and no property states: SQLDescribeCol neither
measures nor terminates a name that is too long; a `UInt8` column is taken for one
letter, so its lengths are wrong; 4-byte UTF-8 is taken for 3 bytes; a wide
SQLGetInfo into a buffer of odd size is not terminated; narrow and wide catalog
entries differ in their retry in lower case; SQLStatistics and SQLSpecialColumns
always fail; a failed SQLDriverConnect keeps its D-Bus connection; the completed
connection string leaves out a D-Bus moniker that was given; the default data source's name
is chopped when it is empty already, which reads the byte before it.

## The plan

What is left, in order of importance.

1. `WvDbi` (handles): places taken by failing opens, nested results and the static
   current command, CancelQuery from a nested loop. Abstract specification: a pool
   of at most 50 places. Proof: places in use equals open handles, for the drivers
   that dispose.
2. `WvStreamStream`: reads that end in another thread, for log files.
3. Refinement of the stream of `Versaplexd` by `BufStream`: a queue that may lose its
   end.
4. `ServiceThreads`: the handshake of start and stop.
5. Further theorems: the same way through a file for dfix, the bags of PushRestores, and
   the doubled quotes of OdbcCatalog.
