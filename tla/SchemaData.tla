----------------------------- MODULE SchemaData ------------------------------
(* sm dpull, dpush and dfix (src/versaplexd/sm.cs): the rows of tables       *)
(* exported to the files of a directory DATA, as data-export.txt says, put   *)
(* back into the database, or changed in the files; with the checksums an    *)
(* export asks for first, and their self-test (GetChecksums of               *)
(* src/versaplexd/vxdbschema.cs).  Programs run at the same time on one      *)
(* directory and one database, and are killed; an application changes rows.  *)
(* Nothing here is a transaction.                                            *)
(*                                                                           *)
(* A file is a record [head, text]: the table of its line "TABLE t" and the  *)
(* text after it; or no head, and tables to be emptied; or "cut", when the   *)
(* first line is not whole, or "empty".                                      *)
EXTENDS SchemaCsv

CONSTANTS TableNames, \* the tables of the database, in alphabetical order
          Programs,
          Contents,   \* what an application may make of a table
          Budgets     \* bounds, see DataAssumption

\* what a program is started for: where it begins, and whether with --dry-run
Operations == {"create", "list", "listtofix"} \X BOOLEAN

Tables == ToSet(TableNames)

ASSUME DataAssumption ==
  /\ {NULL, "ZAP", "cut", "empty"} \cap Tables = {} /\ IsInjective(TableNames)
  /\ \A b \in Budgets :
       /\ DOMAIN b.db = Tables       \* the tables at first
       /\ b.programs \subseteq Programs
       /\ b.ops \subseteq Operations
       /\ b.starts \in Nat           \* how often programs are started
       /\ b.changes \in Nat          \* how often an application changes a table
       /\ b.faults \in Nat           \* kills and statements that are refused
       /\ \A e \in b.exports : {"commands", "rules"} \subseteq DOMAIN e
       \* replacements are of fields put between apostrophes, and hold no two
       \* apostrophes in a row, which dfix takes for one that is doubled
       /\ \A e \in b.exports : \A r \in DOMAIN e.rules.replaces :
            LET value == e.rules.replaces[r]
            IN value = NULL \/ (TypeOf[r[2]] \in {"varchar", "datetime", "char"} /\ ~HasPair(value))

VARIABLES db,     \* the rows of each table, a bag
          test,   \* the procedure schemamatic_checksum_test exists
          files,  \* the directory DATA by file name, NULL if there is none
          prog,   \* where each program is
          budget, \* what is left of the bounds
          saved,  \* what a push of DATA should make of tables, and the rules
                  \* these were exported under: [rows, rules], NULL if unknown
          orphan  \* the procedure was left by a program that was killed within
                  \* its self-test, or whose drop failed
vars == <<db, test, files, prog, budget, saved, orphan>>

-----------------------------------------------------------------------------
(* Files.                                                                    *)

FileName(pri, table, ext) == [pri |-> pri, table |-> table, ext |-> ext]
RowsFile(table, text) == [head |-> table, text |-> text]
ZapFile(tables) == [head |-> NULL, text |-> tables]

\* Array.Sort
Sorted(names) ==
  LET Place(t) == IF t = "ZAP" THEN Len(TableNames) + 1
                  ELSE SelectInSeq(TableNames, LAMBDA u : u = t)
  IN SetToSortSeq(names, LAMBDA a, b :
       \/ a.pri < b.pri
       \/ a.pri = b.pri /\ Place(a.table) < Place(b.table)
       \/ a.pri = b.pri /\ a.table = b.table /\ a.ext = "cql" /\ b.ext = "sql")

\* what may be left of a file that was being written
CutShort(file) ==
  IF file.head = NULL
  THEN {ZapFile(SubSeq(file.text, 1, n)) : n \in 0..Len(file.text) - 1}
       \cup {ZapFile(Append(SubSeq(file.text, 1, n), NULL)) : n \in 0..Len(file.text) - 1}
  ELSE {RowsFile(head, <<>>) : head \in {"cut", "empty"}}
       \cup {RowsFile(file.head, SubSeq(file.text, 1, n)) : n \in 0..Len(file.text) - 1}

\* a .cql is opened without being truncated
Overwritten(old, new) ==
  IF new.head \in {"cut", "empty"} THEN old
  ELSE RowsFile(new.head, new.text \o SubSeq(old.text, Len(new.text) + 1, Len(old.text)))

Written(name, file) ==
  LET kept == IF name.ext = "cql" /\ name \in DOMAIN files
              THEN Overwritten(files[name], file) ELSE file
  IN [n \in DOMAIN files \cup {name} |-> IF n = name THEN kept ELSE files[n]]

Statements(file) ==
  CASE file.head = NULL    -> [i \in DOMAIN file.text |->
                                IF file.text[i] = NULL THEN Bad ELSE Delete(file.text[i])]
    [] file.head = "empty" -> <<>>
    [] file.head = "cut"   -> <<Bad>>
    [] OTHER               -> Normalize(file)

\* VxDiskSchema.ParsePath and ApplyFiles: the table whose rows are deleted
ApplyTo(name) ==
  IF name.ext = "sql" /\ name.pri > 0 /\ name.table # "ZAP" THEN name.table ELSE NULL

\* bugs: the rows stay, or go after the new ones came
PutSchemaDataKeeping(table, file) == InParts(Statements(file))

PutSchemaData(table, file) ==
  (IF table = NULL THEN <<>> ELSE <<Delete(table)>>) \o InParts(Statements(file))

-----------------------------------------------------------------------------
(* Programs.                                                                 *)

Idle == [pc |-> "idle", dry |-> FALSE, failing |-> FALSE, alone |-> FALSE, rules |-> NULL,
         cmds |-> <<>>, todo |-> <<>>, stmts |-> <<>>, expect |-> <<>>]
Ended == {"idle", "pulled", "pushed", "failed", "undropped"}

At(p, pc) == prog[p].pc = pc
Goes(p, to) == prog' = [prog EXCEPT ![p] = to]
Fails(p) == Goes(p, [prog[p] EXCEPT !.pc = "failed"])

Fault == budget.faults > 0 /\ budget' = [budget EXCEPT !.faults = @ - 1]

Init ==
  /\ budget \in Budgets /\ db = budget.db
  /\ test = FALSE /\ files = NULL /\ saved = NULL /\ orphan = FALSE
  /\ prog = [p \in Programs |-> Idle]

Start(p, op) ==
  /\ prog[p].pc \in Ended /\ p \in budget.programs /\ op \in budget.ops /\ budget.starts > 0
  /\ budget' = [budget EXCEPT !.starts = @ - 1]
  /\ prog' = [q \in Programs |->
       IF q = p THEN [Idle EXCEPT !.pc = op[1], !.dry = op[2],
                        !.alone = \A r \in Programs \ {p} : prog[r].pc \in Ended]
       ELSE IF prog[q].pc \in Ended THEN Idle
       ELSE [prog[q] EXCEPT !.alone = FALSE]]
  /\ UNCHANGED <<db, test, files, saved, orphan>>

(* GetChecksums: a procedure is made, its checksum compared with a known     *)
(* one, and in any case dropped again.  There may be one already, and each   *)
(* statement may fail for another reason, the connection's end or a timeout, *)
(* having had its effect or not.  What the finally throws replaces the first *)
(* exception, so that a program whose drop failed is told of that only.      *)
CreateTest(p) ==
  /\ At(p, "create")
  /\ test' = TRUE
  /\ Goes(p, IF test THEN [prog[p] EXCEPT !.pc = "drop", !.failing = TRUE]
             ELSE [prog[p] EXCEPT !.pc = "sum"])
  /\ UNCHANGED <<db, files, budget, saved, orphan>>

CreateTestFails(p) ==
  /\ At(p, "create") /\ Fault
  /\ test' \in {test, TRUE}
  /\ Goes(p, [prog[p] EXCEPT !.pc = "drop", !.failing = TRUE])
  /\ UNCHANGED <<db, files, saved, orphan>>

SelfTest(p) ==
  /\ At(p, "sum")
  /\ \E failing \in {~test, TRUE} : Goes(p, [prog[p] EXCEPT !.pc = "drop", !.failing = failing])
  /\ UNCHANGED <<db, test, files, budget, saved, orphan>>

\* a bug: only a test that went well is cleaned up
DropTestIfWell(p) ==
  /\ At(p, "drop")
  /\ test' = (test /\ prog[p].failing)
  /\ orphan' = (orphan /\ prog[p].failing)
  /\ IF test /\ ~prog[p].failing THEN Goes(p, [prog[p] EXCEPT !.pc = "commands"]) ELSE Fails(p)
  /\ UNCHANGED <<db, files, budget, saved>>

DropTest(p) ==
  /\ At(p, "drop")
  /\ test' = FALSE /\ orphan' = FALSE
  /\ IF test /\ ~prog[p].failing THEN Goes(p, [prog[p] EXCEPT !.pc = "commands"]) ELSE Fails(p)
  /\ UNCHANGED <<db, files, budget, saved>>

\* a bug: an error of the drop is nobody's concern
DropTestFailsQuietly(p) ==
  /\ At(p, "drop") /\ Fault
  /\ test' \in {test, FALSE} /\ orphan' = test'
  /\ IF prog[p].failing THEN Fails(p) ELSE Goes(p, [prog[p] EXCEPT !.pc = "commands"])
  /\ UNCHANGED <<db, files, saved>>

DropTestFails(p) ==
  /\ At(p, "drop") /\ Fault
  /\ test' \in {test, FALSE} /\ orphan' = test'
  /\ Goes(p, [prog[p] EXCEPT !.pc = "undropped"])
  /\ UNCHANGED <<db, files, saved>>

(* do_dpull reads data-export.txt.  A command that makes no sense, or a      *)
(* table that is not there, ends it; else the directory is made, dry run or  *)
(* not, and the .sql files in it are listed.                                 *)
ReadCommands(p) ==
  \E export \in budget.exports :
    LET cmds == export.commands
        fits == /\ cmds # NULL
                /\ \A i \in DOMAIN cmds : cmds[i].cmd # "zap" => cmds[i].table \in Tables
        dir == IF files = NULL THEN [n \in {} |-> NULL] ELSE files
        old == IF prog[p].dry THEN {} ELSE {n \in DOMAIN dir : n.ext = "sql"}
    IN /\ At(p, "commands")
       /\ IF fits
          THEN /\ files' = dir
               /\ saved' = IF prog[p].dry THEN saved ELSE NULL
               /\ Goes(p, [prog[p] EXCEPT !.pc = "clean", !.rules = export.rules, !.cmds = cmds,
                                          !.todo = SetToSeq(old)])
          ELSE Fails(p) /\ UNCHANGED <<files, saved>>
       /\ UNCHANGED <<db, test, budget, orphan>>

Clean(p) ==
  /\ At(p, "clean")
  /\ IF prog[p].todo = <<>>
     THEN Goes(p, [prog[p] EXCEPT !.pc = "export"]) /\ UNCHANGED files
     ELSE /\ files' = [n \in DOMAIN files \ {Head(prog[p].todo)} |-> files[n]]
          /\ Goes(p, [prog[p] EXCEPT !.todo = Tail(@)])
  /\ UNCHANGED <<db, test, budget, saved, orphan>>

Expecting(p, tables, Rows(_)) ==
  [t \in DOMAIN prog[p].expect \cup tables |-> IF t \in tables THEN Rows(t) ELSE prog[p].expect[t]]

\* the file a command writes
Product(p, c) ==
  CASE c.cmd = "zap" ->
         [name |-> FileName(c.pri, "ZAP", "sql"),
          file |-> ZapFile(FlattenSeq([i \in DOMAIN c.tables |->
                     IF c.tables[i] = "*" THEN TableNames ELSE <<c.tables[i]>>]))]
    [] OTHER ->
         [name |-> FileName(c.pri, c.table, IF c.cmd = "export" THEN "sql" ELSE "cql"),
          file |-> RowsFile(c.table, GetSchemaData(c.table, db[c.table], c.where, prog[p].rules))]

\* the rows an export is meant to bring back
Kept(table, rows, where, rules) ==
  LET Chosen(row) == where = NULL \/ row[where.column] = where.value
      AsExported(row) == [c \in Names |-> IF Skipped(rules, table, c) THEN NULL
                                         ELSE Exported(rules, table, c, row[c])]
  IN BagOfAll(AsExported, [r \in {x \in DOMAIN rows : Chosen(x)} |-> rows[r]])

Expected(p, c, product) ==
  CASE c.cmd = "zap" -> Expecting(p, ToSet(product.file.text) \cap Tables, LAMBDA t : EmptyBag)
    [] c.cmd = "export" /\ c.pri > 0 ->
         Expecting(p, {c.table}, LAMBDA t : Kept(t, db[t], c.where, prog[p].rules))
    [] OTHER -> prog[p].expect

\* a dry run writes its .cql all the same
Writes(p, product) == ~prog[p].dry \/ product.name.ext = "cql"

Export(p) ==
  /\ At(p, "export") /\ prog[p].cmds # <<>>
  /\ LET c == Head(prog[p].cmds)
         product == Product(p, c)
     IN /\ files' = IF Writes(p, product) THEN Written(product.name, product.file) ELSE files
        /\ Goes(p, [prog[p] EXCEPT !.cmds = Tail(@), !.expect = Expected(p, c, product)])
  /\ UNCHANGED <<db, test, budget, saved, orphan>>

PullEnds(p) ==
  /\ At(p, "export") /\ prog[p].cmds = <<>>
  /\ saved' = IF prog[p].alone /\ ~prog[p].dry
              THEN [rows |-> prog[p].expect, rules |-> prog[p].rules] ELSE saved
  /\ Goes(p, [Idle EXCEPT !.pc = "pulled"])
  /\ UNCHANGED <<db, test, files, budget, orphan>>

(* do_dpush: the files are listed once and applied in order.  Without DATA   *)
(* the files beside it are, of which data-export.txt is no SQL.              *)
List(p) ==
  /\ At(p, "list")
  /\ IF files = NULL
     THEN IF prog[p].dry THEN Goes(p, [Idle EXCEPT !.pc = "pulled"]) ELSE Fails(p)
     ELSE Goes(p, [prog[p] EXCEPT !.pc = "apply", !.todo = Sorted(DOMAIN files)])
  /\ UNCHANGED <<db, test, files, budget, saved, orphan>>

ApplyFile(p) ==
  /\ At(p, "apply") /\ prog[p].todo # <<>>
  /\ LET name == Head(prog[p].todo)
         put == IF prog[p].dry THEN <<>> ELSE PutSchemaData(ApplyTo(name), files[name])
     IN IF name \in DOMAIN files
        THEN Goes(p, [prog[p] EXCEPT !.todo = Tail(@), !.stmts = put,
                                     !.pc = IF put = <<>> THEN "apply" ELSE "execute"])
        ELSE Fails(p)
  /\ UNCHANGED <<db, test, files, budget, saved, orphan>>

PushEnds(p) ==
  /\ At(p, "apply") /\ prog[p].todo = <<>>
  /\ Goes(p, IF prog[p].dry THEN [Idle EXCEPT !.pc = "pulled"]
             ELSE [Idle EXCEPT !.pc = "pushed", !.alone = prog[p].alone])
  /\ UNCHANGED <<db, test, files, budget, saved, orphan>>

Execute(p) ==
  /\ At(p, "execute")
  /\ LET s == Head(prog[p].stmts)
     IN IF s = Bad \/ s.table \notin Tables
        THEN Fails(p) /\ UNCHANGED db
        ELSE /\ db' = [db EXCEPT ![s.table] = IF s.kind = "delete" THEN EmptyBag
                                              ELSE @ (+) SetToBag({s.row})]
             /\ Goes(p, [prog[p] EXCEPT !.stmts = Tail(@),
                           !.pc = IF Len(prog[p].stmts) = 1 THEN "apply" ELSE "execute"])
  /\ UNCHANGED <<test, files, budget, saved, orphan>>

(* FixSchemaData: the files are read and written again, one after another,   *)
(* with the rules data-export.txt has now.                                   *)

\* the rows that files are meant to bring back once the rules they were
\* exported under were applied to them: values a rule put in for one table's
\* field are in lower case then
Refixed(kept) ==
  LET AsFixed(t, row) == [c \in Names |->
        IF <<t, c>> \in DOMAIN kept.rules.replaces /\ row[c] # NULL THEN Lower(row[c]) ELSE row[c]]
  IN [kept EXCEPT !.rows = [t \in DOMAIN @ |-> BagOfAll(LAMBDA row : AsFixed(t, row), @[t])]]

ListToFix(p) ==
  \E export \in budget.exports :
    /\ At(p, "listtofix")
    /\ IF files = NULL
       THEN Goes(p, [Idle EXCEPT !.pc = "pulled"]) /\ UNCHANGED saved
       ELSE /\ saved' = NULL
            /\ Goes(p, [prog[p] EXCEPT !.pc = "fix", !.rules = export.rules,
                          !.todo = Sorted(DOMAIN files),
                          !.expect = IF saved # NULL /\ saved.rules = export.rules
                                     THEN Refixed(saved) ELSE NULL])
    /\ UNCHANGED <<db, test, files, budget, orphan>>

FixFile(p) ==
  /\ At(p, "fix") /\ prog[p].todo # <<>>
  /\ LET name == Head(prog[p].todo)
     IN IF name \in DOMAIN files /\ ~FixThrows(prog[p].rules, files[name])
        THEN /\ files' = [files EXCEPT ![name] = Fixed(prog[p].rules, @)]
             /\ Goes(p, [prog[p] EXCEPT !.todo = Tail(@)])
        ELSE Fails(p) /\ UNCHANGED files
  /\ UNCHANGED <<db, test, budget, saved, orphan>>

FixEnds(p) ==
  /\ At(p, "fix") /\ prog[p].todo = <<>>
  /\ saved' = IF prog[p].alone THEN prog[p].expect ELSE saved
  /\ Goes(p, [Idle EXCEPT !.pc = "pulled"])
  /\ UNCHANGED <<db, test, files, budget, orphan>>

-----------------------------------------------------------------------------
(* What goes wrong.                                                          *)

\* a file that was being written is cut short, if it was begun at all
FileLeft(p) ==
  \/ UNCHANGED files
  \/ /\ At(p, "export") /\ prog[p].cmds # <<>>
     /\ LET product == Product(p, Head(prog[p].cmds))
        IN Writes(p, product) /\ \E file \in CutShort(product.file) :
             files' = Written(product.name, file)
  \/ /\ At(p, "fix") /\ prog[p].todo # <<>> /\ Head(prog[p].todo) \in DOMAIN files
     /\ ~FixThrows(prog[p].rules, files[Head(prog[p].todo)])
     /\ \E file \in CutShort(Fixed(prog[p].rules, files[Head(prog[p].todo)])) :
          files' = [files EXCEPT ![Head(prog[p].todo)] = file]

\* the server refuses a statement, or is gone; "create" and "commands" are
\* GetChecksums here, before the self-test and after it
Refused(p) ==
  /\ Fault
  /\ prog[p].pc \in {"create", "commands", "export", "execute"}
  /\ Fails(p)
  /\ IF At(p, "export") /\ prog[p].cmds # <<>> /\ Head(prog[p].cmds).cmd = "export-nosort"
     THEN FileLeft(p) ELSE UNCHANGED files
  /\ UNCHANGED <<db, test, saved, orphan>>

Kill(p) ==
  /\ Fault
  /\ prog[p].pc \notin Ended
  /\ Goes(p, Idle)
  /\ FileLeft(p)
  /\ orphan' = (orphan \/ (test /\ prog[p].pc \in {"sum", "drop"}))
  /\ UNCHANGED <<db, test, saved>>

\* an application puts other rows into a table
Change(t, rows) ==
  /\ db[t] # rows /\ budget.changes > 0
  /\ budget' = [budget EXCEPT !.changes = @ - 1]
  /\ db' = [db EXCEPT ![t] = rows]
  /\ prog' = [p \in Programs |->
       IF At(p, "pushed") THEN Idle
       ELSE IF prog[p].pc \in {"list", "apply", "execute"} THEN [prog[p] EXCEPT !.alone = FALSE]
       ELSE prog[p]]
  /\ UNCHANGED <<test, files, saved, orphan>>

Next ==
  \/ \E p \in Programs, op \in Operations : Start(p, op)
  \/ \E p \in Programs :
       \/ CreateTest(p) \/ SelfTest(p) \/ DropTest(p)
       \/ CreateTestFails(p) \/ DropTestFails(p)
       \/ ReadCommands(p) \/ Clean(p) \/ Export(p) \/ PullEnds(p)
       \/ List(p) \/ ApplyFile(p) \/ Execute(p) \/ PushEnds(p)
       \/ ListToFix(p) \/ FixFile(p) \/ FixEnds(p)
       \/ Refused(p) \/ Kill(p)
  \/ \E t \in Tables, rows \in Contents : Change(t, rows)

Spec == Init /\ [][Next]_vars

-----------------------------------------------------------------------------
(* Properties.                                                               *)

TypeOK ==
  /\ \A t \in Tables : IsABag(db[t])
  /\ test \in BOOLEAN /\ orphan \in BOOLEAN
  /\ files = NULL \/ \A n \in DOMAIN files : n.pri \in Nat /\ n.ext \in {"sql", "cql"}
  /\ saved = NULL \/ DOMAIN saved.rows \subseteq Tables

\* what the INSERTs of rows put into a table: every apostrophe is there twice
AsInserted(rows) == BagOfAll(LAMBDA row : [c \in Names |-> Doubled(row[c])], rows)

\* a table with a .cql file is not brought back (Overwritten, ApplyTo)
BroughtBack(t) == \A n \in DOMAIN files : n.ext = "cql" => n.table # t

(* A push that ends without an error makes of every table what the last      *)
(* whole export of it had - its rows, as selected and with the rules applied,*)
(* but their apostrophes doubled (FillsGivenTable) - or empties it if so     *)
(* commanded, and whatever pulls and pushes were cut short, refused or run   *)
(* at once before: do_dpush undoes what PutSchemaData left half done, and    *)
(* do_dpull what it left of files.  After dfix with the same rules, if it    *)
(* ended, it does so too, only that what rules put in for a field of that    *)
(* table is in lower case (Refixed).  Tables with a .cql file are not among  *)
(* them, nor exports of one column that is NULL, nor texts with empty lines  *)
(* once dfix was run.                                                        *)
PushRestores ==
  \A p \in Programs : At(p, "pushed") /\ prog[p].alone /\ saved # NULL =>
    \A t \in DOMAIN saved.rows : BroughtBack(t) => db[t] = AsInserted(saved.rows[t])

(* What GetSchemaData returns "can be used with PutSchemaData to fill the    *)
(* given table", with the rows it had.  It holds of rows without             *)
(* apostrophes: WvCsv.GetCsvLine doubles one for SQL (wvcsv.cs:80), and      *)
(* Csv2Inserts doubles each of the two (vxdbschema.cs:1845).                 *)
FillsGivenTable ==
  \A p \in Programs : At(p, "pushed") /\ prog[p].alone /\ saved # NULL =>
    \A t \in DOMAIN saved.rows : BroughtBack(t) => db[t] = saved.rows[t]

(* The procedure of the self-test is never left behind but by a program that *)
(* is killed within it, or whose drop the server does not carry out - the    *)
(* program does not go on then - and goes with the next self-test that runs  *)
(* alone and can drop it, although that one fails for it: GetChecksums drops *)
(* what it did not create, and whichever of its other statements failed.     *)
SelfTestCleansUp ==
  /\ test => orphan \/ \E p \in Programs : prog[p].pc \in {"sum", "drop"}
  /\ \A p \in Programs :
       prog[p].alone /\ (At(p, "commands") \/ (At(p, "failed") /\ prog[p].failing)) => ~test
=============================================================================
