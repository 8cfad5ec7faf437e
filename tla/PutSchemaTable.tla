--------------------------- MODULE PutSchemaTable ---------------------------
(***************************************************************************)
(* How VxDbSchema changes one table of the database to a wanted definition  *)
(* (vxdbschema.cs: Put, PutSchemaTables, PutSchemaTable).                   *)
(*                                                                          *)
(* The change is many SQL statements.  Some run outside the transaction,    *)
(* because of what the server allows, and the code undoes them by hand;     *)
(* each column change is first tried in a transaction that is rolled back.  *)
(* Any statement may fail, the server may or may not roll the transaction   *)
(* back by itself, and the daemon may die between any two statements.       *)
(***************************************************************************)
EXTENDS Naturals, Sequences, Functions

CONSTANTS
  Columns, Indexes,  \* names in the table
  Plans,             \* the situations to start from, a subset of Plan
  MaxFails,          \* how many statements fail for no reason of their own
  MaxRuns            \* how often the table is put

\* A column's definition; an index or primary key covers one column.
ColumnDef == [type : {"narrow", "wide"}, null : BOOLEAN, default : BOOLEAN]
Schema == [cols : UNION {[C -> ColumnDef] : C \in SUBSET Columns},
           idx : UNION {[I -> Columns] : I \in SUBSET Indexes}]

\* The table's definition now and as it is wanted, whether it has rows,
\* whether its nullable columns hold nulls, whether the data of a column fits
\* another type, and Put's Destructive option.
Plan == [old : Schema, new : Schema, rows : BOOLEAN, nulls : BOOLEAN,
         convertible : BOOLEAN, destructive : BOOLEAN]

ASSUME PlansAssumption == Plans \subseteq Plan
ASSUME BoundsAssumption == MaxFails \in Nat /\ MaxRuns \in Nat \ {0}

VARIABLES
  plan,
  table,     \* the table, as this connection sees it
  saved,     \* <<the table when the transaction began>>, <<>> outside one
  pc,
  curtable,  \* what Get found when the run began
  todo,      \* what the current loop has still to handle
  cur,       \* the column whose trial is under way
  script,    \* the statements that are left for the current element
  ErrWhenAltering, added_columns, deleted_indexes,
  errs,      \* {}, or what the run has reported: "error", "warning"
  fails,     \* spurious failures left
  failed,    \* history: a statement of this run failed spuriously
  undone,    \* history: all statements of the undoing worked
  runs

loopvars == <<todo, cur, script>>
foundvars == <<curtable, ErrWhenAltering>>
undovars == <<added_columns, deleted_indexes>>
histvars == <<failed, fails, undone>>
vars == <<plan, table, saved, pc, loopvars, foundvars, undovars, errs,
          histvars, runs>>

-----------------------------------------------------------------------------
(* The server: tables, and what a statement does to one.                    *)

Without(f, x) == Restrict(f, DOMAIN f \ {x})
With(f, x, y) == [z \in DOMAIN f \cup {x} |-> IF z = x THEN y ELSE f[z]]

Def(col) == [type |-> col.type, null |-> col.null, default |-> col.default]
SchemaOf(t) == [cols |-> [c \in DOMAIN t.cols |-> Def(t.cols[c])],
                idx |-> t.idx]

\* A column's rows hold what they held at first, nulls, or other values.
Col(def, data) == [type |-> def.type, null |-> def.null,
                   default |-> def.default, data |-> data]
TableOf(schema, data, rows) ==
  [cols |-> [c \in DOMAIN schema.cols |-> Col(schema.cols[c], data)],
   idx |-> schema.idx, rows |-> rows]
NoTable == [cols |-> <<>>, idx |-> <<>>, rows |-> FALSE]

HasNulls(t, c) ==
  /\ t.rows
  /\ t.cols[c].data = "null" \/ (t.cols[c].data = "orig" /\ plan.nulls)

Stmt(op, name, arg) == [op |-> op, name |-> name, arg |-> arg]
NoArg == "none"

Is(s, op, names) == s.op = op /\ s.name \in names

\* An index keeps its column from being changed, a default constraint too.
Free(t, c) == t.cols[c].default = FALSE /\ \A i \in DOMAIN t.idx : t.idx[i] # c

AddLacksValue(t, s) ==
  s.op = "add" /\ t.rows /\ ~s.arg.null /\ ~s.arg.default
AlterMeetsNull(t, s) ==
  /\ Is(s, "alter", DOMAIN t.cols)
  /\ Free(t, s.name)
  /\ ~s.arg.null /\ HasNulls(t, s.name)

Works(t, s) ==
  \/ Is(s, "dropindex", DOMAIN t.idx)
  \/ /\ Is(s, "addindex", Indexes \ DOMAIN t.idx)
     /\ s.arg \in DOMAIN t.cols
  \/ /\ Is(s, "add", Columns \ DOMAIN t.cols)
     /\ ~AddLacksValue(t, s)
  \/ /\ Is(s, "alter", DOMAIN t.cols)
     /\ Free(t, s.name) /\ ~AlterMeetsNull(t, s)
     /\ t.cols[s.name].type = s.arg.type \/ plan.convertible
  \/ /\ Is(s, "drop", DOMAIN t.cols)
     /\ Free(t, s.name) /\ DOMAIN t.cols # {s.name}
  \/ Is(s, "dropdefault", {c \in DOMAIN t.cols : t.cols[c].default})
  \/ Is(s, "adddefault", {c \in DOMAIN t.cols : ~t.cols[c].default})

\* SqlException.Number, as far as the code looks at it.
Number(t, s) == CASE AddLacksValue(t, s) -> "4901"
                  [] AlterMeetsNull(t, s) -> "515"
                  [] OTHER -> "other"

\* A column that is added is null in every row if it may be.
Added(t, def) == Col(def, IF t.rows /\ def.null THEN "null" ELSE "filled")
Altered(col, def) == [col EXCEPT !.type = def.type, !.null = def.null]

After(t, s) ==
  CASE s.op = "dropindex" -> [t EXCEPT !.idx = Without(@, s.name)]
    [] s.op = "addindex" -> [t EXCEPT !.idx = With(@, s.name, s.arg)]
    [] s.op = "add" -> [t EXCEPT !.cols = With(@, s.name, Added(t, s.arg))]
    [] s.op = "alter" -> [t EXCEPT !.cols[s.name] = Altered(@, s.arg)]
    [] s.op = "drop" -> [t EXCEPT !.cols = Without(@, s.name)]
    [] s.op = "dropdefault" -> [t EXCEPT !.cols[s.name].default = FALSE]
    [] s.op = "adddefault" -> [t EXCEPT !.cols[s.name].default = TRUE]

InTransaction == saved # <<>>
Committed == IF InTransaction THEN saved[1] ELSE table

(* dbi.execute.  A failing statement changes nothing, but the server may    *)
(* roll the whole transaction back.                                         *)
Succeeds(s) ==
  /\ Works(table, s)
  /\ table' = After(table, s)
  /\ UNCHANGED <<saved, fails, failed>>

Aborts ==
  \/ UNCHANGED <<table, saved>>
  \/ InTransaction /\ table' = saved[1] /\ saved' = <<>>

FailsSpuriously ==
  fails > 0 /\ fails' = fails - 1 /\ failed' = TRUE

FailsWith(s, number) ==
  /\ Aborts
  /\ \/ ~Works(table, s) /\ number = Number(table, s)
          /\ UNCHANGED <<fails, failed>>
     \/ Works(table, s) /\ number = "other" /\ FailsSpuriously

-----------------------------------------------------------------------------
(* What has changed, and the statements for it.                             *)

Old == SchemaOf(curtable)
New == plan.new

coladd == DOMAIN New.cols \ DOMAIN Old.cols
coldel == DOMAIN Old.cols \ DOMAIN New.cols
colchanged == {c \in DOMAIN Old.cols \cap DOMAIN New.cols :
                 Old.cols[c] # New.cols[c]}
otherdel == {i \in DOMAIN Old.idx :
               i \notin DOMAIN New.idx \/ Old.idx[i] # New.idx[i]}
otheradd == {i \in DOMAIN New.idx :
               i \notin DOMAIN Old.idx \/ Old.idx[i] # New.idx[i]}

Nullable(def) == [def EXCEPT !.null = TRUE]

If(condition, s) == IF condition THEN <<s>> ELSE <<>>

DropTableColumn(c, def) ==
  If(def.default, Stmt("dropdefault", c, NoArg)) \o <<Stmt("drop", c, NoArg)>>

\* ApplyChangedColumn, knowing the error that altering is expected to meet.
ApplyChangedColumn(c, expected_err, destructive) ==
  LET old == Old.cols[c]
      new == New.cols[c]
      before == If(old.default, Stmt("dropdefault", c, NoArg))
      after == If(new.default, Stmt("adddefault", c, NoArg))
  IN CASE expected_err = "none" ->
            before \o <<Stmt("alter", c, new)>> \o after
       [] expected_err # "none" /\ destructive ->
            before \o <<Stmt("drop", c, NoArg), Stmt("add", c, new)>>
       [] expected_err = "515" /\ ~destructive ->
            before \o <<Stmt("alter", c, Nullable(new))>> \o after
       [] OTHER -> before \o <<Stmt("giveup", c, NoArg)>>

\* The loops inside the transaction, in their order, and after it failed.
Work(phase) ==
  CASE phase = "dropindex" -> otherdel
    [] phase = "trial" -> colchanged
    [] phase = "add" -> coladd
    [] phase = "delete" -> coldel
    [] phase = "change" -> colchanged
    [] phase = "addindex" -> otheradd
    [] phase = "unadd" -> added_columns
    [] phase = "reindex" -> deleted_indexes

ScriptFor(phase, x) ==
  CASE phase = "dropindex" -> <<Stmt("dropindex", x, NoArg)>>
    [] phase = "add" -> <<Stmt("add", x, New.cols[x])>>
    [] phase = "delete" -> DropTableColumn(x, Old.cols[x])
    [] phase = "change" ->
         ApplyChangedColumn(x, ErrWhenAltering[x], plan.destructive)
    [] phase = "addindex" -> <<Stmt("addindex", x, New.idx[x])>>
    [] phase = "unadd" -> DropTableColumn(x, New.cols[x])
    [] phase = "reindex" -> <<Stmt("addindex", x, Old.idx[x])>>

Loops == {"dropindex", "add", "delete", "change", "addindex", "unadd",
          "reindex"}
Following == [dropindex |-> "trial", trial |-> "add", add |-> "begin",
              delete |-> "change", change |-> "addindex",
              addindex |-> "commit", unadd |-> "reindex", reindex |-> "end"]

-----------------------------------------------------------------------------
Init ==
  /\ plan \in Plans
  /\ table = TableOf(plan.old, "orig", plan.rows)
  /\ saved = <<>>
  /\ pc = "get"
  /\ curtable = table
  /\ todo = {} /\ cur = NoArg /\ script = <<>>
  /\ ErrWhenAltering = <<>>
  /\ added_columns = {} /\ deleted_indexes = {}
  /\ errs = {}
  /\ fails = MaxFails /\ failed = FALSE /\ undone = TRUE
  /\ runs = 1

Goto(phase) ==
  /\ pc' = phase
  /\ todo' = IF phase \in Loops \cup {"trial"} THEN Work(phase) ELSE {}
  /\ script' = <<>>
  /\ cur' = NoArg

Quit == Goto("end") /\ errs' = errs \cup {"error"}

\* PutSchemaTables asks the database for its tables.
Get ==
  /\ pc = "get"
  /\ pc' = "start"
  /\ curtable' = table
  /\ ErrWhenAltering' = <<>>
  /\ added_columns' = {} /\ deleted_indexes' = {}
  /\ UNCHANGED <<plan, table, saved, loopvars, errs, histvars, runs>>

\* Mutant: columns are dropped whatever the options.
StartUnchecked ==
  /\ pc = "start"
  /\ Goto(IF curtable = NoTable THEN "dropall" ELSE "dropindex")
  /\ UNCHANGED <<plan, table, saved, foundvars, undovars, errs, histvars, runs>>

\* A new table is created; an old one is changed, unless that would drop
\* columns and may not.
Start ==
  /\ pc = "start"
  /\ \/ curtable = NoTable /\ Goto("dropall") /\ UNCHANGED errs
     \/ /\ curtable # NoTable /\ ~plan.destructive /\ coldel # {}
        /\ Quit
     \/ /\ curtable # NoTable /\ (plan.destructive \/ coldel = {})
        /\ Goto("dropindex")
        /\ UNCHANGED errs
  /\ UNCHANGED <<plan, table, saved, foundvars, undovars, histvars, runs>>

\* A loop turns to its next element, or ends.
NextElement ==
  /\ pc \in Loops /\ script = <<>>
  /\ \E x \in todo : script' = ScriptFor(pc, x) /\ todo' = todo \ {x}
  /\ UNCHANGED <<plan, table, saved, pc, cur, foundvars, undovars, errs,
                 histvars, runs>>

NextPhase ==
  /\ pc \in Loops \cup {"trial"} /\ script = <<>> /\ todo = {}
  /\ Goto(Following[pc])
  /\ UNCHANGED <<plan, table, saved, foundvars, undovars, errs, histvars,
                 runs>>

(* Before the transaction.                                                  *)

DropIndex ==
  /\ pc = "dropindex" /\ script # <<>>
  /\ \/ /\ Succeeds(Head(script))
        /\ deleted_indexes' = deleted_indexes \cup {Head(script).name}
        /\ script' = Tail(script)
        /\ UNCHANGED <<pc, todo, cur, errs>>
     \/ /\ \E number \in {"4901", "515", "other"} :
             FailsWith(Head(script), number)
        /\ Quit
        /\ UNCHANGED deleted_indexes
  /\ UNCHANGED <<plan, foundvars, added_columns, undone, runs>>

BeginTrial ==
  /\ pc = "trial"
  /\ \/ /\ \E c \in todo :
             /\ cur' = c
             /\ todo' = todo \ {c}
             /\ script' = ApplyChangedColumn(c, "none", FALSE)
        /\ saved' = <<table>>
        /\ pc' = "trying"
        /\ UNCHANGED <<fails, failed, errs>>
     \/ todo # {} /\ FailsSpuriously /\ Quit /\ UNCHANGED saved
  /\ UNCHANGED <<plan, table, foundvars, undovars, undone, runs>>

TryStatement ==
  /\ pc = "trying" /\ script # <<>>
  /\ \/ Succeeds(Head(script)) /\ script' = Tail(script)
          /\ UNCHANGED ErrWhenAltering
     \/ \E number \in {"4901", "515", "other"} :
          /\ FailsWith(Head(script), number)
          /\ ErrWhenAltering' = With(ErrWhenAltering, cur, number)
          /\ script' = <<>>
  /\ UNCHANGED <<plan, pc, todo, cur, curtable, undovars, errs, undone, runs>>

\* ROLLBACK, and error 3903 (nothing to roll back) is eaten.
RolledBack == table' = Committed /\ saved' = <<>>

\* Mutant: a trial that worked is kept.
EndTrialKeeping ==
  /\ pc = "trying" /\ script = <<>>
  /\ ErrWhenAltering' = IF cur \in DOMAIN ErrWhenAltering THEN ErrWhenAltering
                        ELSE With(ErrWhenAltering, cur, "none")
  /\ saved' = <<>>
  /\ pc' = "trial" /\ cur' = NoArg
  /\ UNCHANGED <<plan, table, todo, script, curtable, undovars, errs, histvars,
                 runs>>

EndTrial ==
  /\ pc = "trying" /\ script = <<>>
  /\ ErrWhenAltering' = IF cur \in DOMAIN ErrWhenAltering THEN ErrWhenAltering
                        ELSE With(ErrWhenAltering, cur, "none")
  /\ RolledBack
  /\ pc' = "trial" /\ cur' = NoArg
  /\ UNCHANGED <<plan, todo, script, curtable, undovars, errs, histvars, runs>>

\* Error 4901, unless Destructive: the column is added without its NOT NULL.
AddColumn ==
  /\ pc = "add" /\ script # <<>>
  /\ LET s == Head(script) IN
     \/ /\ Succeeds(s)
        /\ added_columns' = added_columns \cup {s.name}
        /\ script' = Tail(script)
        /\ UNCHANGED <<pc, todo, cur, errs>>
     \/ /\ FailsWith(s, "4901") /\ ~plan.destructive
        /\ script' = <<Stmt("add", s.name, Nullable(s.arg))>>
        /\ UNCHANGED <<pc, todo, cur, errs, added_columns>>
     \/ /\ \/ FailsWith(s, "4901") /\ plan.destructive
           \/ FailsWith(s, "other")
        /\ Quit
        /\ UNCHANGED added_columns
  /\ UNCHANGED <<plan, foundvars, deleted_indexes, undone, runs>>

(* The transaction.                                                         *)

Begin ==
  /\ pc = "begin"
  /\ \/ saved' = <<table>> /\ Goto("delete") /\ UNCHANGED <<errs, fails, failed>>
     \/ /\ FailsSpuriously
        /\ Goto("rollback")
        /\ errs' = errs \cup {"error"}
        /\ UNCHANGED saved
  /\ UNCHANGED <<plan, table, foundvars, undovars, undone, runs>>

Update ==
  /\ pc \in {"delete", "change", "addindex"} /\ script # <<>>
  /\ \/ /\ Succeeds(Head(script))
        /\ script' = Tail(script)
        /\ UNCHANGED <<pc, todo, cur, errs>>
     \/ /\ \E number \in {"4901", "515", "other"} :
             FailsWith(Head(script), number)
        /\ Head(script).op # "giveup"
        /\ Goto("rollback")
        /\ errs' = errs \cup {"error"}
  /\ UNCHANGED <<plan, foundvars, undovars, undone, runs>>

\* The change would need the column to be dropped, and may not.
GiveUp ==
  /\ pc = "change" /\ script # <<>> /\ Head(script).op = "giveup"
  /\ Goto("rollback")
  /\ errs' = errs \cup {"error"}
  /\ UNCHANGED <<plan, table, saved, foundvars, undovars, histvars, runs>>

Commit ==
  /\ pc = "commit"
  /\ \/ saved' = <<>> /\ Goto("nulls") /\ UNCHANGED <<table, errs, fails, failed>>
     \/ /\ FailsSpuriously /\ Aborts
        /\ Goto("rollback")
        /\ errs' = errs \cup {"error"}
  /\ UNCHANGED <<plan, foundvars, undovars, undone, runs>>

\* Mutant: the server is left to roll back.
RollbackForgotten ==
  /\ pc = "rollback"
  /\ Goto("unadd")
  /\ UNCHANGED <<plan, table, saved, foundvars, undovars, errs, histvars, runs>>

\* Mutant: the columns that were added stay.
RollbackOnly ==
  /\ pc = "rollback"
  /\ RolledBack
  /\ Goto("reindex")
  /\ UNCHANGED <<plan, foundvars, undovars, errs, histvars, runs>>

\* The finally block.
Rollback ==
  /\ pc = "rollback"
  /\ RolledBack
  /\ Goto("unadd")
  /\ UNCHANGED <<plan, foundvars, undovars, errs, histvars, runs>>

\* An error is logged for a column, reported for an index.
Undo ==
  /\ pc \in {"unadd", "reindex"} /\ script # <<>>
  /\ \/ /\ Succeeds(Head(script))
        /\ script' = Tail(script)
        /\ UNCHANGED <<errs, undone>>
     \/ /\ \E number \in {"4901", "515", "other"} :
             FailsWith(Head(script), number)
        /\ script' = <<>>
        /\ undone' = FALSE
        /\ errs' = IF pc = "reindex" THEN errs \cup {"error"} ELSE errs
  /\ UNCHANGED <<plan, pc, todo, cur, foundvars, undovars, runs>>

\* Mutant: the check is left out.
CheckNothing ==
  /\ pc = "nulls"
  /\ Goto("end")
  /\ UNCHANGED <<plan, table, saved, foundvars, undovars, errs, histvars, runs>>

\* Columns that were wanted NOT NULL and yet have nulls.
CheckNulls ==
  /\ pc = "nulls"
  /\ \/ /\ errs' = IF \E c \in DOMAIN New.cols :
                        ~New.cols[c].null /\ HasNulls(table, c)
                   THEN {"warning"} ELSE {}
        /\ UNCHANGED <<fails, failed>>
     \/ FailsSpuriously /\ errs' = {"warning"}
  /\ Goto("end")
  /\ UNCHANGED <<plan, table, saved, foundvars, undovars, undone, runs>>

(* PutSchemaTables when PutSchemaTable has returned, and PutSchemaElement.   *)

\* Mutant: Destructive makes no difference after an error.
EndAsIs ==
  /\ pc = "end"
  /\ Goto("done")
  /\ UNCHANGED <<plan, table, saved, foundvars, undovars, errs, histvars, runs>>

End ==
  /\ pc = "end"
  /\ IF plan.destructive /\ errs # {}
     THEN Goto("dropall") /\ errs' = {}
     ELSE Goto("done") /\ UNCHANGED errs
  /\ UNCHANGED <<plan, table, saved, foundvars, undovars, histvars, runs>>

\* Errors from DropSchema are not looked at.
DropAll ==
  /\ pc = "dropall"
  /\ Goto("create")
  /\ \/ /\ table' = IF plan.destructive THEN NoTable ELSE table
        /\ UNCHANGED <<fails, failed>>
     \/ plan.destructive /\ FailsSpuriously /\ UNCHANGED table
  /\ UNCHANGED <<plan, saved, foundvars, undovars, errs, undone, runs>>

\* One batch makes the table and then its indexes; it may fail in between.
Create ==
  /\ pc = "create"
  /\ Goto("done")
  /\ \/ /\ table = NoTable
        /\ table' = TableOf(New, "filled", FALSE)
        /\ UNCHANGED <<errs, fails, failed>>
     \/ /\ table = NoTable /\ FailsSpuriously
        /\ \/ UNCHANGED table
           \/ \E I \in SUBSET DOMAIN New.idx :
                table' = [TableOf(New, "filled", FALSE)
                            EXCEPT !.idx = Restrict(@, I)]
        /\ errs' = {"error"}
     \/ /\ table # NoTable
        /\ errs' = {"error"}
        /\ UNCHANGED <<table, fails, failed>>
  /\ UNCHANGED <<plan, saved, foundvars, undovars, undone, runs>>

\* The daemon or its connection dies; the server rolls back.
Crash ==
  /\ pc \notin {"get", "done", "crashed"}
  /\ RolledBack
  /\ Goto("crashed")
  /\ UNCHANGED <<plan, foundvars, undovars, errs, histvars, runs>>

\* Put tries again, or a later CopySchema does.
Again ==
  /\ pc \in {"done", "crashed"} /\ runs < MaxRuns
  /\ runs' = runs + 1
  /\ Goto("get")
  /\ errs' = {} /\ failed' = FALSE /\ undone' = TRUE
  /\ UNCHANGED <<plan, table, saved, foundvars, undovars, fails>>

\* The caller does not try again.
Finished == pc \in {"done", "crashed"} /\ runs = MaxRuns /\ UNCHANGED vars

Next ==
  \/ Get \/ Start \/ NextElement \/ NextPhase
  \/ DropIndex \/ BeginTrial \/ TryStatement \/ EndTrial \/ AddColumn
  \/ Begin \/ Update \/ GiveUp \/ Commit \/ Rollback \/ Undo \/ CheckNulls
  \/ End \/ DropAll \/ Create \/ Crash \/ Again \/ Finished

Spec == Init /\ [][Next]_vars

-----------------------------------------------------------------------------
(* Properties.                                                              *)

Data == {"orig", "null", "filled"}
Tables ==
  [cols : UNION {[C -> [type : {"narrow", "wide"}, null : BOOLEAN,
                        default : BOOLEAN, data : Data]] :
                   C \in SUBSET Columns},
   idx : UNION {[I -> Columns] : I \in SUBSET Indexes},
   rows : BOOLEAN]

\* Every variable has its type, and a transaction is open exactly where the
\* code has begun one that neither it nor the server has ended.
TypeOK ==
  /\ plan \in Plans
  /\ table \in Tables /\ curtable \in Tables
  /\ saved = <<>> \/ saved[1] \in Tables
  /\ InTransaction => pc \in {"trying", "delete", "change", "addindex",
                              "commit", "rollback"}
  /\ todo \subseteq Columns \cup Indexes
  /\ pc = "trying" => cur \in colchanged
  /\ pc = "change" => DOMAIN ErrWhenAltering = colchanged
  /\ added_columns \subseteq Columns /\ deleted_indexes \subseteq Indexes
  /\ errs \subseteq {"error", "warning"}
  /\ fails \in 0..MaxFails /\ runs \in 1..MaxRuns

\* Without Destructive no statement, failure, undoing or crash ever costs a
\* column its data: at every moment what the server has committed holds every
\* original column with its original rows.
DataKept ==
  ~plan.destructive =>
    \A c \in DOMAIN plan.old.cols :
      c \in DOMAIN Committed.cols /\ Committed.cols[c].data = "orig"

\* A put that reports no error and no warning has made the table exactly what
\* was wanted, a relaxed NOT NULL included.
CleanMeansExact ==
  pc = "done" /\ errs = {} => SchemaOf(table) = plan.new

\* A put that fails inside the transaction, and whose undoing meets no
\* further failure, leaves the table, its indexes and its rows as they were.
FailureUndone ==
  pc = "reindex" /\ todo = {} /\ script = <<>> /\ undone => table = curtable

\* The trial runs change no column.
TrialsLeaveNoTrace ==
  /\ pc = "trial" => table.cols = curtable.cols
  /\ pc = "trying" => Committed.cols = curtable.cols

\* With Destructive and no failure but those that the table itself causes,
\* the wanted table is made: the comment in PutSchemaTables wants to be sure
\* the schema is updated exactly.
DestructiveIsExact ==
  pc = "done" /\ plan.destructive /\ ~failed =>
    errs = {} /\ SchemaOf(table) = plan.new

\* The comments on deleting indexes and on adding columns outside the
\* transaction: they are restored by hand if there is an error.
RestoredByHand ==
  pc = "done" /\ "error" \in errs /\ undone /\ ~plan.destructive =>
    SchemaOf(table) = SchemaOf(curtable)

(* Neither an error nor a trial leaves a trace that is not announced.        *)
FailuresLeaveNothing == FailureUndone /\ TrialsLeaveNoTrace
=============================================================================
