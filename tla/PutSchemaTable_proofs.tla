------------------------ MODULE PutSchemaTable_proofs ------------------------
(***************************************************************************)
(* What holds of VxDbSchema's change of a table for every plan, any number  *)
(* of columns and indexes, failures and attempts.                           *)
(***************************************************************************)
EXTENDS PutSchemaTable, SequenceTheorems, TLAPS

-----------------------------------------------------------------------------
(* The invariants.                                                          *)

Early == {"start", "dropindex", "trial", "trying", "add", "begin"}
Inside == {"delete", "change", "addindex", "commit"}
Late == {"rollback", "unadd", "reindex", "nulls", "end", "dropall", "create",
         "done", "crashed"}

\* The element whose statements are running, and all that is still to do.
Busy == IF script = <<>> THEN {} ELSE {Head(script).name}
Left == todo \cup Busy

\* The statements that change column c to definition d.
Altering(c, d) ==
  LET change == Stmt("alter", c, d)
      after == Stmt("adddefault", c, NoArg)
  IN IF d.default THEN {<<change, after>>, <<after>>} ELSE {<<change>>}
Dropping(c) == {<<Stmt("drop", c, NoArg)>>}
Replacing(c, d) ==
  {<<Stmt("drop", c, NoArg), Stmt("add", c, d)>>, <<Stmt("add", c, d)>>}
GivingUp(c) == {<<Stmt("giveup", c, NoArg)>>}

\* The same, when the column's old default constraint is dropped before.
Undefault(c) == Stmt("dropdefault", c, NoArg)
Whole(s) == Head(s).op \in {"alter", "drop", "giveup"}
Undefaulting(c, scripts) ==
  scripts \cup {<<Undefault(c)>> \o s : s \in {r \in scripts : Whole(r)}}

\* What may be left of the change of column c.
Changing(c) ==
  Undefaulting(c,
    CASE ErrWhenAltering[c] = "none" -> Altering(c, New.cols[c])
      [] ErrWhenAltering[c] # "none" /\ plan.destructive ->
           Replacing(c, New.cols[c])
      [] ErrWhenAltering[c] = "515" /\ ~plan.destructive ->
           Altering(c, Nullable(New.cols[c]))
      [] OTHER -> GivingUp(c))

\* What may be left of the statements for x, in each loop.
DropIndexLeft(x) == {<<Stmt("dropindex", x, NoArg)>>}
TryingLeft(x) == Undefaulting(x, Altering(x, New.cols[x]))
AddLeft(x) == {<<Stmt("add", x, New.cols[x])>>,
               <<Stmt("add", x, Nullable(New.cols[x]))>>}
DeleteLeft(x) == Undefaulting(x, Dropping(x))
AddIndexLeft(x) == {<<Stmt("addindex", x, New.idx[x])>>}
ReindexLeft(x) == {<<Stmt("addindex", x, Old.idx[x])>>}

\* Where a run stands in its loops.
PlaceInv ==
  /\ pc \in Early \cup Inside \cup Late \cup {"get"}
  /\ pc \in Loops \cup {"trial"} => todo \subseteq Work(pc)
  /\ pc = "trying" => todo \subseteq colchanged /\ cur \in colchanged \ todo
  /\ pc \notin Loops \cup {"trial", "trying"} => todo = {}
  /\ pc \notin Loops \cup {"trying"} => script = <<>>
  /\ InTransaction => pc \in Inside \cup {"trying", "rollback"}
  /\ pc \in Inside => InTransaction

ScriptInv ==
  script # <<>> =>
    /\ pc = "dropindex" => \E x \in otherdel \ todo : script \in DropIndexLeft(x)
    /\ pc = "trying" => script \in TryingLeft(cur)
    /\ pc = "add" => \E x \in coladd \ todo : script \in AddLeft(x)
    /\ pc = "delete" => \E x \in coldel \ todo : script \in DeleteLeft(x)
    /\ pc = "change" => \E x \in colchanged \ todo : script \in Changing(x)
    /\ pc = "addindex" => \E x \in otheradd \ todo : script \in AddIndexLeft(x)
    /\ pc = "unadd" => \E x \in added_columns \ todo : script \in DeleteLeft(x)
    /\ pc = "reindex" => \E x \in deleted_indexes \ todo : script \in ReindexLeft(x)

\* What a run has noted.
NotesInv ==
  /\ added_columns \subseteq coladd
  /\ deleted_indexes \subseteq otherdel
  /\ DOMAIN ErrWhenAltering \subseteq colchanged
  /\ pc = "trial" => colchanged \ todo \subseteq DOMAIN ErrWhenAltering
  /\ pc = "trying" => colchanged \ (todo \cup {cur}) \subseteq DOMAIN ErrWhenAltering
  /\ pc \in {"add", "begin"} \cup Inside => DOMAIN ErrWhenAltering = colchanged
  /\ \A c \in DOMAIN ErrWhenAltering :
       ErrWhenAltering[c] \in {"none", "4901", "515", "other"}

ShapeInv ==
  /\ plan \in Plan
  /\ table \in Tables /\ curtable \in Tables
  /\ saved # <<>> => saved = <<saved[1]>> /\ saved[1] \in Tables
  /\ errs \subseteq {"error", "warning"}

\* The counters stay within their bounds.
CountsInv == plan \in Plans /\ fails \in 0..MaxFails /\ runs \in 1..MaxRuns

TypeInv == ShapeInv /\ PlaceInv /\ NotesInv /\ ScriptInv

\* The columns that were there have their rows, in every table the server
\* could come back to and in the one the run has read.
Holds(t) ==
  \A c \in DOMAIN plan.old.cols :
    c \in DOMAIN t.cols /\ t.cols[c].data = "orig"
DataInv ==
  ~plan.destructive =>
    /\ Holds(table) /\ Holds(curtable)
    /\ InTransaction => Holds(saved[1])
    /\ pc \in (Early \ {"start"}) \cup Inside => coldel = {}

\* An added column has its definition, or is null where it should not be.
Fit(t, c) ==
  /\ t.cols[c].type = New.cols[c].type
  /\ t.cols[c].default = New.cols[c].default
  /\ t.cols[c].null = New.cols[c].null \/ (~New.cols[c].null /\ HasNulls(t, c))

\* The table that was found, with the columns Add but without the indexes Del.
Found(t, Add, Del) ==
  /\ t.rows = curtable.rows
  /\ DOMAIN t.cols = DOMAIN curtable.cols \cup Add
  /\ \A c \in DOMAIN curtable.cols : t.cols[c] = curtable.cols[c]
  /\ DOMAIN t.idx = DOMAIN curtable.idx \ Del
  /\ \A i \in DOMAIN t.idx : t.idx[i] = curtable.idx[i]

\* What is committed while a run is under way, and what its undoing leaves.
UndoInv ==
  /\ pc \in Early \cup Inside \cup {"rollback"} =>
       Found(Committed, added_columns, deleted_indexes)
  /\ pc \in {"start", "dropindex", "trial", "trying"} => added_columns = {}
  /\ pc = "trying" /\ script # <<>> => InTransaction
  /\ pc = "unadd" /\ undone => Found(table, Left, deleted_indexes)
  /\ pc = "reindex" /\ undone => Found(table, {}, Left)

\* What the trials have found out.
NullsMet(c) == ~New.cols[c].null /\ HasNulls(curtable, c)
TrialInv ==
  /\ pc = "trying" =>
       /\ table.rows = curtable.rows
       /\ cur \in DOMAIN table.cols
       /\ table.cols[cur].data = curtable.cols[cur].data
  /\ \A c \in DOMAIN ErrWhenAltering :
       ErrWhenAltering[c] = "515" => NullsMet(c)

\* How far the loops have come.
Kept == DOMAIN curtable.cols \cap DOMAIN New.cols
AllFit(t, C) == C \subseteq DOMAIN t.cols /\ \A c \in C : Fit(t, c)
LoopsInv ==
  /\ pc = "start" => deleted_indexes = {}
  /\ pc = "dropindex" => deleted_indexes = otherdel \ Left
  /\ pc \in {"trial", "trying", "add", "begin"} \cup Inside =>
       deleted_indexes = otherdel
  /\ pc = "add" => added_columns = coladd \ Left /\ AllFit(table, added_columns)
  /\ pc = "add" /\ script # <<>> =>
       LET c == Head(script).name IN
       \/ Head(script).arg = New.cols[c]
       \/ ~New.cols[c].null /\ table.rows
  /\ pc \in {"begin", "delete"} => added_columns = coladd /\ AllFit(table, coladd)

\* Half-way through a column's change.
Midway(c) ==
  /\ script = <<Stmt("adddefault", c, NoArg)>> =>
       /\ c \in DOMAIN table.cols
       /\ New.cols[c].default
       /\ table.cols[c].type = New.cols[c].type
       /\ \/ table.cols[c].null = New.cols[c].null
          \/ ~New.cols[c].null /\ HasNulls(table, c)
  /\ Head(script).op \in {"alter", "dropdefault"} /\ ErrWhenAltering[c] = "515" /\ ~plan.destructive =>
       c \in DOMAIN table.cols /\ table.cols[c].data = curtable.cols[c].data

\* The table inside the transaction and after it.
ColumnsInv ==
  /\ pc \in Inside \cup {"nulls"} => table.rows = curtable.rows
  /\ pc = "delete" =>
       /\ DOMAIN table.cols = DOMAIN New.cols \cup Left
       /\ \A c \in Kept : table.cols[c] = curtable.cols[c]
  /\ pc = "change" =>
       /\ DOMAIN table.cols \subseteq DOMAIN New.cols
       /\ AllFit(table, DOMAIN New.cols \ Left)
       /\ \A c \in todo : c \in DOMAIN table.cols /\ table.cols[c] = curtable.cols[c]
       /\ script # <<>> => Midway(Head(script).name)
  /\ pc \in {"addindex", "commit", "nulls"} =>
       DOMAIN table.cols = DOMAIN New.cols /\ AllFit(table, DOMAIN New.cols)

Indexed(D, A) ==
  /\ DOMAIN table.idx = (DOMAIN curtable.idx \ D) \cup A
  /\ \A i \in DOMAIN table.idx :
       table.idx[i] = IF i \in A THEN New.idx[i] ELSE curtable.idx[i]
IndexesInv ==
  /\ pc \in {"delete", "change"} => Indexed(otherdel, {})
  /\ pc = "addindex" => Indexed(otherdel, otheradd \ Left)
  /\ pc \in {"commit", "nulls"} => table.idx = New.idx

\* What a run may report.
ReportInv ==
  /\ pc \in {"rollback", "unadd", "reindex"} => errs # {}
  /\ pc \in {"get", "start", "dropall", "create"} => errs = {}
  /\ pc \in {"end", "done"} /\ errs = {} => SchemaOf(table) = New
  /\ pc = "create" /\ plan.destructive /\ ~failed => table = NoTable
  /\ pc = "done" /\ plan.destructive /\ ~failed => errs = {}

CleanInv == LoopsInv /\ ColumnsInv /\ IndexesInv /\ ReportInv
-----------------------------------------------------------------------------
(* Sequences of statements, and the types.                                  *)

LEMMA PairJoins == ASSUME NEW a, NEW b PROVE <<a>> \o <<b>> = <<a, b>>
<1>1. <<a>> \in Seq({a, b}) /\ <<b>> \in Seq({a, b}) /\ <<a, b>> \in Seq({a, b})
  OBVIOUS
<1>2. Len(<<a>> \o <<b>>) = 2 /\ <<a>> \o <<b>> \in Seq({a, b})
  BY <1>1
<1>3. \A i \in 1..2 : (<<a>> \o <<b>>)[i] = <<a, b>>[i]
  BY <1>1
<1> QED BY <1>1, <1>2, <1>3, SeqEqual

LEMMA TripleJoins ==
  ASSUME NEW a, NEW b, NEW c PROVE <<a>> \o <<b, c>> = <<a, b, c>>
<1> DEFINE S == {a, b, c}
<1>1. <<a>> \in Seq(S) /\ <<b, c>> \in Seq(S) /\ <<a, b, c>> \in Seq(S)
  OBVIOUS
<1>2. Len(<<a>> \o <<b, c>>) = 3 /\ <<a>> \o <<b, c>> \in Seq(S)
  BY <1>1
<1>3. \A i \in 1..3 : (<<a>> \o <<b, c>>)[i] = <<a, b, c>>[i]
  BY <1>1
<1> QED BY <1>1, <1>2, <1>3, SeqEqual

LEMMA TripleJoinsLeft ==
  ASSUME NEW a, NEW b, NEW c PROVE <<a, b>> \o <<c>> = <<a, b, c>>
<1> DEFINE S == {a, b, c}
<1>1. <<a, b>> \in Seq(S) /\ <<c>> \in Seq(S) /\ <<a, b, c>> \in Seq(S)
  OBVIOUS
<1>2. Len(<<a, b>> \o <<c>>) = 3 /\ <<a, b>> \o <<c>> \in Seq(S)
  BY <1>1
<1>3. \A i \in 1..3 : (<<a, b>> \o <<c>>)[i] = <<a, b, c>>[i]
  BY <1>1
<1> QED BY <1>1, <1>2, <1>3, SeqEqual

ColType == [type : {"narrow", "wide"}, null : BOOLEAN, default : BOOLEAN,
            data : Data]

\* What it is to be a table, field by field.
LEMMA TableShape ==
  ASSUME NEW t
  PROVE  t \in Tables <=>
           /\ t = [cols |-> t.cols, idx |-> t.idx, rows |-> t.rows]
           /\ t.cols \in [DOMAIN t.cols -> ColType] /\ DOMAIN t.cols \subseteq Columns
           /\ t.idx \in [DOMAIN t.idx -> Columns] /\ DOMAIN t.idx \subseteq Indexes
           /\ t.rows \in BOOLEAN
  BY DEF Tables, ColType

LEMMA SchemaShape ==
  ASSUME NEW s \in Schema
  PROVE  /\ s = [cols |-> s.cols, idx |-> s.idx]
         /\ s.cols \in [DOMAIN s.cols -> ColumnDef] /\ DOMAIN s.cols \subseteq Columns
         /\ s.idx \in [DOMAIN s.idx -> Columns] /\ DOMAIN s.idx \subseteq Indexes
  BY DEF Schema

LEMMA PlanShape ==
  ASSUME plan \in Plan
  PROVE  /\ plan.old \in Schema /\ New \in Schema
         /\ plan.rows \in BOOLEAN /\ plan.destructive \in BOOLEAN
  BY DEF Plan, New

LEMMA OldShape ==
  ASSUME curtable \in Tables
  PROVE  /\ DOMAIN Old.cols = DOMAIN curtable.cols
         /\ \A c \in DOMAIN Old.cols :
              Old.cols[c] = Def(curtable.cols[c]) /\ Old.cols[c] \in ColumnDef
         /\ Old.idx = curtable.idx
<1>1. /\ curtable.cols \in [DOMAIN curtable.cols -> ColType]
      /\ curtable.idx \in [DOMAIN curtable.idx -> Columns]
  BY TableShape
<1> QED BY <1>1 DEF Old, SchemaOf, Def, ColType, ColumnDef

LEMMA DefOfCol ==
  ASSUME NEW d \in ColumnDef, NEW data \in Data
  PROVE  Def(Col(d, data)) = d /\ Col(d, data) \in ColType
<1>1. d = [type |-> d.type, null |-> d.null, default |-> d.default]
      /\ d.type \in {"narrow", "wide"} /\ d.null \in BOOLEAN /\ d.default \in BOOLEAN
  BY DEF ColumnDef
<1>2. Def(Col(d, data)) = [type |-> d.type, null |-> d.null, default |-> d.default]
  BY DEF Def, Col
<1> QED BY <1>1, <1>2 DEF Col, ColType

LEMMA NoTableTyped == NoTable \in Tables
<1>1. /\ DOMAIN NoTable.cols = {} /\ DOMAIN NoTable.idx = {}
      /\ NoTable.cols = [c \in {} |-> NoTable.cols[c]]
      /\ NoTable.idx = [c \in {} |-> NoTable.idx[c]]
  BY DEF NoTable
<1>2. NoTable = [cols |-> NoTable.cols, idx |-> NoTable.idx, rows |-> NoTable.rows]
      /\ NoTable.rows \in BOOLEAN
  BY DEF NoTable
<1> QED BY <1>1, <1>2, TableShape

LEMMA TableOfTyped ==
  ASSUME NEW s \in Schema, NEW data \in Data, NEW rows \in BOOLEAN
  PROVE  /\ TableOf(s, data, rows) \in Tables
         /\ SchemaOf(TableOf(s, data, rows)) = s
         /\ \A I \in SUBSET DOMAIN s.idx :
              [TableOf(s, data, rows) EXCEPT !.idx = Restrict(@, I)] \in Tables
<1> DEFINE t == TableOf(s, data, rows)
<1>1. /\ s = [cols |-> s.cols, idx |-> s.idx]
      /\ s.cols \in [DOMAIN s.cols -> ColumnDef] /\ DOMAIN s.cols \subseteq Columns
      /\ s.idx \in [DOMAIN s.idx -> Columns] /\ DOMAIN s.idx \subseteq Indexes
  BY SchemaShape
<1>2. /\ t = [cols |-> t.cols, idx |-> t.idx, rows |-> t.rows]
      /\ DOMAIN t.cols = DOMAIN s.cols
      /\ t.idx = s.idx /\ t.rows = rows
      /\ t.cols \in [DOMAIN s.cols -> ColType]
      /\ \A c \in DOMAIN s.cols : t.cols[c] = Col(s.cols[c], data)
  BY <1>1 DEF TableOf, Col, ColType, ColumnDef
<1>3. t \in Tables
  BY <1>1, <1>2, TableShape
<1>4. SchemaOf(t) = s
  <2>1. \A c \in DOMAIN s.cols : Def(t.cols[c]) = s.cols[c]
    BY <1>1, <1>2, DefOfCol
  <2>2. [c \in DOMAIN t.cols |-> Def(t.cols[c])] = s.cols
    BY <1>1, <1>2, <2>1
  <2> QED BY <1>1, <1>2, <2>2 DEF SchemaOf
<1>5. ASSUME NEW I \in SUBSET DOMAIN s.idx
      PROVE  [t EXCEPT !.idx = Restrict(@, I)] \in Tables
  <2> DEFINE u == [t EXCEPT !.idx = Restrict(@, I)]
  <2>1. u = [cols |-> u.cols, idx |-> u.idx, rows |-> u.rows] /\ u.cols = t.cols
        /\ u.rows = t.rows /\ u.idx = [i \in I |-> s.idx[i]]
    BY <1>2 DEF Restrict
  <2>2. u.idx \in [I -> Columns] /\ DOMAIN u.idx = I /\ I \subseteq Indexes
    BY <1>1, <2>1
  <2> QED BY <1>1, <1>2, <2>1, <2>2, TableShape
<1> QED BY <1>3, <1>4, <1>5

-----------------------------------------------------------------------------
(* What a statement that works does to a table.                             *)

LEMMA ReplacingCols ==
  ASSUME NEW t \in Tables, NEW cols, NEW C \in SUBSET Columns,
         cols \in [C -> ColType]
  PROVE  /\ [t EXCEPT !.cols = cols] \in Tables
         /\ [t EXCEPT !.cols = cols].cols = cols
         /\ [t EXCEPT !.cols = cols].idx = t.idx
         /\ [t EXCEPT !.cols = cols].rows = t.rows
<1> DEFINE u == [t EXCEPT !.cols = cols]
<1>1. t = [cols |-> t.cols, idx |-> t.idx, rows |-> t.rows]
      /\ t.idx \in [DOMAIN t.idx -> Columns] /\ DOMAIN t.idx \subseteq Indexes
      /\ t.rows \in BOOLEAN
  BY TableShape
<1>2. u = [cols |-> cols, idx |-> t.idx, rows |-> t.rows]
  BY <1>1
<1> HIDE DEF u
<1>3. u.cols = cols /\ u.idx = t.idx /\ u.rows = t.rows
  BY <1>2
<1>4. u \in Tables
  BY <1>1, <1>2, <1>3, TableShape
<1> QED BY <1>3, <1>4 DEF u

LEMMA ReplacingIdx ==
  ASSUME NEW t \in Tables, NEW idx, NEW I \in SUBSET Indexes,
         idx \in [I -> Columns]
  PROVE  /\ [t EXCEPT !.idx = idx] \in Tables
         /\ [t EXCEPT !.idx = idx].idx = idx
         /\ [t EXCEPT !.idx = idx].cols = t.cols
         /\ [t EXCEPT !.idx = idx].rows = t.rows
<1> DEFINE u == [t EXCEPT !.idx = idx]
<1>1. t = [cols |-> t.cols, idx |-> t.idx, rows |-> t.rows]
      /\ t.cols \in [DOMAIN t.cols -> ColType] /\ DOMAIN t.cols \subseteq Columns
      /\ t.rows \in BOOLEAN
  BY TableShape
<1>2. u = [cols |-> t.cols, idx |-> idx, rows |-> t.rows]
  BY <1>1
<1> HIDE DEF u
<1>3. u.cols = t.cols /\ u.idx = idx /\ u.rows = t.rows
  BY <1>2
<1>4. u \in Tables
  BY <1>1, <1>2, <1>3, TableShape
<1> QED BY <1>3, <1>4 DEF u

\* Changing the columns of table t to u's touches no other column than c.
OnlyColumn(t, u, c) ==
  /\ u \in Tables
  /\ u.idx = t.idx /\ u.rows = t.rows
  /\ DOMAIN u.cols \subseteq DOMAIN t.cols \cup {c}
  /\ \A x \in DOMAIN t.cols \ {c} : x \in DOMAIN u.cols /\ u.cols[x] = t.cols[x]

LEMMA DropIndexWorks ==
  ASSUME NEW t \in Tables, NEW s, s.op = "dropindex", Works(t, s)
  PROVE  /\ After(t, s) \in Tables
         /\ s.name \in DOMAIN t.idx
         /\ After(t, s).cols = t.cols /\ After(t, s).rows = t.rows
         /\ DOMAIN After(t, s).idx = DOMAIN t.idx \ {s.name}
         /\ \A i \in DOMAIN t.idx \ {s.name} : After(t, s).idx[i] = t.idx[i]
<1> DEFINE idx == Without(t.idx, s.name)
<1>1. s.name \in DOMAIN t.idx
  BY DEF Works, Is
<1>2. /\ idx \in [DOMAIN t.idx \ {s.name} -> Columns]
      /\ \A i \in DOMAIN t.idx \ {s.name} : idx[i] = t.idx[i]
      /\ DOMAIN t.idx \ {s.name} \in SUBSET Indexes
  BY TableShape DEF Without, Restrict
<1>3. After(t, s) = [t EXCEPT !.idx = idx]
  BY DEF After
<1> HIDE DEF idx
<1> QED BY <1>1, <1>2, <1>3, ReplacingIdx

LEMMA AddIndexWorks ==
  ASSUME NEW t \in Tables, NEW s, s.op = "addindex", Works(t, s)
  PROVE  /\ After(t, s) \in Tables
         /\ s.name \notin DOMAIN t.idx
         /\ After(t, s).cols = t.cols /\ After(t, s).rows = t.rows
         /\ DOMAIN After(t, s).idx = DOMAIN t.idx \cup {s.name}
         /\ \A i \in DOMAIN t.idx : After(t, s).idx[i] = t.idx[i]
         /\ After(t, s).idx[s.name] = s.arg
<1> DEFINE idx == With(t.idx, s.name, s.arg)
<1>1. s.name \in Indexes \ DOMAIN t.idx /\ s.arg \in DOMAIN t.cols
  BY DEF Works, Is
<1>2. /\ idx \in [DOMAIN t.idx \cup {s.name} -> Columns]
      /\ \A i \in DOMAIN t.idx : idx[i] = t.idx[i]
      /\ idx[s.name] = s.arg
      /\ DOMAIN t.idx \cup {s.name} \in SUBSET Indexes
  BY <1>1, TableShape DEF With
<1>3. After(t, s) = [t EXCEPT !.idx = idx]
  BY DEF After
<1> HIDE DEF idx
<1> QED BY <1>1, <1>2, <1>3, ReplacingIdx

LEMMA AddWorks ==
  ASSUME NEW t \in Tables, NEW s, s.op = "add", s.arg \in ColumnDef, Works(t, s)
  PROVE  /\ OnlyColumn(t, After(t, s), s.name)
         /\ s.name \notin DOMAIN t.cols
         /\ DOMAIN After(t, s).cols = DOMAIN t.cols \cup {s.name}
         /\ After(t, s).cols[s.name] = Added(t, s.arg)
<1> DEFINE cols == With(t.cols, s.name, Added(t, s.arg))
<1>1. s.name \in Columns \ DOMAIN t.cols
  BY DEF Works, Is
<1>2. Added(t, s.arg) \in ColType
  BY DefOfCol DEF Added, Data
<1>3. /\ cols \in [DOMAIN t.cols \cup {s.name} -> ColType]
      /\ \A i \in DOMAIN t.cols : cols[i] = t.cols[i]
      /\ cols[s.name] = Added(t, s.arg)
      /\ DOMAIN t.cols \cup {s.name} \in SUBSET Columns
  BY <1>1, <1>2, TableShape DEF With
<1>4. After(t, s) = [t EXCEPT !.cols = cols]
  BY DEF After
<1> HIDE DEF cols
<1> QED BY <1>1, <1>3, <1>4, ReplacingCols DEF OnlyColumn

LEMMA DropWorks ==
  ASSUME NEW t \in Tables, NEW s, s.op = "drop", Works(t, s)
  PROVE  /\ OnlyColumn(t, After(t, s), s.name)
         /\ s.name \in DOMAIN t.cols
         /\ DOMAIN After(t, s).cols = DOMAIN t.cols \ {s.name}
<1> DEFINE cols == Without(t.cols, s.name)
<1>1. s.name \in DOMAIN t.cols
  BY DEF Works, Is
<1>2. /\ cols \in [DOMAIN t.cols \ {s.name} -> ColType]
      /\ \A i \in DOMAIN t.cols \ {s.name} : cols[i] = t.cols[i]
      /\ DOMAIN t.cols \ {s.name} \in SUBSET Columns
  BY TableShape DEF Without, Restrict
<1>3. After(t, s) = [t EXCEPT !.cols = cols]
  BY DEF After
<1> HIDE DEF cols
<1> QED BY <1>1, <1>2, <1>3, ReplacingCols DEF OnlyColumn

\* A column that stays keeps its data whatever else is changed.
LEMMA ReplacingColumn ==
  ASSUME NEW t \in Tables, NEW c \in DOMAIN t.cols, NEW col \in ColType
  PROVE  /\ OnlyColumn(t, [t EXCEPT !.cols[c] = col], c)
         /\ DOMAIN [t EXCEPT !.cols[c] = col].cols = DOMAIN t.cols
         /\ [t EXCEPT !.cols[c] = col].cols[c] = col
<1> DEFINE cols == [t.cols EXCEPT ![c] = col]
<1>1. /\ cols \in [DOMAIN t.cols -> ColType]
      /\ \A i \in DOMAIN t.cols \ {c} : cols[i] = t.cols[i]
      /\ cols[c] = col
      /\ DOMAIN t.cols \in SUBSET Columns
  BY TableShape
<1>2. [t EXCEPT !.cols[c] = col] = [t EXCEPT !.cols = cols]
  BY TableShape
<1> HIDE DEF cols
<1> QED BY <1>1, <1>2, ReplacingCols DEF OnlyColumn

LEMMA ColShape ==
  ASSUME NEW col \in ColType
  PROVE  col = [type |-> col.type, null |-> col.null, default |-> col.default,
                data |-> col.data]
  BY DEF ColType

LEMMA AlteredColumn ==
  ASSUME NEW col \in ColType, NEW d \in ColumnDef
  PROVE  /\ Altered(col, d) \in ColType
         /\ Altered(col, d).type = d.type /\ Altered(col, d).null = d.null
         /\ Altered(col, d).default = col.default /\ Altered(col, d).data = col.data
<1>1. d.type \in {"narrow", "wide"} /\ d.null \in BOOLEAN
  BY DEF ColumnDef
<1> QED BY <1>1 DEF Altered, ColType

LEMMA AlterWorks ==
  ASSUME NEW t \in Tables, NEW s, s.op = "alter", s.arg \in ColumnDef, Works(t, s)
  PROVE  /\ OnlyColumn(t, After(t, s), s.name)
         /\ s.name \in DOMAIN t.cols
         /\ DOMAIN After(t, s).cols = DOMAIN t.cols
         /\ After(t, s).cols[s.name].type = s.arg.type
         /\ After(t, s).cols[s.name].null = s.arg.null
         /\ After(t, s).cols[s.name].default = FALSE
         /\ After(t, s).cols[s.name].data = t.cols[s.name].data
         /\ ~AlterMeetsNull(t, s) /\ Free(t, s.name)
<1> DEFINE col == Altered(t.cols[s.name], s.arg)
<1>1. s.name \in DOMAIN t.cols /\ Free(t, s.name) /\ ~AlterMeetsNull(t, s)
  BY DEF Works, Is
<1>2. t.cols[s.name].default = FALSE /\ t.cols[s.name] \in ColType
  BY <1>1, TableShape DEF Free
<1>3. /\ col \in ColType /\ col.type = s.arg.type /\ col.null = s.arg.null
      /\ col.default = FALSE /\ col.data = t.cols[s.name].data
  BY <1>2, AlteredColumn
<1>4. After(t, s) = [t EXCEPT !.cols[s.name] = col]
  BY DEF After
<1> HIDE DEF col
<1>5. /\ OnlyColumn(t, After(t, s), s.name)
      /\ DOMAIN After(t, s).cols = DOMAIN t.cols
      /\ After(t, s).cols[s.name] = col
  BY <1>1, <1>3, <1>4, ReplacingColumn
<1> QED BY <1>1, <1>3, <1>5

LEMMA DefaultWorks ==
  ASSUME NEW t \in Tables, NEW s, s.op \in {"dropdefault", "adddefault"}, Works(t, s)
  PROVE  /\ OnlyColumn(t, After(t, s), s.name)
         /\ s.name \in DOMAIN t.cols
         /\ DOMAIN After(t, s).cols = DOMAIN t.cols
         /\ After(t, s).cols[s.name].type = t.cols[s.name].type
         /\ After(t, s).cols[s.name].null = t.cols[s.name].null
         /\ After(t, s).cols[s.name].data = t.cols[s.name].data
         /\ After(t, s).cols[s.name].default <=> s.op = "adddefault"
<1> DEFINE col == [t.cols[s.name] EXCEPT !.default = (s.op = "adddefault")]
<1>1. s.name \in DOMAIN t.cols
  BY DEF Works, Is
<1>2. t.cols[s.name] \in ColType
  BY <1>1, TableShape
<1>3. /\ col \in ColType
      /\ col.type = t.cols[s.name].type /\ col.null = t.cols[s.name].null
      /\ col.data = t.cols[s.name].data
      /\ col.default = (s.op = "adddefault")
  BY <1>2, ColShape DEF ColType
<1>4. After(t, s) = [t EXCEPT !.cols[s.name].default = (s.op = "adddefault")]
  BY DEF After
<1>5. After(t, s) = [t EXCEPT !.cols[s.name] = col]
  BY <1>1, <1>4, TableShape
<1> HIDE DEF col
<1>6. /\ OnlyColumn(t, After(t, s), s.name)
      /\ DOMAIN After(t, s).cols = DOMAIN t.cols
      /\ After(t, s).cols[s.name] = col
  BY <1>1, <1>3, <1>5, ReplacingColumn
<1> QED BY <1>1, <1>3, <1>6

-----------------------------------------------------------------------------
(* The statements of a script.                                              *)

Short(s) == \E a, b : s = <<a>> \/ s = <<a, b>>

LEMMA Single ==
  ASSUME NEW u PROVE Head(<<u>>) = u /\ Tail(<<u>>) = <<>> /\ <<u>> # <<>>
  OBVIOUS

LEMMA PrefixSteps ==
  ASSUME NEW u, NEW s, Short(s)
  PROVE  /\ <<u>> \o s # <<>> /\ s # <<>>
         /\ Head(<<u>> \o s) = u /\ Tail(<<u>> \o s) = s
<1> PICK a, b : s = <<a>> \/ s = <<a, b>>
  BY DEF Short
<1>1. CASE s = <<a>>
  <2>1. <<u>> \o s = <<u, a>>
    BY <1>1, PairJoins
  <2>2. Head(<<u, a>>) = u /\ Tail(<<u, a>>) = <<a>> /\ <<u, a>> # <<>> /\ <<a>> # <<>>
    OBVIOUS
  <2> QED BY <1>1, <2>1, <2>2
<1>2. CASE s = <<a, b>>
  <2>1. <<u>> \o s = <<u, a, b>>
    BY <1>2, TripleJoins
  <2>2. /\ Head(<<u, a, b>>) = u /\ Tail(<<u, a, b>>) = <<a, b>>
        /\ <<u, a, b>> # <<>> /\ <<a, b>> # <<>>
    OBVIOUS
  <2> QED BY <1>2, <2>1, <2>2
<1> QED BY <1>1, <1>2

LEMMA UndefaultingSteps ==
  ASSUME NEW c, NEW scripts, NEW s \in Undefaulting(c, scripts),
         \A r \in scripts : Short(r)
  PROVE  /\ s # <<>>
         /\ \/ s \in scripts
            \/ Head(s) = Undefault(c) /\ Tail(s) \in scripts /\ Whole(Tail(s))
<1>1. CASE s \in scripts
  <2> PICK a, b : s = <<a>> \/ s = <<a, b>>
    BY <1>1 DEF Short
  <2> QED BY <1>1
<1>2. CASE s \notin scripts
  <2>1. PICK r \in scripts : s = <<Undefault(c)>> \o r /\ Whole(r)
    BY <1>2 DEF Undefaulting
  <2>2. s # <<>> /\ Head(s) = Undefault(c) /\ Tail(s) = r
    BY <2>1, PrefixSteps
  <2> QED BY <2>1, <2>2
<1> QED BY <1>1, <1>2

LEMMA AlteringSteps ==
  ASSUME NEW c, NEW d, NEW s \in Undefaulting(c, Altering(c, d))
  PROVE  /\ s # <<>> /\ Head(s).name = c
         /\ \/ /\ Head(s) = Undefault(c) /\ Tail(s) \in Altering(c, d)
               /\ Whole(Tail(s)) /\ Tail(s) # <<>>
            \/ /\ Head(s) = Stmt("alter", c, d)
               /\ Tail(s) = IF d.default THEN <<Stmt("adddefault", c, NoArg)>> ELSE <<>>
            \/ /\ d.default
               /\ s = <<Stmt("adddefault", c, NoArg)>>
               /\ Head(s) = Stmt("adddefault", c, NoArg) /\ Tail(s) = <<>>
         /\ Tail(s) = <<>> \/ Tail(s) \in Altering(c, d)
         /\ s # <<Stmt("adddefault", c, NoArg)>> => Head(s).op # "adddefault"
<1> DEFINE a == Stmt("alter", c, d)
           b == Stmt("adddefault", c, NoArg)
<1>1. /\ a.name = c /\ b.name = c /\ Undefault(c).name = c
      /\ a.op = "alter" /\ b.op = "adddefault" /\ Undefault(c).op = "dropdefault"
  BY DEF Stmt, Undefault
<1> HIDE DEF a, b
<1>2. Altering(c, d) = IF d.default THEN {<<a, b>>, <<b>>} ELSE {<<a>>}
  BY DEF Altering, a, b
<1>3. \A r \in Altering(c, d) : Short(r)
  BY <1>2 DEF Short
<1>4. /\ s # <<>>
      /\ \/ s \in Altering(c, d)
         \/ Head(s) = Undefault(c) /\ Tail(s) \in Altering(c, d) /\ Whole(Tail(s))
  BY <1>3, UndefaultingSteps
<1>5. CASE Head(s) = Undefault(c) /\ Tail(s) \in Altering(c, d) /\ Whole(Tail(s))
  <2>1. Tail(s) # <<>>
    BY <1>2, <1>5
  <2>2. s # <<b>>
    <3>1. s = <<b>> => Head(s) = b
      OBVIOUS
    <3> QED BY <1>1, <1>5, <3>1
  <2> QED BY <1>1, <1>4, <1>5, <2>1, <2>2 DEF b
<1>6. CASE s \in Altering(c, d)
  <2>1. CASE d.default /\ s = <<a, b>>
    <3>1. Head(s) = a /\ Tail(s) = <<b>>
      BY <2>1
    <3> QED BY <1>1, <1>2, <2>1, <3>1 DEF a, b
  <2>2. CASE d.default /\ s = <<b>>
    <3>1. Head(s) = b /\ Tail(s) = <<>>
      BY <2>2
    <3> QED BY <1>1, <1>2, <2>2, <3>1 DEF a, b
  <2>3. CASE ~d.default /\ s = <<a>>
    <3>1. Head(s) = a /\ Tail(s) = <<>>
      BY <2>3
    <3> QED BY <1>1, <1>2, <2>3, <3>1 DEF a, b
  <2> QED BY <1>2, <1>6, <2>1, <2>2, <2>3
<1> QED BY <1>4, <1>5, <1>6

LEMMA DroppingSteps ==
  ASSUME NEW c, NEW s \in Undefaulting(c, Dropping(c))
  PROVE  /\ s # <<>> /\ Head(s).name = c
         /\ \/ Head(s) = Undefault(c) /\ Tail(s) \in Dropping(c) /\ Tail(s) # <<>>
            \/ Head(s) = Stmt("drop", c, NoArg) /\ Tail(s) = <<>>
<1> DEFINE a == Stmt("drop", c, NoArg)
<1>1. a.name = c /\ Undefault(c).name = c
  BY DEF Stmt, Undefault
<1> HIDE DEF a
<1>2. Dropping(c) = {<<a>>}
  BY DEF Dropping, a
<1>3. \A r \in Dropping(c) : Short(r)
  BY <1>2 DEF Short
<1>4. s # <<>> /\ (s \in Dropping(c) \/ (Head(s) = Undefault(c) /\ Tail(s) \in Dropping(c) /\ Whole(Tail(s))))
  BY <1>3, UndefaultingSteps
<1>5. CASE s \in Dropping(c)
  <2>1. s = <<a>>
    BY <1>2, <1>5
  <2>2. Head(<<a>>) = a /\ Tail(<<a>>) = <<>> /\ <<a>> # <<>>
    OBVIOUS
  <2> QED BY <1>1, <2>1, <2>2 DEF a
<1>6. CASE Head(s) = Undefault(c) /\ Tail(s) \in Dropping(c)
  <2>1. Tail(s) = <<a>> /\ <<a>> # <<>>
    BY <1>2, <1>6
  <2> QED BY <1>1, <1>4, <1>6, <2>1
<1> QED BY <1>4, <1>5, <1>6

LEMMA ReplacingSteps ==
  ASSUME NEW c, NEW d, NEW s \in Undefaulting(c, Replacing(c, d))
  PROVE  /\ s # <<>> /\ Head(s).name = c
         /\ \/ Head(s) = Undefault(c) /\ Tail(s) \in Replacing(c, d) /\ Whole(Tail(s))
            \/ /\ Head(s) = Stmt("drop", c, NoArg)
               /\ Tail(s) = <<Stmt("add", c, d)>> /\ Tail(s) \in Replacing(c, d)
            \/ Head(s) = Stmt("add", c, d) /\ Tail(s) = <<>>
<1> DEFINE a == Stmt("drop", c, NoArg)
           b == Stmt("add", c, d)
<1>1. a.name = c /\ b.name = c /\ Undefault(c).name = c
  BY DEF Stmt, Undefault
<1> HIDE DEF a, b
<1>2. Replacing(c, d) = {<<a, b>>, <<b>>}
  BY DEF Replacing, a, b
<1>3. \A r \in Replacing(c, d) : Short(r)
  BY <1>2 DEF Short
<1>4. s # <<>> /\ (s \in Replacing(c, d) \/ (Head(s) = Undefault(c) /\ Tail(s) \in Replacing(c, d) /\ Whole(Tail(s))))
  BY <1>3, UndefaultingSteps
<1>5. CASE Head(s) = Undefault(c) /\ Tail(s) \in Replacing(c, d) /\ Whole(Tail(s))
  BY <1>1, <1>4, <1>5
<1>6. CASE s = <<a, b>>
  <2>1. Head(s) = a /\ Tail(s) = <<b>>
    BY <1>6
  <2> QED BY <1>1, <1>2, <1>6, <2>1 DEF a, b
<1>7. CASE s = <<b>>
  <2>1. Head(s) = b /\ Tail(s) = <<>>
    BY <1>7
  <2> QED BY <1>1, <1>7, <2>1 DEF a, b
<1> QED BY <1>2, <1>4, <1>5, <1>6, <1>7

LEMMA GivingUpSteps ==
  ASSUME NEW c, NEW s \in Undefaulting(c, GivingUp(c))
  PROVE  /\ s # <<>> /\ Head(s).name = c
         /\ \/ Head(s) = Undefault(c) /\ Tail(s) \in GivingUp(c)
            \/ Head(s) = Stmt("giveup", c, NoArg) /\ Tail(s) = <<>>
<1> DEFINE a == Stmt("giveup", c, NoArg)
<1>1. a.name = c /\ Undefault(c).name = c
  BY DEF Stmt, Undefault
<1> HIDE DEF a
<1>2. GivingUp(c) = {<<a>>}
  BY DEF GivingUp, a
<1>3. \A r \in GivingUp(c) : Short(r)
  BY <1>2 DEF Short
<1>4. s # <<>> /\ (s \in GivingUp(c) \/ (Head(s) = Undefault(c) /\ Tail(s) \in GivingUp(c) /\ Whole(Tail(s))))
  BY <1>3, UndefaultingSteps
<1>5. CASE s \in GivingUp(c)
  <2>1. s = <<a>>
    BY <1>2, <1>5
  <2>2. Head(<<a>>) = a /\ Tail(<<a>>) = <<>> /\ <<a>> # <<>>
    OBVIOUS
  <2> QED BY <1>1, <2>1, <2>2 DEF a
<1>6. CASE Head(s) = Undefault(c) /\ Tail(s) \in GivingUp(c)
  <2>1. Tail(s) = <<a>> /\ <<a>> # <<>>
    BY <1>2, <1>6
  <2> QED BY <1>1, <1>4, <1>6, <2>1
<1> QED BY <1>4, <1>5, <1>6

\* How a change's statements are put together.
LEMMA JoinedAltering ==
  ASSUME NEW c, NEW d \in ColumnDef, NEW drops \in BOOLEAN
  PROVE  (If(drops, Undefault(c)) \o <<Stmt("alter", c, d)>>)
           \o If(d.default, Stmt("adddefault", c, NoArg))
           \in Undefaulting(c, Altering(c, d)) \ {<<Stmt("adddefault", c, NoArg)>>}
<1> DEFINE u == Undefault(c)
           a == Stmt("alter", c, d)
           b == Stmt("adddefault", c, NoArg)
           S == Altering(c, d)
<1> HIDE DEF u, a, b, S
<1>1. S = IF d.default THEN {<<a, b>>, <<b>>} ELSE {<<a>>}
  BY DEF Altering, a, b, S
<1>2. \A s \in S : /\ s \in Undefaulting(c, S)
                   /\ Whole(s) => <<u>> \o s \in Undefaulting(c, S)
  BY DEF Undefaulting, u
<1>6. Whole(<<a>>) /\ Whole(<<a, b>>)
  <2>1. Head(<<a>>) = a /\ Head(<<a, b>>) = a /\ a.op = "alter"
    BY DEF a, Stmt
  <2> QED BY <2>1 DEF Whole
<1>3. /\ <<>> \o <<a>> = <<a>> /\ <<a>> \o <<>> = <<a>> /\ <<u, a>> \o <<>> = <<u, a>>
      /\ <<u>> \o <<a>> = <<u, a>> /\ <<a>> \o <<b>> = <<a, b>>
      /\ <<u>> \o <<a, b>> = <<u, a, b>> /\ <<u, a>> \o <<b>> = <<u, a, b>>
  BY PairJoins, TripleJoins, TripleJoinsLeft
<1>7. /\ <<u, a, b>> # <<b>> /\ <<u, a>> # <<b>>
      /\ <<a, b>> # <<b>> /\ <<a>> # <<b>>
  <2>1. u # b /\ a # b
    <3>1. u.op = "dropdefault" /\ a.op = "alter" /\ b.op = "adddefault"
      BY DEF u, a, b, Undefault, Stmt
    <3> QED BY <3>1
  <2>2. Head(<<u, a, b>>) = u /\ Head(<<u, a>>) = u /\ Head(<<a, b>>) = a
        /\ Head(<<a>>) = a /\ Head(<<b>>) = b
    OBVIOUS
  <2> QED BY <2>1, <2>2
<1>4. (If(drops, u) \o <<a>>) = IF drops THEN <<u, a>> ELSE <<a>>
  BY <1>3 DEF If
<1>5. (If(drops, u) \o <<a>>) \o If(d.default, b) \in Undefaulting(c, S) \ {<<b>>}
  <2>1. CASE drops /\ d.default
    <3>1. (If(drops, u) \o <<a>>) \o If(d.default, b) = <<u, a, b>>
      BY <1>3, <1>4, <2>1 DEF If
    <3> QED BY <1>1, <1>2, <1>3, <1>6, <1>7, <2>1, <3>1
  <2>2. CASE drops /\ ~d.default
    <3>1. (If(drops, u) \o <<a>>) \o If(d.default, b) = <<u, a>>
      BY <1>3, <1>4, <2>2 DEF If
    <3> QED BY <1>1, <1>2, <1>3, <1>6, <1>7, <2>2, <3>1
  <2>3. CASE ~drops /\ d.default
    <3>1. (If(drops, u) \o <<a>>) \o If(d.default, b) = <<a, b>>
      BY <1>3, <1>4, <2>3 DEF If
    <3> QED BY <1>1, <1>2, <1>3, <1>7, <2>3, <3>1
  <2>4. CASE ~drops /\ ~d.default
    <3>1. (If(drops, u) \o <<a>>) \o If(d.default, b) = <<a>>
      BY <1>3, <1>4, <2>4 DEF If
    <3> QED BY <1>1, <1>2, <1>3, <1>7, <2>4, <3>1
  <2> QED BY <2>1, <2>2, <2>3, <2>4
<1> QED BY <1>5 DEF u, a, b, S

LEMMA JoinedPrefix ==
  ASSUME NEW c, NEW drops \in BOOLEAN, NEW scripts, NEW s \in scripts, Short(s), Whole(s)
  PROVE  If(drops, Undefault(c)) \o s
           \in Undefaulting(c, scripts) \ {<<Stmt("adddefault", c, NoArg)>>}
<1> DEFINE b == Stmt("adddefault", c, NoArg)
<1>1. b.op = "adddefault" /\ Undefault(c).op = "dropdefault"
  BY DEF Stmt, Undefault
<1> HIDE DEF b
<1>2. CASE drops
  <2>1. If(drops, Undefault(c)) \o s = <<Undefault(c)>> \o s
    BY <1>2 DEF If
  <2>2. <<Undefault(c)>> \o s # <<b>>
    BY <1>1, PrefixSteps, Single
  <2> QED BY <2>1, <2>2 DEF Undefaulting, b
<1>3. CASE ~drops
  <2>1. <<>> \o s = s
    BY DEF Short
  <2>2. s # <<b>>
    BY <1>1, Single DEF Whole
  <2> QED BY <1>3, <2>1, <2>2 DEF If, Undefaulting, b
<1> QED BY <1>2, <1>3

-----------------------------------------------------------------------------
(* What the loops hand out, and what they still have in hand.               *)

LEMMA Types ==
  ASSUME TypeInv
  PROVE  /\ plan \in Plan /\ table \in Tables /\ curtable \in Tables
         /\ plan.destructive \in BOOLEAN
         /\ \A c \in DOMAIN New.cols : New.cols[c] \in ColumnDef /\ Nullable(New.cols[c]) \in ColumnDef
         /\ \A c \in DOMAIN Old.cols : Old.cols[c] \in ColumnDef
         /\ coladd \subseteq DOMAIN New.cols /\ coldel \subseteq DOMAIN Old.cols
         /\ colchanged \subseteq DOMAIN New.cols /\ colchanged \subseteq DOMAIN Old.cols
         /\ otheradd \subseteq DOMAIN New.idx /\ otherdel \subseteq DOMAIN Old.idx
         /\ DOMAIN Old.cols = DOMAIN curtable.cols /\ Old.idx = curtable.idx
<1>1. plan \in Plan /\ table \in Tables /\ curtable \in Tables
  BY DEF TypeInv, ShapeInv
<1>2. \A c \in DOMAIN New.cols : New.cols[c] \in ColumnDef
  BY <1>1, PlanShape, SchemaShape
<1>3. \A d \in ColumnDef : Nullable(d) \in ColumnDef
  BY DEF ColumnDef, Nullable
<1>4. /\ coladd \subseteq DOMAIN New.cols /\ coldel \subseteq DOMAIN Old.cols
      /\ colchanged \subseteq DOMAIN New.cols /\ colchanged \subseteq DOMAIN Old.cols
      /\ otheradd \subseteq DOMAIN New.idx /\ otherdel \subseteq DOMAIN Old.idx
  BY DEF coladd, coldel, colchanged, otheradd, otherdel
<1> QED BY <1>1, <1>2, <1>3, <1>4, OldShape, PlanShape

\* What is left of a change has as many parts as its error allows.
LEMMA ChangingKinds ==
  ASSUME NEW c
  PROVE  \/ /\ ErrWhenAltering[c] = "none"
            /\ Changing(c) = Undefaulting(c, Altering(c, New.cols[c]))
         \/ /\ ErrWhenAltering[c] # "none" /\ plan.destructive
            /\ Changing(c) = Undefaulting(c, Replacing(c, New.cols[c]))
         \/ /\ ErrWhenAltering[c] = "515" /\ ~plan.destructive
            /\ Changing(c) = Undefaulting(c, Altering(c, Nullable(New.cols[c])))
         \/ /\ ErrWhenAltering[c] \notin {"none", "515"} /\ ~plan.destructive
            /\ Changing(c) = Undefaulting(c, GivingUp(c))
<1>1. CASE ErrWhenAltering[c] = "none"
  BY <1>1 DEF Changing
<1>2. CASE ErrWhenAltering[c] # "none" /\ plan.destructive
  BY <1>2 DEF Changing
<1>3. CASE ErrWhenAltering[c] = "515" /\ ~plan.destructive
  BY <1>3 DEF Changing
<1>4. CASE ErrWhenAltering[c] \notin {"none", "515"} /\ ~plan.destructive
  BY <1>4 DEF Changing
<1> QED BY <1>1, <1>2, <1>3, <1>4

LEMMA ChangeJoined ==
  ASSUME NEW c, NEW d \in BOOLEAN, plan.destructive \in BOOLEAN,
         Old.cols[c] \in ColumnDef,
         New.cols[c] \in ColumnDef
  PROVE  /\ ApplyChangedColumn(c, "none", d)
              \in Undefaulting(c, Altering(c, New.cols[c]))
         /\ ErrWhenAltering[c] \in {"none", "4901", "515", "other"} =>
              ApplyChangedColumn(c, ErrWhenAltering[c], plan.destructive)
                \in Changing(c) \ {<<Stmt("adddefault", c, NoArg)>>}
<1> DEFINE old == Old.cols[c]
           new == New.cols[c]
           before == If(old.default, Undefault(c))
           err == ErrWhenAltering[c]
           alone == {<<Stmt("adddefault", c, NoArg)>>}
<1>1. old.default \in BOOLEAN /\ Nullable(new) \in ColumnDef
      /\ Nullable(new).default = new.default
  BY DEF ColumnDef, Nullable
<1>2. \A e \in {"none", "4901", "515", "other"}, b \in BOOLEAN :
        ApplyChangedColumn(c, e, b) =
          CASE e = "none" ->
                 before \o <<Stmt("alter", c, new)>> \o If(new.default, Stmt("adddefault", c, NoArg))
            [] e # "none" /\ b ->
                 before \o <<Stmt("drop", c, NoArg), Stmt("add", c, new)>>
            [] e = "515" /\ ~b ->
                 before \o <<Stmt("alter", c, Nullable(new))>> \o If(new.default, Stmt("adddefault", c, NoArg))
            [] OTHER -> before \o <<Stmt("giveup", c, NoArg)>>
  BY DEF ApplyChangedColumn, Undefault
<1>3. (before \o <<Stmt("alter", c, new)>>) \o If(new.default, Stmt("adddefault", c, NoArg))
        \in Undefaulting(c, Altering(c, new)) \ alone
  BY <1>1, JoinedAltering
<1>4. (before \o <<Stmt("alter", c, Nullable(new))>>) \o If(new.default, Stmt("adddefault", c, NoArg))
        \in Undefaulting(c, Altering(c, Nullable(new))) \ alone
  BY <1>1, JoinedAltering
<1>5. before \o <<Stmt("drop", c, NoArg), Stmt("add", c, new)>>
        \in Undefaulting(c, Replacing(c, new)) \ alone
  <2> DEFINE a == Stmt("drop", c, NoArg)
             b == Stmt("add", c, new)
  <2>1. a.op = "drop"
    BY DEF Stmt
  <2> HIDE DEF a, b
  <2>2. Whole(<<a, b>>) /\ Short(<<a, b>>)
    <3>1. Head(<<a, b>>) = a
      OBVIOUS
    <3> QED BY <2>1, <3>1 DEF Whole, Short
  <2>3. <<a, b>> \in Replacing(c, new)
    BY DEF Replacing, a, b
  <2> QED BY <1>1, <2>2, <2>3, JoinedPrefix DEF a, b
<1>6. before \o <<Stmt("giveup", c, NoArg)>> \in Undefaulting(c, GivingUp(c)) \ alone
  <2> DEFINE a == Stmt("giveup", c, NoArg)
  <2>1. a.op = "giveup"
    BY DEF Stmt
  <2> HIDE DEF a
  <2>2. Whole(<<a>>) /\ Short(<<a>>)
    BY <2>1, Single DEF Whole, Short
  <2>3. <<a>> \in GivingUp(c)
    BY DEF GivingUp, a
  <2> QED BY <1>1, <2>2, <2>3, JoinedPrefix DEF a
<1> HIDE DEF before, old, new, alone
<1>7. \A e \in {"none", "4901", "515", "other"}, b \in BOOLEAN :
        /\ e = "none" => ApplyChangedColumn(c, e, b) \in Undefaulting(c, Altering(c, new)) \ alone
        /\ e # "none" /\ b => ApplyChangedColumn(c, e, b) \in Undefaulting(c, Replacing(c, new)) \ alone
        /\ e = "515" /\ ~b => ApplyChangedColumn(c, e, b) \in Undefaulting(c, Altering(c, Nullable(new))) \ alone
        /\ e \notin {"none", "515"} /\ ~b =>
             ApplyChangedColumn(c, e, b) \in Undefaulting(c, GivingUp(c)) \ alone
  BY <1>2, <1>3, <1>4, <1>5, <1>6
<1>8. ApplyChangedColumn(c, "none", d) \in Undefaulting(c, Altering(c, new)) \ alone
  BY <1>7
<1>9. ASSUME err \in {"none", "4901", "515", "other"}, plan.destructive \in BOOLEAN
      PROVE  ApplyChangedColumn(c, err, plan.destructive) \in Changing(c) \ alone
  BY <1>7, <1>9, ChangingKinds DEF new
<1> QED BY <1>8, <1>9 DEF new, alone

LEMMA DropJoined ==
  ASSUME NEW c, NEW def \in ColumnDef
  PROVE  DropTableColumn(c, def) \in DeleteLeft(c)
<1>1. DropTableColumn(c, def) =
        If(def.default, Undefault(c)) \o <<Stmt("drop", c, NoArg)>>
  BY DEF DropTableColumn, Undefault
<1>2. def.default \in BOOLEAN
  BY DEF ColumnDef
<1> DEFINE a == Stmt("drop", c, NoArg)
<1>3. a.op = "drop"
  BY DEF Stmt
<1> HIDE DEF a
<1>4. Whole(<<a>>) /\ Short(<<a>>)
  BY <1>3, Single DEF Whole, Short
<1>5. <<a>> \in Dropping(c)
  BY DEF Dropping, a
<1> QED BY <1>1, <1>2, <1>4, <1>5, JoinedPrefix DEF DeleteLeft, a

LEMMA NextScript ==
  ASSUME TypeInv, pc \in Loops, NEW x \in todo
  PROVE  /\ pc = "dropindex" => x \in otherdel /\ ScriptFor(pc, x) \in DropIndexLeft(x)
         /\ pc = "add" => x \in coladd /\ ScriptFor(pc, x) \in AddLeft(x)
         /\ pc = "delete" => x \in coldel /\ ScriptFor(pc, x) \in DeleteLeft(x)
         /\ pc = "change" =>
              /\ x \in colchanged /\ ScriptFor(pc, x) \in Changing(x)
              /\ ScriptFor(pc, x) # <<Stmt("adddefault", x, NoArg)>>
         /\ pc = "addindex" => x \in otheradd /\ ScriptFor(pc, x) \in AddIndexLeft(x)
         /\ pc = "unadd" => x \in added_columns /\ ScriptFor(pc, x) \in DeleteLeft(x)
         /\ pc = "reindex" => x \in deleted_indexes /\ ScriptFor(pc, x) \in ReindexLeft(x)
<1>1. x \in Work(pc)
  BY DEF TypeInv, PlaceInv
<1>2. CASE pc = "dropindex"
  BY <1>1, <1>2 DEF Work, ScriptFor, DropIndexLeft
<1>3. CASE pc = "add"
  BY <1>1, <1>3 DEF Work, ScriptFor, AddLeft
<1>4. CASE pc = "delete"
  <2>1. x \in coldel /\ Old.cols[x] \in ColumnDef
    BY <1>1, <1>4, Types DEF Work
  <2> QED BY <1>4, <2>1, DropJoined DEF ScriptFor
<1>5. CASE pc = "change"
  <2>1. x \in colchanged /\ Old.cols[x] \in ColumnDef /\ New.cols[x] \in ColumnDef
        /\ plan.destructive \in BOOLEAN
    BY <1>1, <1>5, Types DEF Work
  <2>2. ErrWhenAltering[x] \in {"none", "4901", "515", "other"}
    BY <1>5, <2>1 DEF TypeInv, NotesInv, Inside
  <2>3. ApplyChangedColumn(x, ErrWhenAltering[x], plan.destructive)
          \in Changing(x) \ {<<Stmt("adddefault", x, NoArg)>>}
    BY <2>1, <2>2, ChangeJoined
  <2> QED BY <1>5, <2>1, <2>3 DEF ScriptFor
<1>6. CASE pc = "addindex"
  BY <1>1, <1>6 DEF Work, ScriptFor, AddIndexLeft
<1>7. CASE pc = "unadd"
  <2>1. x \in added_columns /\ New.cols[x] \in ColumnDef
    BY <1>1, <1>7, Types DEF Work, TypeInv, NotesInv
  <2> QED BY <1>7, <2>1, DropJoined DEF ScriptFor
<1>8. CASE pc = "reindex"
  BY <1>1, <1>8 DEF Work, ScriptFor, ReindexLeft
<1> QED BY <1>2, <1>3, <1>4, <1>5, <1>6, <1>7, <1>8 DEF Loops

\* The plan and what was found fix all that is to do.
LEMMA Unmoved ==
  ASSUME plan' = plan, curtable' = curtable
  PROVE  /\ Old' = Old /\ New' = New
         /\ coladd' = coladd /\ coldel' = coldel /\ colchanged' = colchanged
         /\ otheradd' = otheradd /\ otherdel' = otherdel
         /\ \A x : /\ TryingLeft(x)' = TryingLeft(x) /\ AddLeft(x)' = AddLeft(x)
                   /\ AddIndexLeft(x)' = AddIndexLeft(x)
                   /\ ReindexLeft(x)' = ReindexLeft(x)
                   /\ ErrWhenAltering' = ErrWhenAltering => Changing(x)' = Changing(x)
<1>1. Old' = Old /\ New' = New
  BY DEF Old, New
<1>2. /\ coladd' = coladd /\ coldel' = coldel /\ colchanged' = colchanged
      /\ otheradd' = otheradd /\ otherdel' = otherdel
  BY <1>1 DEF coladd, coldel, colchanged, otheradd, otherdel
<1>3. ASSUME NEW x
      PROVE  /\ TryingLeft(x)' = TryingLeft(x) /\ AddLeft(x)' = AddLeft(x)
             /\ AddIndexLeft(x)' = AddIndexLeft(x) /\ ReindexLeft(x)' = ReindexLeft(x)
  BY <1>1 DEF TryingLeft, AddLeft, AddIndexLeft, ReindexLeft
<1>4. ASSUME NEW x, ErrWhenAltering' = ErrWhenAltering
      PROVE  Changing(x)' = Changing(x)
  BY <1>1, <1>4 DEF Changing
<1> QED BY <1>1, <1>2, <1>3, <1>4

\* What the first statement is, and that the rest is again what may be left.
LEMMA InDropIndex ==
  ASSUME NEW x, script \in DropIndexLeft(x)
  PROVE  Head(script) = Stmt("dropindex", x, NoArg) /\ Tail(script) = <<>>
  BY Single DEF DropIndexLeft
LEMMA InAdd ==
  ASSUME NEW x, script \in AddLeft(x)
  PROVE  /\ \/ Head(script) = Stmt("add", x, New.cols[x])
            \/ Head(script) = Stmt("add", x, Nullable(New.cols[x]))
         /\ Tail(script) = <<>>
  BY Single DEF AddLeft
LEMMA InAddIndex ==
  ASSUME NEW x, script \in AddIndexLeft(x)
  PROVE  Head(script) = Stmt("addindex", x, New.idx[x]) /\ Tail(script) = <<>>
  BY Single DEF AddIndexLeft
LEMMA InReindex ==
  ASSUME NEW x, script \in ReindexLeft(x)
  PROVE  Head(script) = Stmt("addindex", x, Old.idx[x]) /\ Tail(script) = <<>>
  BY Single DEF ReindexLeft

LEMMA TailStays ==
  ASSUME NEW c, NEW scripts, NEW s, s \in scripts
  PROVE  s \in Undefaulting(c, scripts)
  BY DEF Undefaulting

LEMMA ChangingTail ==
  ASSUME NEW c, NEW s \in Changing(c)
  PROVE  s # <<>> /\ Head(s).name = c /\ (Tail(s) = <<>> \/ Tail(s) \in Changing(c))
<1>1. CASE Changing(c) = Undefaulting(c, Altering(c, New.cols[c]))
  BY <1>1, AlteringSteps, TailStays
<1>2. CASE Changing(c) = Undefaulting(c, Altering(c, Nullable(New.cols[c])))
  BY <1>2, AlteringSteps, TailStays
<1>3. CASE Changing(c) = Undefaulting(c, Replacing(c, New.cols[c]))
  BY <1>3, ReplacingSteps, TailStays
<1>4. CASE Changing(c) = Undefaulting(c, GivingUp(c))
  BY <1>4, GivingUpSteps, TailStays
<1> QED BY <1>1, <1>2, <1>3, <1>4, ChangingKinds

LEMMA TailLeft ==
  ASSUME ScriptInv, script # <<>>, script' = Tail(script),
         pc' = pc, todo' = todo, plan' = plan, curtable' = curtable,
         pc = "trying" => cur' = cur,
         pc = "change" => ErrWhenAltering' = ErrWhenAltering,
         pc = "unadd" => added_columns' = added_columns,
         pc = "reindex" => deleted_indexes' = deleted_indexes
  PROVE  ScriptInv'
<1> SUFFICES ASSUME Tail(script) # <<>> PROVE ScriptInv'
  BY DEF ScriptInv
<1>1. \A c, d, s : s \in Undefaulting(c, Altering(c, d)) =>
        Tail(s) = <<>> \/ Tail(s) \in Undefaulting(c, Altering(c, d))
  BY AlteringSteps, TailStays
<1>2. \A c, s : s \in DeleteLeft(c) => Tail(s) = <<>> \/ Tail(s) \in DeleteLeft(c)
  BY DroppingSteps, TailStays DEF DeleteLeft
<1>3. pc # "dropindex" /\ pc # "add" /\ pc # "addindex" /\ pc # "reindex"
  BY InDropIndex, InAdd, InAddIndex, InReindex DEF ScriptInv
<1>4. pc = "trying" => Tail(script) \in TryingLeft(cur)'
  BY <1>1, Unmoved DEF ScriptInv, TryingLeft
<1>5. pc = "delete" => \E x \in (coldel \ todo)' : Tail(script) \in DeleteLeft(x)
  BY <1>2, Unmoved DEF ScriptInv
<1>6. pc = "unadd" => \E x \in (added_columns \ todo)' : Tail(script) \in DeleteLeft(x)
  BY <1>2 DEF ScriptInv
<1>7. pc = "change" => \E x \in (colchanged \ todo)' : Tail(script) \in Changing(x)'
  BY ChangingTail, Unmoved DEF ScriptInv
<1> QED BY <1>3, <1>4, <1>5, <1>6, <1>7 DEF ScriptInv

-----------------------------------------------------------------------------
(* Every variable keeps its type, and the run its place.                    *)

LEMMA AlteringArgs ==
  ASSUME NEW c, NEW d \in ColumnDef, NEW s \in Undefaulting(c, Altering(c, d))
  PROVE  Head(s).op \in {"add", "alter"} => Head(s).arg \in ColumnDef
<1>1. \/ Head(s) = Undefault(c) \/ Head(s) = Stmt("alter", c, d)
      \/ Head(s) = Stmt("adddefault", c, NoArg)
  BY AlteringSteps
<1> QED BY <1>1 DEF Undefault, Stmt

LEMMA HeadArg ==
  ASSUME TypeInv, script # <<>>
  PROVE  Head(script).op \in {"add", "alter"} => Head(script).arg \in ColumnDef
<1>1. pc \in Loops \cup {"trying"} /\ ScriptInv
  BY DEF TypeInv, PlaceInv
<1>2. CASE pc \in {"dropindex", "addindex", "reindex"}
  <2>1. \E x, y : \/ Head(script) = Stmt("dropindex", x, NoArg)
                  \/ Head(script) = Stmt("addindex", x, y)
    BY <1>1, <1>2, InDropIndex, InAddIndex, InReindex DEF ScriptInv
  <2> QED BY <2>1 DEF Stmt
<1>3. CASE pc \in {"delete", "unadd"}
  <2>1. \E x : \/ Head(script) = Undefault(x) \/ Head(script) = Stmt("drop", x, NoArg)
    BY <1>1, <1>3, DroppingSteps DEF ScriptInv, DeleteLeft
  <2> QED BY <2>1 DEF Stmt, Undefault
<1>4. CASE pc = "add"
  <2>1. PICK x \in coladd : script \in AddLeft(x)
    BY <1>1, <1>4 DEF ScriptInv
  <2>2. New.cols[x] \in ColumnDef /\ Nullable(New.cols[x]) \in ColumnDef
    BY Types
  <2> QED BY <2>1, <2>2, InAdd DEF Stmt
<1>5. CASE pc = "trying"
  <2>1. cur \in colchanged /\ script \in Undefaulting(cur, Altering(cur, New.cols[cur]))
    BY <1>1, <1>5 DEF ScriptInv, TryingLeft, TypeInv, PlaceInv
  <2> QED BY <2>1, Types, AlteringArgs
<1>6. CASE pc = "change"
  <2>1. PICK x \in colchanged : script \in Changing(x)
    BY <1>1, <1>6 DEF ScriptInv
  <2>2. New.cols[x] \in ColumnDef /\ Nullable(New.cols[x]) \in ColumnDef
    BY Types
  <2>3. CASE script \in Undefaulting(x, Replacing(x, New.cols[x]))
    <3>1. \/ Head(script) = Undefault(x) \/ Head(script) = Stmt("drop", x, NoArg)
          \/ Head(script) = Stmt("add", x, New.cols[x])
      BY <2>3, ReplacingSteps
    <3> QED BY <2>2, <3>1 DEF Stmt, Undefault
  <2>4. CASE script \in Undefaulting(x, GivingUp(x))
    <3>1. \/ Head(script) = Undefault(x) \/ Head(script) = Stmt("giveup", x, NoArg)
      BY <2>4, GivingUpSteps
    <3> QED BY <3>1 DEF Stmt, Undefault
  <2> QED BY <2>1, <2>2, <2>3, <2>4, AlteringArgs, ChangingKinds
<1> QED BY <1>1, <1>2, <1>3, <1>4, <1>5, <1>6 DEF Loops

LEMMA WorksKinds ==
  ASSUME NEW t, NEW s, Works(t, s)
  PROVE  s.op \in {"dropindex", "addindex", "add", "alter", "drop", "dropdefault",
                   "adddefault"}
  BY DEF Works, Is

LEMMA StatementSucceeds ==
  ASSUME TypeInv, script # <<>>, Succeeds(Head(script))
  PROVE  /\ Works(table, Head(script)) /\ table' = After(table, Head(script))
         /\ table' \in Tables /\ saved' = saved
         /\ InTransaction' = InTransaction
         /\ InTransaction => Committed' = Committed
         /\ ~InTransaction => Committed = table /\ Committed' = table'
<1> DEFINE s == Head(script)
<1>1. Works(table, s) /\ table' = After(table, s) /\ saved' = saved
  BY DEF Succeeds
<1>2. table \in Tables /\ (s.op \in {"add", "alter"} => s.arg \in ColumnDef)
  BY HeadArg, Types
<1> HIDE DEF s
<1>3. After(table, s) \in Tables
  <2>1. CASE s.op = "dropindex"
    BY <1>1, <1>2, <2>1, DropIndexWorks
  <2>2. CASE s.op = "addindex"
    BY <1>1, <1>2, <2>2, AddIndexWorks
  <2>3. CASE s.op = "add"
    BY <1>1, <1>2, <2>3, AddWorks DEF OnlyColumn
  <2>4. CASE s.op = "alter"
    BY <1>1, <1>2, <2>4, AlterWorks DEF OnlyColumn
  <2>5. CASE s.op = "drop"
    BY <1>1, <1>2, <2>5, DropWorks DEF OnlyColumn
  <2>6. CASE s.op \in {"dropdefault", "adddefault"}
    BY <1>1, <1>2, <2>6, DefaultWorks DEF OnlyColumn
  <2> QED BY <1>1, <2>1, <2>2, <2>3, <2>4, <2>5, <2>6, WorksKinds
<1> QED BY <1>1, <1>3 DEF s, InTransaction, Committed

LEMMA StatementFails ==
  ASSUME TypeInv, Aborts
  PROVE  /\ table' \in Tables /\ Committed' = Committed
         /\ InTransaction' => saved' = saved /\ table' = table
         /\ saved' = <<>> \/ saved' = saved
         /\ table' = table \/ (InTransaction /\ ~InTransaction' /\ table' = saved[1])
  BY DEF TypeInv, ShapeInv, Aborts, InTransaction, Committed

\* ROLLBACK brings back what is committed.
LEMMA RollingBack ==
  ASSUME TypeInv, RolledBack
  PROVE  /\ table' \in Tables /\ table' = Committed /\ Committed' = Committed
         /\ saved' = <<>> /\ ~InTransaction'
  BY DEF TypeInv, ShapeInv, RolledBack, InTransaction, Committed

SavedTyped == saved # <<>> => saved = <<saved[1]>> /\ saved[1] \in Tables

LEMMA GotoType ==
  ASSUME TypeInv,
         NEW phase \in (Early \ {"trying"}) \cup Inside \cup Late \cup {"get"},
         Goto(phase),
         plan' = plan, curtable' = curtable, ErrWhenAltering' = ErrWhenAltering,
         added_columns' = added_columns, deleted_indexes' = deleted_indexes,
         table' \in Tables, SavedTyped', errs' \subseteq {"error", "warning"},
         InTransaction' => phase \in Inside \cup {"rollback"},
         phase \in Inside => InTransaction',
         phase \in {"add", "begin"} \cup Inside => DOMAIN ErrWhenAltering = colchanged
  PROVE  TypeInv'
<1>1. pc' = phase /\ script' = <<>>
      /\ todo' = IF phase \in Loops \cup {"trial"} THEN Work(phase) ELSE {}
  BY DEF Goto
<1>2. /\ coladd' = coladd /\ coldel' = coldel /\ colchanged' = colchanged
      /\ otheradd' = otheradd /\ otherdel' = otherdel
  BY Unmoved
<1>3. ShapeInv'
  BY DEF TypeInv, ShapeInv, SavedTyped
<1>4. ScriptInv'
  BY <1>1 DEF ScriptInv
<1>5. NotesInv'
  <2>1. phase = "trial" => todo' = colchanged
    BY <1>1 DEF Work
  <2>2. phase # "trying"
    BY DEF Early, Inside, Late
  <2> QED BY <1>1, <1>2, <2>1, <2>2 DEF TypeInv, NotesInv
<1>6. PlaceInv'
  <2>1. phase \in Loops \cup {"trial"} => Work(pc)' = Work(phase)
    BY <1>1, <1>2 DEF Work, Loops
  <2> QED BY <1>1, <2>1 DEF PlaceInv, Early, Inside, Late, Loops
<1> QED BY <1>3, <1>4, <1>5, <1>6 DEF TypeInv

LEMMA CountsStep ==
  ASSUME CountsInv, [Next]_vars
  PROVE  CountsInv' /\ plan' = plan
<1>1. plan' = plan
  BY DEF Next, vars, Get, Start, NextElement, NextPhase, DropIndex, BeginTrial,
         TryStatement, EndTrial, AddColumn, Begin, Update, GiveUp, Commit,
         Rollback, Undo, CheckNulls, End, DropAll, Create, Crash, Again, Finished
<1>2. fails' = fails \/ (fails > 0 /\ fails' = fails - 1)
  BY DEF Next, vars, Get, Start, NextElement, NextPhase, DropIndex, BeginTrial,
         TryStatement, EndTrial, AddColumn, Begin, Update, GiveUp, Commit,
         Rollback, Undo, CheckNulls, End, DropAll, Create, Crash, Again, Finished,
         Succeeds, FailsWith, FailsSpuriously, histvars
<1>3. runs' = runs \/ (runs < MaxRuns /\ runs' = runs + 1)
  BY DEF Next, vars, Get, Start, NextElement, NextPhase, DropIndex, BeginTrial,
         TryStatement, EndTrial, AddColumn, Begin, Update, GiveUp, Commit,
         Rollback, Undo, CheckNulls, End, DropAll, Create, Crash, Again, Finished
<1> QED BY <1>1, <1>2, <1>3, BoundsAssumption DEF CountsInv

LEMMA TypeStart == ASSUME Init PROVE TypeInv /\ CountsInv
<1>1. plan \in Plan /\ plan.old \in Schema /\ plan.rows \in BOOLEAN
  BY PlansAssumption, PlanShape DEF Init
<1>2. table \in Tables /\ curtable \in Tables
  BY <1>1, TableOfTyped DEF Init, Data
<1> QED BY <1>1, <1>2, BoundsAssumption
        DEF Init, TypeInv, CountsInv, ShapeInv, PlaceInv, NotesInv, ScriptInv,
            Early, Inside, Late, Loops, InTransaction

\* Statements outside the loops' ends: the run stays at its place.
LEMMA StepOfScript ==
  ASSUME TypeInv, script # <<>>, pc \in Loops \cup {"trying"},
         pc' = pc, todo' = todo, cur' = cur, plan' = plan, curtable' = curtable,
         script' = <<>> \/ script' = Tail(script),
         table' \in Tables, SavedTyped',
         errs' \subseteq {"error", "warning"},
         InTransaction' => InTransaction, pc \in Inside => InTransaction',
         ErrWhenAltering' = ErrWhenAltering,
         added_columns' = added_columns \/ pc \in {"add", "dropindex"},
         deleted_indexes' = deleted_indexes \/ pc \in {"add", "dropindex"},
         added_columns' \subseteq coladd, deleted_indexes' \subseteq otherdel
  PROVE  TypeInv'
<1>1. ShapeInv'
  BY DEF TypeInv, ShapeInv, SavedTyped
<1>2. /\ coladd' = coladd /\ coldel' = coldel /\ colchanged' = colchanged
      /\ otheradd' = otheradd /\ otherdel' = otherdel
  BY Unmoved
<1>3. ScriptInv'
  <2>1. CASE script' = <<>>
    BY <2>1 DEF ScriptInv
  <2>2. CASE script' = Tail(script)
    BY <2>2, TailLeft DEF TypeInv
  <2> QED BY <2>1, <2>2
<1>4. PlaceInv'
  <2>1. pc \in Loops => Work(pc)' = Work(pc)
    BY <1>2 DEF Work, Loops
  <2> QED BY <1>2, <2>1 DEF TypeInv, PlaceInv, Loops
<1>5. NotesInv'
  BY <1>2 DEF TypeInv, NotesInv
<1> QED BY <1>1, <1>3, <1>4, <1>5 DEF TypeInv

LEMMA TypeGet == ASSUME TypeInv, Get PROVE TypeInv'
<1>1. ~InTransaction /\ pc' = "start" /\ todo = {} /\ script = <<>>
  BY DEF TypeInv, PlaceInv, Get, Inside, Loops
<1>2. ShapeInv'
  BY <1>1 DEF TypeInv, ShapeInv, Get, InTransaction
<1>3. PlaceInv' /\ ScriptInv' /\ NotesInv'
  BY <1>1 DEF PlaceInv, ScriptInv, NotesInv, Get, loopvars, InTransaction, Early,
              Inside, Late, Loops
<1> QED BY <1>2, <1>3 DEF TypeInv

LEMMA TypeNextElement == ASSUME TypeInv, NextElement PROVE TypeInv'
<1>1. PICK x \in todo : script' = ScriptFor(pc, x) /\ todo' = todo \ {x}
  BY DEF NextElement
<1>2. /\ pc \in Loops /\ UNCHANGED <<plan, table, saved, pc, cur, curtable,
                           ErrWhenAltering, added_columns, deleted_indexes, errs>>
  BY DEF NextElement, foundvars, undovars
<1>3. /\ coladd' = coladd /\ coldel' = coldel /\ colchanged' = colchanged
      /\ otheradd' = otheradd /\ otherdel' = otherdel
  BY <1>2, Unmoved
<1>4. ShapeInv' /\ NotesInv'
  BY <1>1, <1>2, <1>3 DEF TypeInv, ShapeInv, NotesInv, Loops
<1>5. PlaceInv'
  <2>1. Work(pc)' = Work(pc)
    BY <1>2, <1>3 DEF Work
  <2> QED BY <1>1, <1>2, <1>3, <2>1 DEF TypeInv, PlaceInv, InTransaction, Loops
<1>6. ScriptInv'
  <2> DEFINE s == ScriptFor(pc, x)
  <2>1. /\ pc = "dropindex" => x \in otherdel /\ s \in DropIndexLeft(x)
        /\ pc = "add" => x \in coladd /\ s \in AddLeft(x)
        /\ pc = "delete" => x \in coldel /\ s \in DeleteLeft(x)
        /\ pc = "change" => x \in colchanged /\ s \in Changing(x)
        /\ pc = "addindex" => x \in otheradd /\ s \in AddIndexLeft(x)
        /\ pc = "unadd" => x \in added_columns /\ s \in DeleteLeft(x)
        /\ pc = "reindex" => x \in deleted_indexes /\ s \in ReindexLeft(x)
    BY <1>2, NextScript
  <2>2. /\ AddLeft(x)' = AddLeft(x) /\ AddIndexLeft(x)' = AddIndexLeft(x)
        /\ ReindexLeft(x)' = ReindexLeft(x) /\ Changing(x)' = Changing(x)
    BY <1>2, Unmoved
  <2> HIDE DEF s
  <2>3. script' = s /\ x \notin todo' /\ pc # "trying"
    BY <1>1, <1>2 DEF s, Loops
  <2> QED BY <1>2, <1>3, <2>1, <2>2, <2>3 DEF ScriptInv
<1> QED BY <1>4, <1>5, <1>6 DEF TypeInv

LEMMA TypeNextPhase == ASSUME TypeInv, NextPhase PROVE TypeInv'
<1>1. /\ pc \in Loops \cup {"trial"} /\ todo = {} /\ Goto(Following[pc])
      /\ UNCHANGED <<plan, table, saved, curtable, ErrWhenAltering, added_columns,
                     deleted_indexes, errs>>
  BY DEF NextPhase, foundvars, undovars
<1>2. /\ pc \in Inside => Following[pc] \in Inside /\ DOMAIN ErrWhenAltering = colchanged
      /\ pc \notin Inside => Following[pc] \notin Inside
      /\ Following[pc] \in (Early \ {"trying"}) \cup Inside \cup Late
      /\ Following[pc] \in {"add", "begin"} => DOMAIN ErrWhenAltering = colchanged
      /\ pc \notin {"trying", "rollback"}
  BY <1>1 DEF Following, Loops, Early, Inside, Late, TypeInv, NotesInv
<1>3. table' \in Tables /\ SavedTyped' /\ errs' \subseteq {"error", "warning"}
      /\ InTransaction' = InTransaction
  BY <1>1 DEF TypeInv, ShapeInv, SavedTyped, InTransaction
<1>4. (InTransaction => pc \in Inside) /\ (pc \in Inside => InTransaction)
  BY <1>2 DEF TypeInv, PlaceInv
<1> QED BY <1>1, <1>2, <1>3, <1>4, GotoType

LEMMA TypeDropIndex == ASSUME TypeInv, DropIndex PROVE TypeInv'
<1>1. /\ pc = "dropindex" /\ script # <<>> /\ ~InTransaction
      /\ UNCHANGED <<plan, curtable, ErrWhenAltering, added_columns>>
  BY DEF DropIndex, foundvars, TypeInv, PlaceInv, Inside
<1>2. CASE /\ Succeeds(Head(script))
           /\ deleted_indexes' = deleted_indexes \cup {Head(script).name}
           /\ script' = Tail(script)
           /\ UNCHANGED <<pc, todo, cur, errs>>
  <2>1. table' \in Tables /\ saved' = saved
    BY <1>1, <1>2, StatementSucceeds
  <2>2. PICK x \in otherdel : script \in DropIndexLeft(x)
    BY <1>1 DEF TypeInv, ScriptInv
  <2>3. Head(script).name \in otherdel
    BY <2>2, InDropIndex DEF Stmt
  <2>4. /\ SavedTyped' /\ errs' \subseteq {"error", "warning"} /\ ~InTransaction'
        /\ added_columns \subseteq coladd /\ deleted_indexes \subseteq otherdel
    BY <1>1, <1>2, <2>1 DEF TypeInv, ShapeInv, NotesInv, SavedTyped, InTransaction
  <2> QED BY <1>1, <1>2, <2>1, <2>3, <2>4, StepOfScript DEF Loops, Inside
<1>3. CASE /\ \E number \in {"4901", "515", "other"} : FailsWith(Head(script), number)
           /\ Quit /\ UNCHANGED deleted_indexes
  <2>1. table' \in Tables /\ saved' = <<>>
    BY <1>1, <1>3, StatementFails DEF FailsWith, InTransaction
  <2>2. SavedTyped' /\ errs' \subseteq {"error", "warning"} /\ ~InTransaction'
    BY <1>3, <2>1 DEF TypeInv, ShapeInv, SavedTyped, InTransaction, Quit
  <2> QED BY <1>1, <1>3, <2>1, <2>2, GotoType DEF Quit, Late, Early, Inside
<1> QED BY <1>1, <1>2, <1>3 DEF DropIndex

LEMMA TypeBeginTrial == ASSUME TypeInv, BeginTrial PROVE TypeInv'
<1>1. /\ pc = "trial" /\ ~InTransaction
      /\ UNCHANGED <<plan, table, curtable, ErrWhenAltering, added_columns, deleted_indexes>>
  BY DEF BeginTrial, foundvars, undovars, TypeInv, PlaceInv, Inside
<1>2. CASE Quit /\ UNCHANGED <<saved>>
  <2>1. table' \in Tables /\ SavedTyped' /\ errs' \subseteq {"error", "warning"} /\ ~InTransaction'
    BY <1>1, <1>2 DEF TypeInv, ShapeInv, SavedTyped, InTransaction, Quit
  <2> QED BY <1>1, <1>2, <2>1, GotoType DEF Quit, Late, Early, Inside
<1>3. ASSUME NEW c \in todo, cur' = c, todo' = todo \ {c},
             script' = ApplyChangedColumn(c, "none", FALSE),
             saved' = <<table>>, pc' = "trying", errs' = errs
      PROVE  TypeInv'
  <2>1. c \in colchanged /\ todo \subseteq colchanged
    BY <1>1 DEF TypeInv, PlaceInv, Work
  <2>2. /\ coladd' = coladd /\ coldel' = coldel /\ colchanged' = colchanged
        /\ otheradd' = otheradd /\ otherdel' = otherdel
        /\ \A x : TryingLeft(x)' = TryingLeft(x)
    BY <1>1, Unmoved
  <2>3. ShapeInv' /\ InTransaction'
    BY <1>1, <1>3 DEF TypeInv, ShapeInv, InTransaction
  <2>4. PlaceInv'
    BY <1>1, <1>3, <2>1, <2>2, <2>3 DEF PlaceInv, Early, Inside, Loops
  <2>5. ScriptInv'
    <3>1. Old.cols[c] \in ColumnDef /\ New.cols[c] \in ColumnDef
          /\ plan.destructive \in BOOLEAN
      BY <2>1, Types
    <3>2. script' \in TryingLeft(c)
      BY <1>3, <3>1, ChangeJoined DEF TryingLeft
    <3> QED BY <1>3, <2>2, <3>2 DEF ScriptInv
  <2>6. NotesInv'
    BY <1>1, <1>3, <2>1, <2>2 DEF TypeInv, NotesInv, Inside
  <2> QED BY <2>3, <2>4, <2>5, <2>6 DEF TypeInv
<1> QED BY <1>2, <1>3 DEF BeginTrial

LEMMA TypeTryStatement == ASSUME TypeInv, TryStatement PROVE TypeInv'
<1>1. /\ pc = "trying" /\ script # <<>> /\ cur \in colchanged
      /\ UNCHANGED <<plan, pc, todo, cur, curtable, added_columns, deleted_indexes, errs>>
      /\ added_columns \subseteq coladd /\ deleted_indexes \subseteq otherdel
      /\ errs \subseteq {"error", "warning"}
  BY DEF TryStatement, undovars, TypeInv, PlaceInv, NotesInv, ShapeInv
<1>2. CASE Succeeds(Head(script)) /\ script' = Tail(script) /\ UNCHANGED ErrWhenAltering
  <2>1. table' \in Tables /\ saved' = saved /\ SavedTyped'
    BY <1>1, <1>2, StatementSucceeds DEF TypeInv, ShapeInv, SavedTyped
  <2>2. InTransaction' = InTransaction
    BY <2>1 DEF InTransaction
  <2> QED BY <1>1, <1>2, <2>1, <2>2, StepOfScript DEF Inside
<1>3. ASSUME NEW number \in {"4901", "515", "other"}, FailsWith(Head(script), number),
             ErrWhenAltering' = With(ErrWhenAltering, cur, number), script' = <<>>
      PROVE  TypeInv'
  <2>1. table' \in Tables /\ (saved' = <<>> \/ saved' = saved)
    BY <1>3, StatementFails DEF FailsWith
  <2>2. ShapeInv' /\ ScriptInv'
    BY <1>1, <1>3, <2>1 DEF TypeInv, ShapeInv, ScriptInv
  <2>3. /\ coladd' = coladd /\ coldel' = coldel /\ colchanged' = colchanged
        /\ otheradd' = otheradd /\ otherdel' = otherdel
    BY <1>1, Unmoved
  <2>4. PlaceInv'
    BY <1>1, <1>3, <2>3 DEF TypeInv, PlaceInv, Early, Inside, Loops
  <2>5. NotesInv'
    <3>1. DOMAIN ErrWhenAltering' = DOMAIN ErrWhenAltering \cup {cur}
          /\ \A c \in DOMAIN ErrWhenAltering' :
               ErrWhenAltering'[c] = IF c = cur THEN number ELSE ErrWhenAltering[c]
      BY <1>3 DEF With
    <3> QED BY <1>1, <1>3, <2>3, <3>1 DEF TypeInv, NotesInv, Inside
  <2> QED BY <2>2, <2>4, <2>5 DEF TypeInv
<1> QED BY <1>2, <1>3 DEF TryStatement

LEMMA TypeEndTrial == ASSUME TypeInv, EndTrial PROVE TypeInv'
<1>1. /\ pc = "trying" /\ script = <<>> /\ cur \in colchanged
      /\ pc' = "trial" /\ RolledBack
      /\ UNCHANGED <<plan, todo, script, curtable, added_columns, deleted_indexes, errs>>
      /\ ErrWhenAltering' = IF cur \in DOMAIN ErrWhenAltering THEN ErrWhenAltering
                            ELSE With(ErrWhenAltering, cur, "none")
  BY DEF EndTrial, undovars, TypeInv, PlaceInv
<1>2. table' \in Tables /\ saved' = <<>> /\ ~InTransaction'
  BY <1>1, RollingBack
<1>3. /\ coladd' = coladd /\ coldel' = coldel /\ colchanged' = colchanged
      /\ otheradd' = otheradd /\ otherdel' = otherdel
  BY <1>1, Unmoved
<1>4. ShapeInv' /\ ScriptInv'
  BY <1>1, <1>2 DEF TypeInv, ShapeInv, ScriptInv
<1>5. PlaceInv'
  BY <1>1, <1>2, <1>3 DEF TypeInv, PlaceInv, Early, Inside, Loops, Work
<1>6. NotesInv'
  <2>1. DOMAIN ErrWhenAltering' = DOMAIN ErrWhenAltering \cup {cur}
        /\ \A c \in DOMAIN ErrWhenAltering' :
             ErrWhenAltering'[c] =
               IF c \in DOMAIN ErrWhenAltering THEN ErrWhenAltering[c] ELSE "none"
    BY <1>1 DEF With
  <2> QED BY <1>1, <1>3, <2>1 DEF TypeInv, NotesInv, Inside
<1> QED BY <1>4, <1>5, <1>6 DEF TypeInv

LEMMA TypeStart2 == ASSUME TypeInv, Start PROVE TypeInv'
<1>1. /\ pc = "start" /\ ~InTransaction /\ saved' = saved
      /\ UNCHANGED <<plan, table, curtable, ErrWhenAltering, added_columns, deleted_indexes>>
      /\ \E phase \in {"dropall", "end", "dropindex"} : Goto(phase)
      /\ errs' = errs \/ errs' = errs \cup {"error"}
  BY DEF Start, Quit, foundvars, undovars, TypeInv, PlaceInv, Inside
<1>2. table' \in Tables /\ SavedTyped' /\ errs' \subseteq {"error", "warning"} /\ ~InTransaction'
  BY <1>1 DEF TypeInv, ShapeInv, SavedTyped, InTransaction
<1> QED BY <1>1, <1>2, GotoType DEF Late, Early, Inside

LEMMA TypeAddColumn == ASSUME TypeInv, AddColumn PROVE TypeInv'
<1> DEFINE s == Head(script)
<1>1. /\ pc = "add" /\ script # <<>> /\ ~InTransaction
      /\ UNCHANGED <<plan, curtable, ErrWhenAltering, deleted_indexes>>
      /\ added_columns \subseteq coladd /\ deleted_indexes \subseteq otherdel
      /\ errs \subseteq {"error", "warning"}
  BY DEF AddColumn, foundvars, TypeInv, PlaceInv, NotesInv, ShapeInv, Inside
<1>2. PICK x \in coladd \ todo : script \in AddLeft(x)
  BY <1>1 DEF TypeInv, ScriptInv
<1>3. /\ s.name = x /\ Tail(script) = <<>>
      /\ s = Stmt("add", x, New.cols[x]) \/ s = Stmt("add", x, Nullable(New.cols[x]))
  BY <1>2, InAdd DEF Stmt
<1>4. CASE /\ Succeeds(s) /\ added_columns' = added_columns \cup {s.name}
           /\ script' = Tail(script) /\ UNCHANGED <<pc, todo, cur, errs>>
  <2>1. table' \in Tables /\ saved' = saved
    BY <1>1, <1>4, StatementSucceeds
  <2>2. SavedTyped' /\ ~InTransaction'
    BY <1>1, <2>1 DEF TypeInv, ShapeInv, SavedTyped, InTransaction
  <2> QED BY <1>1, <1>2, <1>3, <1>4, <2>1, <2>2, StepOfScript DEF Loops, Inside
<1>5. CASE /\ FailsWith(s, "4901") /\ ~plan.destructive
           /\ script' = <<Stmt("add", s.name, Nullable(s.arg))>>
           /\ UNCHANGED <<pc, todo, cur, errs, added_columns>>
  <2>1. table' \in Tables /\ saved' = <<>> /\ ~InTransaction'
    BY <1>1, <1>5, StatementFails DEF FailsWith, InTransaction
  <2>2. /\ coladd' = coladd /\ coldel' = coldel /\ colchanged' = colchanged
        /\ otheradd' = otheradd /\ otherdel' = otherdel
        /\ AddLeft(x)' = AddLeft(x)
    BY <1>1, Unmoved
  <2>3. ShapeInv'
    BY <1>1, <1>5, <2>1 DEF TypeInv, ShapeInv
  <2>4. PlaceInv' /\ NotesInv'
    BY <1>1, <1>5, <2>1, <2>2 DEF TypeInv, PlaceInv, NotesInv, Inside, Loops, Work
  <2>5. Nullable(s.arg) = Nullable(New.cols[x])
    <3>1. s.arg = New.cols[x] \/ s.arg = Nullable(New.cols[x])
      BY <1>3 DEF Stmt
    <3>2. New.cols[x] \in ColumnDef
      BY <1>2, Types
    <3>3. \A d \in ColumnDef : Nullable(Nullable(d)) = Nullable(d)
      BY DEF Nullable, ColumnDef
    <3> QED BY <3>1, <3>2, <3>3
  <2>6. script' \in AddLeft(x)
    BY <1>3, <1>5, <2>5 DEF AddLeft
  <2>7. ScriptInv'
    BY <1>1, <1>2, <1>5, <2>2, <2>6 DEF ScriptInv
  <2> QED BY <2>3, <2>4, <2>7 DEF TypeInv
<1>6. CASE /\ \/ FailsWith(s, "4901") /\ plan.destructive
              \/ FailsWith(s, "other")
           /\ Quit /\ UNCHANGED added_columns
  <2>1. table' \in Tables /\ saved' = <<>>
    BY <1>1, <1>6, StatementFails DEF FailsWith, InTransaction
  <2>2. SavedTyped' /\ errs' \subseteq {"error", "warning"} /\ ~InTransaction'
    BY <1>1, <1>6, <2>1 DEF SavedTyped, InTransaction, Quit
  <2> QED BY <1>1, <1>6, <2>1, <2>2, GotoType DEF Quit, Late, Early, Inside
<1> QED BY <1>1, <1>4, <1>5, <1>6 DEF AddColumn

LEMMA TypeBegin == ASSUME TypeInv, Begin PROVE TypeInv'
<1>1. /\ pc = "begin" /\ ~InTransaction /\ DOMAIN ErrWhenAltering = colchanged
      /\ UNCHANGED <<plan, table, curtable, ErrWhenAltering, added_columns, deleted_indexes>>
  BY DEF Begin, foundvars, undovars, TypeInv, PlaceInv, NotesInv, Inside
<1>2. CASE saved' = <<table>> /\ Goto("delete") /\ errs' = errs
  <2>1. table' \in Tables /\ SavedTyped' /\ errs' \subseteq {"error", "warning"} /\ InTransaction'
    BY <1>1, <1>2 DEF TypeInv, ShapeInv, SavedTyped, InTransaction
  <2> QED BY <1>1, <1>2, <2>1, GotoType DEF Inside
<1>3. CASE saved' = saved /\ Goto("rollback") /\ errs' = errs \cup {"error"}
  <2>1. table' \in Tables /\ SavedTyped' /\ errs' \subseteq {"error", "warning"} /\ ~InTransaction'
    BY <1>1, <1>3 DEF TypeInv, ShapeInv, SavedTyped, InTransaction
  <2> QED BY <1>1, <1>3, <2>1, GotoType DEF Inside, Late
<1> QED BY <1>2, <1>3 DEF Begin

LEMMA TypeUpdate == ASSUME TypeInv, Update PROVE TypeInv'
<1>1. /\ pc \in {"delete", "change", "addindex"} /\ script # <<>> /\ InTransaction
      /\ UNCHANGED <<plan, curtable, ErrWhenAltering, added_columns, deleted_indexes>>
      /\ added_columns \subseteq coladd /\ deleted_indexes \subseteq otherdel
      /\ errs \subseteq {"error", "warning"}
  BY DEF Update, foundvars, undovars, TypeInv, PlaceInv, NotesInv, ShapeInv, Inside
<1>2. CASE Succeeds(Head(script)) /\ script' = Tail(script) /\ UNCHANGED <<pc, todo, cur, errs>>
  <2>1. table' \in Tables /\ saved' = saved /\ InTransaction' = InTransaction
    BY <1>1, <1>2, StatementSucceeds
  <2>2. SavedTyped'
    BY <2>1 DEF TypeInv, ShapeInv, SavedTyped
  <2> QED BY <1>1, <1>2, <2>1, <2>2, StepOfScript DEF Loops, Inside
<1>3. CASE /\ \E number \in {"4901", "515", "other"} : FailsWith(Head(script), number)
           /\ Goto("rollback") /\ errs' = errs \cup {"error"}
  <2>1. table' \in Tables /\ (saved' = <<>> \/ saved' = saved)
    BY <1>3, StatementFails DEF FailsWith
  <2>2. SavedTyped' /\ errs' \subseteq {"error", "warning"}
    BY <1>1, <1>3, <2>1 DEF TypeInv, ShapeInv, SavedTyped
  <2> QED BY <1>1, <1>3, <2>1, <2>2, GotoType DEF Inside, Late
<1> QED BY <1>2, <1>3 DEF Update

LEMMA TypeGiveUp == ASSUME TypeInv, GiveUp PROVE TypeInv'
<1>1. /\ Goto("rollback") /\ errs' = errs \cup {"error"}
      /\ UNCHANGED <<plan, table, saved, curtable, ErrWhenAltering, added_columns, deleted_indexes>>
  BY DEF GiveUp, foundvars, undovars
<1>2. table' \in Tables /\ SavedTyped' /\ errs' \subseteq {"error", "warning"}
  BY <1>1 DEF TypeInv, ShapeInv, SavedTyped
<1> QED BY <1>1, <1>2, GotoType DEF Inside, Late

LEMMA TypeCommit == ASSUME TypeInv, Commit PROVE TypeInv'
<1>1. /\ pc = "commit" /\ errs \subseteq {"error", "warning"}
      /\ UNCHANGED <<plan, curtable, ErrWhenAltering, added_columns, deleted_indexes>>
  BY DEF Commit, foundvars, undovars, TypeInv, ShapeInv
<1>2. CASE saved' = <<>> /\ Goto("nulls") /\ UNCHANGED <<table, errs>>
  <2>1. table' \in Tables /\ SavedTyped' /\ ~InTransaction'
    BY <1>2 DEF TypeInv, ShapeInv, SavedTyped, InTransaction
  <2> QED BY <1>1, <1>2, <2>1, GotoType DEF Inside, Late
<1>3. CASE Aborts /\ Goto("rollback") /\ errs' = errs \cup {"error"}
  <2>1. table' \in Tables /\ (saved' = <<>> \/ saved' = saved)
    BY <1>3, StatementFails
  <2>2. SavedTyped' /\ errs' \subseteq {"error", "warning"}
    BY <1>1, <1>3, <2>1 DEF TypeInv, ShapeInv, SavedTyped
  <2> QED BY <1>1, <1>3, <2>1, <2>2, GotoType DEF Inside, Late
<1> QED BY <1>2, <1>3 DEF Commit

LEMMA TypeRollback == ASSUME TypeInv, Rollback \/ Crash PROVE TypeInv'
<1>1. /\ RolledBack /\ (Goto("unadd") \/ Goto("crashed"))
      /\ UNCHANGED <<plan, curtable, ErrWhenAltering, added_columns, deleted_indexes, errs>>
  BY DEF Rollback, Crash, foundvars, undovars
<1>2. table' \in Tables /\ SavedTyped' /\ ~InTransaction' /\ errs' \subseteq {"error", "warning"}
  BY <1>1, RollingBack DEF SavedTyped, TypeInv, ShapeInv
<1> QED BY <1>1, <1>2, GotoType DEF Inside, Late

LEMMA TypeUndo == ASSUME TypeInv, Undo PROVE TypeInv'
<1>1. /\ pc \in {"unadd", "reindex"} /\ script # <<>> /\ ~InTransaction
      /\ UNCHANGED <<plan, pc, todo, cur, curtable, ErrWhenAltering, added_columns, deleted_indexes>>
      /\ added_columns \subseteq coladd /\ deleted_indexes \subseteq otherdel
      /\ errs \subseteq {"error", "warning"}
  BY DEF Undo, foundvars, undovars, TypeInv, PlaceInv, NotesInv, ShapeInv, Inside
<1>2. /\ \/ Succeeds(Head(script)) \/ Aborts
      /\ script' = <<>> \/ script' = Tail(script)
      /\ errs' = errs \/ errs' = errs \cup {"error"}
  BY DEF Undo, FailsWith
<1>3. table' \in Tables /\ saved' = <<>>
  <2>1. CASE Succeeds(Head(script))
    BY <1>1, <2>1, StatementSucceeds DEF InTransaction
  <2>2. CASE Aborts
    BY <1>1, <2>2, StatementFails DEF InTransaction
  <2> QED BY <1>2, <2>1, <2>2
<1>4. SavedTyped' /\ ~InTransaction' /\ errs' \subseteq {"error", "warning"}
  BY <1>1, <1>2, <1>3 DEF SavedTyped, InTransaction
<1> QED BY <1>1, <1>2, <1>3, <1>4, StepOfScript DEF Loops, Inside

LEMMA TypeEnding ==
  ASSUME TypeInv, CheckNulls \/ End \/ Again
  PROVE  TypeInv'
<1>1. /\ pc \in {"nulls", "end", "done", "crashed"} /\ saved' = saved
      /\ UNCHANGED <<plan, table, curtable, ErrWhenAltering, added_columns, deleted_indexes>>
      /\ \E phase \in {"end", "dropall", "done", "get"} : Goto(phase)
      /\ errs' = errs \/ errs' = {} \/ errs' = {"warning"}
  BY DEF CheckNulls, End, Again, foundvars, undovars
<1>2. table' \in Tables /\ SavedTyped' /\ ~InTransaction' /\ errs' \subseteq {"error", "warning"}
  BY <1>1 DEF TypeInv, ShapeInv, PlaceInv, SavedTyped, InTransaction, Inside
<1> QED BY <1>1, <1>2, GotoType DEF Inside, Late, Early

LEMMA TypeMaking == ASSUME TypeInv, DropAll \/ Create PROVE TypeInv'
<1>1. /\ pc \in {"dropall", "create"} /\ saved' = saved
      /\ UNCHANGED <<plan, curtable, ErrWhenAltering, added_columns, deleted_indexes>>
      /\ Goto("create") \/ Goto("done")
      /\ errs' = errs \/ errs' = {"error"}
      /\ \/ table' = table \/ table' = NoTable
         \/ table' = TableOf(New, "filled", FALSE)
         \/ \E I \in SUBSET DOMAIN New.idx :
              table' = [TableOf(New, "filled", FALSE) EXCEPT !.idx = Restrict(@, I)]
  BY DEF DropAll, Create, foundvars, undovars
<1>2. New \in Schema /\ table \in Tables
  BY PlanShape DEF TypeInv, ShapeInv
<1>3. table' \in Tables
  BY <1>1, <1>2, NoTableTyped, TableOfTyped DEF Data
<1>4. SavedTyped' /\ ~InTransaction' /\ errs' \subseteq {"error", "warning"}
  BY <1>1 DEF TypeInv, ShapeInv, PlaceInv, SavedTyped, InTransaction, Inside
<1> QED BY <1>1, <1>3, <1>4, GotoType DEF Inside, Late

LEMMA Stutters ==
  ASSUME UNCHANGED vars
  PROVE  UNCHANGED <<plan, table, saved, pc, curtable, todo, cur, script,
                     ErrWhenAltering, added_columns, deleted_indexes, errs, fails,
                     failed, undone, runs>>
  BY DEF vars, loopvars, foundvars, undovars, histvars

LEMMA TypeStutter ==
  ASSUME TypeInv, UNCHANGED vars
  PROVE  TypeInv'
<1>1. UNCHANGED <<plan, table, saved, pc, curtable, todo, cur, script,
                  ErrWhenAltering, added_columns, deleted_indexes, errs>>
  BY Stutters
<1>2. Work(pc)' = Work(pc) /\ coladd' = coladd /\ coldel' = coldel
      /\ colchanged' = colchanged /\ otheradd' = otheradd /\ otherdel' = otherdel
  BY <1>1, Unmoved DEF Work
<1>3. ShapeInv' /\ PlaceInv' /\ NotesInv'
  BY <1>1, <1>2 DEF TypeInv, ShapeInv, PlaceInv, NotesInv, InTransaction
<1>4. ScriptInv'
  <2>1. \A x : /\ TryingLeft(x)' = TryingLeft(x) /\ AddLeft(x)' = AddLeft(x)
               /\ AddIndexLeft(x)' = AddIndexLeft(x)
               /\ ReindexLeft(x)' = ReindexLeft(x) /\ Changing(x)' = Changing(x)
    BY <1>1, Unmoved
  <2> QED BY <1>1, <1>2, <2>1 DEF TypeInv, ScriptInv
<1> QED BY <1>3, <1>4 DEF TypeInv

LEMMA TypeStep == ASSUME TypeInv, [Next]_vars PROVE TypeInv'
  BY TypeGet, TypeStart2, TypeNextElement, TypeNextPhase, TypeDropIndex,
     TypeBeginTrial, TypeTryStatement, TypeEndTrial, TypeAddColumn, TypeBegin,
     TypeUpdate, TypeGiveUp, TypeCommit, TypeRollback, TypeUndo, TypeEnding,
     TypeMaking, TypeStutter DEF Next, Finished

\* TypeOK is always true: the scripts, notes and transactions of a run are
\* what its place in PutSchemaTable says.
THEOREM TypeCorrect == Spec => []TypeOK
<1>1. Init => TypeInv /\ CountsInv
  BY TypeStart
<1>2. TypeInv /\ CountsInv /\ [Next]_vars => TypeInv' /\ CountsInv'
  BY TypeStep, CountsStep
<1>3. TypeInv /\ CountsInv => TypeOK
  <2> SUFFICES ASSUME TypeInv, CountsInv PROVE TypeOK
    OBVIOUS
  <2>1. todo \subseteq Columns \cup Indexes /\ added_columns \subseteq Columns
        /\ deleted_indexes \subseteq Indexes
    <3>1. /\ coladd \subseteq Columns /\ coldel \subseteq Columns
          /\ colchanged \subseteq Columns /\ otheradd \subseteq Indexes
          /\ otherdel \subseteq Indexes
      BY Types, PlanShape, SchemaShape, TableShape
    <3>2. added_columns \subseteq Columns /\ deleted_indexes \subseteq Indexes
      BY <3>1 DEF TypeInv, NotesInv
    <3> QED BY <3>1, <3>2 DEF TypeInv, PlaceInv, Work, Loops
  <2>2. InTransaction => pc \in {"trying", "delete", "change", "addindex",
                                 "commit", "rollback"}
    BY DEF TypeInv, PlaceInv, Inside
  <2>3. pc = "trying" => cur \in colchanged
    BY DEF TypeInv, PlaceInv
  <2>4. pc = "change" => DOMAIN ErrWhenAltering = colchanged
    BY DEF TypeInv, NotesInv, Inside
  <2> QED BY <2>1, <2>2, <2>3, <2>4 DEF TypeOK, TypeInv, ShapeInv, CountsInv
<1> QED BY <1>1, <1>2, <1>3, PTL DEF Spec

-----------------------------------------------------------------------------
(* No column loses its data.                                                *)

LEMMA HoldsAfter ==
  ASSUME NEW t \in Tables, NEW s, Works(t, s), Holds(t),
         s.op \in {"add", "alter"} => s.arg \in ColumnDef,
         s.op = "drop" => s.name \notin DOMAIN plan.old.cols
  PROVE  Holds(After(t, s))
<1>1. CASE s.op = "dropindex"
  BY <1>1, DropIndexWorks DEF Holds
<1>2. CASE s.op = "addindex"
  BY <1>2, AddIndexWorks DEF Holds
<1>3. CASE s.op = "add"
  BY <1>3, AddWorks DEF Holds, OnlyColumn
<1>4. CASE s.op = "drop"
  BY <1>4, DropWorks DEF Holds, OnlyColumn
<1>5. CASE s.op = "alter"
  <2>1. After(t, s).cols[s.name].data = t.cols[s.name].data
        /\ OnlyColumn(t, After(t, s), s.name)
        /\ DOMAIN After(t, s).cols = DOMAIN t.cols
    BY <1>5, AlterWorks
  <2> QED BY <2>1 DEF Holds, OnlyColumn
<1>6. CASE s.op \in {"dropdefault", "adddefault"}
  <2>1. After(t, s).cols[s.name].data = t.cols[s.name].data
        /\ OnlyColumn(t, After(t, s), s.name)
        /\ DOMAIN After(t, s).cols = DOMAIN t.cols
    BY <1>6, DefaultWorks
  <2> QED BY <2>1 DEF Holds, OnlyColumn
<1> QED BY <1>1, <1>2, <1>3, <1>4, <1>5, <1>6, WorksKinds

\* Without Destructive no column that was there is ever dropped.
LEMMA OldColumnsStay ==
  ASSUME TypeInv, DataInv, ~plan.destructive, script # <<>>
  PROVE  Head(script).op = "drop" => Head(script).name \notin DOMAIN plan.old.cols
<1>1. pc \in Loops \cup {"trying"} /\ ScriptInv
  BY DEF TypeInv, PlaceInv
<1>2. CASE pc \in {"dropindex", "addindex", "reindex"}
  <2>1. \E x, y : \/ Head(script) = Stmt("dropindex", x, NoArg)
                  \/ Head(script) = Stmt("addindex", x, y)
    BY <1>1, <1>2, InDropIndex, InAddIndex, InReindex DEF ScriptInv
  <2> QED BY <2>1 DEF Stmt
<1>3. CASE pc = "delete"
  BY <1>1, <1>3 DEF ScriptInv, DataInv, Inside
<1>4. CASE pc = "unadd"
  <2>1. PICK x \in added_columns : script \in DeleteLeft(x)
    BY <1>1, <1>4 DEF ScriptInv
  <2>2. x \notin DOMAIN plan.old.cols
    <3>1. x \notin DOMAIN Old.cols /\ DOMAIN Old.cols = DOMAIN curtable.cols
      BY <2>1, Types DEF TypeInv, NotesInv, coladd
    <3> QED BY <3>1 DEF DataInv, Holds
  <2> QED BY <2>1, <2>2, DroppingSteps DEF DeleteLeft
<1>5. CASE pc = "add"
  <2>1. \E x, y : Head(script) = Stmt("add", x, y)
    BY <1>1, <1>5, InAdd DEF ScriptInv
  <2> QED BY <2>1 DEF Stmt
<1>6. ASSUME NEW x, NEW d, script \in Undefaulting(x, Altering(x, d))
      PROVE  Head(script).op # "drop"
  <2>1. \/ Head(script) = Undefault(x) \/ Head(script) = Stmt("alter", x, d)
        \/ Head(script) = Stmt("adddefault", x, NoArg)
    BY <1>6, AlteringSteps
  <2> QED BY <2>1 DEF Undefault, Stmt
<1>7. CASE pc = "trying"
  BY <1>1, <1>6, <1>7 DEF ScriptInv, TryingLeft
<1>8. CASE pc = "change"
  <2>1. PICK x \in colchanged : script \in Changing(x)
    BY <1>1, <1>8 DEF ScriptInv
  <2>2. CASE script \in Undefaulting(x, GivingUp(x))
    <3>1. \/ Head(script) = Undefault(x) \/ Head(script) = Stmt("giveup", x, NoArg)
      BY <2>2, GivingUpSteps
    <3> QED BY <3>1 DEF Undefault, Stmt
  <2> QED BY <1>6, <2>1, <2>2, ChangingKinds
<1> QED BY <1>1, <1>2, <1>3, <1>4, <1>5, <1>7, <1>8 DEF Loops

LEMMA DataStatement ==
  ASSUME TypeInv, DataInv, script # <<>>, plan' = plan, curtable' = curtable,
         Succeeds(Head(script)) \/ Aborts,
         pc' \in (Early \ {"start"}) \cup Inside =>
           pc \in (Early \ {"start"}) \cup Inside
  PROVE  DataInv'
<1> SUFFICES ASSUME ~plan.destructive PROVE DataInv'
  BY DEF DataInv
<1>1. coldel' = coldel
  BY Unmoved
<1>2. CASE Succeeds(Head(script))
  <2>1. /\ Works(table, Head(script)) /\ table' = After(table, Head(script))
        /\ saved' = saved
    BY <1>2, StatementSucceeds
  <2>2. table \in Tables /\ Holds(table)
    BY DEF TypeInv, ShapeInv, DataInv
  <2>3. Holds(After(table, Head(script)))
    BY <2>1, <2>2, HoldsAfter, HeadArg, OldColumnsStay
  <2>4. Holds(table)'
    BY <2>1, <2>3 DEF Holds
  <2> QED BY <1>1, <2>1, <2>4 DEF DataInv, InTransaction, Holds
<1>3. CASE Aborts
  <2>1. /\ InTransaction' => saved' = saved /\ table' = table
        /\ table' = table \/ (InTransaction /\ table' = saved[1])
    BY <1>3, StatementFails
  <2> QED BY <1>1, <2>1 DEF DataInv, InTransaction, Holds
<1> QED BY <1>2, <1>3

\* The steps that give a table no other contents than one it had.
LEMMA DataMove ==
  ASSUME TypeInv, DataInv, plan' = plan, curtable' \in {curtable, table},
         \/ table' = table \/ table' = Committed
         \/ ~plan.destructive => Holds(table)',
         saved' \in {<<>>, saved, <<table>>},
         pc' \in (Early \ {"start"}) \cup Inside /\ ~plan.destructive =>
           coldel' = {}
  PROVE  DataInv'
<1> SUFFICES ASSUME ~plan.destructive PROVE DataInv'
  BY DEF DataInv
<1>1. Holds(table) /\ Holds(curtable) /\ Holds(Committed)
      /\ (InTransaction => Holds(saved[1]))
  BY DEF DataInv, Committed
<1>2. Holds(table)' /\ Holds(curtable)'
  BY <1>1 DEF Holds
<1>3. InTransaction' => Holds(saved[1])'
  BY <1>1 DEF Holds, InTransaction
<1> QED BY <1>2, <1>3 DEF DataInv

LEMMA DataStep == ASSUME TypeInv, DataInv, [Next]_vars PROVE DataInv'
<1> USE DEF foundvars
<1>1. CASE UNCHANGED vars
  <2>1. UNCHANGED <<plan, table, saved, pc, curtable>>
    BY <1>1, Stutters
  <2>2. coldel' = coldel
    BY <2>1, Unmoved
  <2> QED BY <2>1, <2>2, DataMove DEF DataInv
<1>2. CASE Get
  <2>1. pc' = "start" /\ plan' = plan /\ curtable' = table /\ table' = table /\ saved' = saved
    BY <1>2 DEF Get
  <2> QED BY <2>1, DataMove DEF Early, Inside
<1>3. CASE Start
  <2>1. /\ plan' = plan /\ curtable' = curtable /\ table' = table /\ saved' = saved
        /\ pc' = "dropall" \/ pc' = "end" \/ (pc' = "dropindex" /\ (plan.destructive \/ coldel = {}))
    BY <1>3 DEF Start, Quit, Goto
  <2>2. coldel' = coldel
    BY <2>1, Unmoved
  <2> QED BY <2>1, <2>2, DataMove DEF Early, Inside
<1>4. CASE NextElement \/ NextPhase
  <2>1. /\ plan' = plan /\ curtable' = curtable /\ table' = table /\ saved' = saved
        /\ pc' = pc \/ (pc \in Loops \cup {"trial"} /\ pc' = Following[pc])
    BY <1>4 DEF NextElement, NextPhase, Goto
  <2>2. coldel' = coldel
    BY <2>1, Unmoved
  <2>3. pc \in Loops \cup {"trial"} /\ Following[pc] \in (Early \ {"start"}) \cup Inside
          => pc \in (Early \ {"start"}) \cup Inside
    BY DEF Following, Loops, Early, Inside
  <2> QED BY <2>1, <2>2, <2>3, DataMove DEF DataInv
<1>5. CASE DropIndex \/ TryStatement \/ AddColumn \/ Update \/ Undo
  <2>1. /\ plan' = plan /\ curtable' = curtable /\ script # <<>>
        /\ Succeeds(Head(script)) \/ Aborts
        /\ pc' \in {pc, "end", "rollback"}
    BY <1>5 DEF DropIndex, TryStatement, AddColumn, Update, Undo, FailsWith, Quit, Goto
  <2>2. pc' \in (Early \ {"start"}) \cup Inside => pc \in (Early \ {"start"}) \cup Inside
    BY <2>1 DEF Early, Inside
  <2> QED BY <2>1, <2>2, DataStatement
<1>6. CASE BeginTrial \/ EndTrial \/ Begin \/ GiveUp
  <2>1. /\ plan' = plan /\ curtable' = curtable
        /\ table' = table \/ table' = Committed
        /\ saved' \in {<<>>, saved, <<table>>}
        /\ pc \in (Early \ {"start"}) \cup Inside
    BY <1>6 DEF BeginTrial, EndTrial, Begin, GiveUp, RolledBack, Quit, Goto, Early, Inside
  <2>2. coldel' = coldel
    BY <2>1, Unmoved
  <2> QED BY <2>1, <2>2, DataMove DEF DataInv
<1>7. CASE Commit
  <2>1. /\ plan' = plan /\ curtable' = curtable /\ pc' \in {"nulls", "rollback"}
        /\ \/ saved' = <<>> /\ table' = table
           \/ Aborts
    BY <1>7 DEF Commit, Goto
  <2>2. CASE Aborts
    <3>1. /\ saved' = <<>> \/ saved' = saved
          /\ table' = table \/ (InTransaction /\ table' = saved[1])
      BY <2>2, StatementFails
    <3> QED BY <2>1, <3>1, DataMove DEF Early, Inside, Committed
  <2> QED BY <2>1, <2>2, DataMove DEF Early, Inside
<1>8. CASE Rollback \/ Crash \/ CheckNulls \/ End \/ Again
  <2>1. /\ plan' = plan /\ curtable' = curtable
        /\ pc' \in {"unadd", "crashed", "end", "dropall", "done", "get"}
        /\ table' = table \/ table' = Committed
        /\ saved' = <<>> \/ saved' = saved
    BY <1>8 DEF Rollback, Crash, CheckNulls, End, Again, RolledBack, Goto
  <2> QED BY <2>1, DataMove DEF Early, Inside
<1>9. CASE DropAll \/ Create
  <2>1. /\ plan' = plan /\ curtable' = curtable /\ saved' = saved
        /\ pc' \in {"create", "done"}
        /\ table' = table \/ plan.destructive \/ table = NoTable
    BY <1>9 DEF DropAll, Create, Goto
  <2>2. ASSUME table = NoTable, ~plan.destructive PROVE Holds(table)'
    <3>1. DOMAIN plan.old.cols = {}
      BY <2>2 DEF DataInv, Holds, NoTable
    <3> QED BY <2>1, <3>1 DEF Holds
  <2> QED BY <2>1, <2>2, DataMove DEF Early, Inside
<1> QED BY <1>1, <1>2, <1>3, <1>4, <1>5, <1>6, <1>7, <1>8, <1>9 DEF Next, Finished

\* DataKept is always true: without Destructive nothing costs a column its
\* rows, for any plan, any failures and any number of attempts.
THEOREM KeepsData == Spec => []DataKept
<1>1. Init => DataInv
  <2> SUFFICES ASSUME Init PROVE DataInv
    OBVIOUS
  <2>1. plan \in Plan /\ plan.old \in Schema
    BY PlansAssumption, PlanShape DEF Init
  <2>2. plan.old.cols \in [DOMAIN plan.old.cols -> ColumnDef]
    BY <2>1, SchemaShape
  <2>3. Holds(table) /\ curtable = table /\ saved = <<>> /\ pc = "get"
    BY <2>2 DEF Init, Holds, TableOf, Col
  <2> QED BY <2>3 DEF DataInv, InTransaction, Early, Inside
<1>2. DataInv => DataKept
  BY DEF DataInv, DataKept, Holds, Committed
<1> QED BY TypeStart, TypeStep, DataStep, <1>1, <1>2, PTL DEF Spec

-----------------------------------------------------------------------------
(* Failures and trials leave nothing behind.                                *)

LEMMA FoundMove ==
  ASSUME UndoInv, plan' = plan, curtable' = curtable,
         added_columns' = added_columns, deleted_indexes' = deleted_indexes,
         pc' \in Early \cup Inside \cup {"rollback"} =>
           pc \in Early \cup Inside \cup {"rollback"} /\ Committed' = Committed,
         pc' \in {"start", "dropindex", "trial", "trying"} =>
           pc \in {"start", "dropindex", "trial", "trying"},
         pc' = "trying" /\ script' # <<>> => InTransaction',
         pc' \notin {"unadd", "reindex"}
  PROVE  UndoInv'
  BY DEF UndoInv, Found

LEMMA FoundEquals ==
  ASSUME NEW t \in Tables, curtable \in Tables, Found(t, {}, {})
  PROVE  t = curtable /\ t.cols = curtable.cols
<1>1. /\ t = [cols |-> t.cols, idx |-> t.idx, rows |-> t.rows]
      /\ t.cols \in [DOMAIN t.cols -> ColType] /\ t.idx \in [DOMAIN t.idx -> Columns]
  BY TableShape
<1>2. /\ curtable = [cols |-> curtable.cols, idx |-> curtable.idx, rows |-> curtable.rows]
      /\ curtable.cols \in [DOMAIN curtable.cols -> ColType]
      /\ curtable.idx \in [DOMAIN curtable.idx -> Columns]
  BY TableShape
<1>3. t.cols = curtable.cols /\ t.idx = curtable.idx /\ t.rows = curtable.rows
  BY <1>1, <1>2 DEF Found
<1> QED BY <1>1, <1>2, <1>3

LEMMA UndoNextElement ==
  ASSUME TypeInv, UndoInv, NextElement PROVE UndoInv'
<1>1. PICK x \in todo : script' = ScriptFor(pc, x) /\ todo' = todo \ {x}
  BY DEF NextElement
<1>2. /\ pc \in Loops /\ script = <<>>
      /\ UNCHANGED <<plan, table, saved, pc, curtable, added_columns, deleted_indexes, undone>>
  BY DEF NextElement, foundvars, undovars, histvars
<1>3. Committed' = Committed
  BY <1>2 DEF Committed, InTransaction
<1>4. CASE pc \notin {"unadd", "reindex"}
  BY <1>2, <1>3, <1>4, FoundMove DEF Loops
<1>5. CASE pc = "unadd"
  <2>1. script' # <<>> /\ Head(script').name = x
    BY <1>1, <1>2, <1>5, NextScript, DroppingSteps DEF DeleteLeft
  <2>2. Left' = Left
    BY <1>1, <1>2, <2>1 DEF Left, Busy
  <2> QED BY <1>2, <1>5, <2>2 DEF UndoInv, Found, Early, Inside
<1>6. CASE pc = "reindex"
  <2>1. script' \in ReindexLeft(x)
    BY <1>1, <1>2, <1>6, NextScript
  <2>2. script' # <<>> /\ Head(script').name = x
    BY <2>1, Single DEF ReindexLeft, Stmt
  <2>3. Left' = Left
    BY <1>1, <1>2, <2>2 DEF Left, Busy
  <2> QED BY <1>2, <1>6, <2>3 DEF UndoInv, Found, Early, Inside
<1> QED BY <1>4, <1>5, <1>6

LEMMA UndoNextPhase ==
  ASSUME TypeInv, UndoInv, NextPhase PROVE UndoInv'
<1>1. /\ pc \in Loops \cup {"trial"} /\ script = <<>> /\ todo = {}
      /\ Goto(Following[pc]) /\ pc' = Following[pc]
      /\ UNCHANGED <<plan, table, saved, curtable, added_columns, deleted_indexes, undone>>
  BY DEF NextPhase, foundvars, undovars, histvars, Goto
<1>2. Committed' = Committed
  BY <1>1 DEF Committed, InTransaction
<1>3. CASE pc # "unadd"
  <2>1. /\ pc' \notin {"unadd", "reindex", "trying", "start", "dropindex"}
        /\ pc' = "trial" => pc = "dropindex"
        /\ pc' \in Early \cup Inside \cup {"rollback"} =>
             pc \in Early \cup Inside \cup {"rollback"}
    BY <1>1, <1>3 DEF Following, Loops, Early, Inside
  <2> QED BY <1>1, <1>2, <2>1, FoundMove
<1>4. CASE pc = "unadd"
  <2>1. pc' = "reindex" /\ Left = {} /\ Left' = deleted_indexes
    BY <1>1, <1>4 DEF Following, Left, Busy, Goto, Work, Loops
  <2> QED BY <1>1, <1>4, <2>1 DEF UndoInv, Found, Early, Inside
<1> QED BY <1>3, <1>4

LEMMA UndoDropIndex ==
  ASSUME TypeInv, UndoInv, DropIndex PROVE UndoInv'
<1>1. /\ pc = "dropindex" /\ script # <<>> /\ ~InTransaction
      /\ UNCHANGED <<plan, curtable, added_columns>>
  BY DEF DropIndex, foundvars, TypeInv, PlaceInv, Inside
<1>2. CASE Quit /\ UNCHANGED deleted_indexes
  BY <1>1, <1>2, FoundMove DEF Quit, Goto, Early, Inside
<1>3. CASE /\ Succeeds(Head(script)) /\ pc' = pc
           /\ deleted_indexes' = deleted_indexes \cup {Head(script).name}
  <2> DEFINE s == Head(script)
  <2>1. /\ Works(table, s) /\ table' = After(table, s) /\ ~InTransaction'
        /\ Committed = table /\ Committed' = table'
    BY <1>1, <1>3, StatementSucceeds
  <2>2. s.op = "dropindex"
    BY <1>1, InDropIndex DEF TypeInv, ScriptInv, Stmt
  <2>3. /\ s.name \in DOMAIN table.idx
        /\ table'.cols = table.cols /\ table'.rows = table.rows
        /\ DOMAIN table'.idx = DOMAIN table.idx \ {s.name}
        /\ \A i \in DOMAIN table.idx \ {s.name} : table'.idx[i] = table.idx[i]
    BY <2>1, <2>2, Types, DropIndexWorks
  <2> HIDE DEF s
  <2>4. Found(table, added_columns, deleted_indexes) /\ added_columns = {}
    BY <1>1, <2>1 DEF UndoInv, Early
  <2>5. Found(Committed, added_columns, deleted_indexes)'
    BY <1>1, <1>3, <2>1, <2>3, <2>4 DEF Found, s
  <2> QED BY <1>1, <1>3, <2>4, <2>5 DEF UndoInv
<1> QED BY <1>2, <1>3 DEF DropIndex

LEMMA UndoAddColumn ==
  ASSUME TypeInv, UndoInv, AddColumn PROVE UndoInv'
<1> DEFINE s == Head(script)
<1>1. /\ pc = "add" /\ script # <<>> /\ ~InTransaction
      /\ UNCHANGED <<plan, curtable, deleted_indexes>>
  BY DEF AddColumn, foundvars, TypeInv, PlaceInv, Inside
<1>2. CASE Quit /\ UNCHANGED added_columns
  BY <1>1, <1>2, FoundMove DEF Quit, Goto, Early, Inside
<1>3. CASE /\ FailsWith(s, "4901") /\ UNCHANGED <<pc, added_columns>>
  <2>1. Committed' = Committed
    BY <1>3, StatementFails DEF FailsWith
  <2> QED BY <1>1, <1>3, <2>1, FoundMove
<1>4. CASE Succeeds(s) /\ pc' = pc /\ added_columns' = added_columns \cup {s.name}
  <2>1. /\ Works(table, s) /\ table' = After(table, s) /\ ~InTransaction'
        /\ Committed = table /\ Committed' = table'
    BY <1>1, <1>4, StatementSucceeds
  <2>2. s.op = "add" /\ s.arg \in ColumnDef
    <3>1. s.op = "add"
      BY <1>1, InAdd DEF TypeInv, ScriptInv, Stmt
    <3> QED BY <1>1, <3>1, HeadArg
  <2>3. /\ OnlyColumn(table, table', s.name)
        /\ s.name \notin DOMAIN table.cols
        /\ DOMAIN table'.cols = DOMAIN table.cols \cup {s.name}
    BY <2>1, <2>2, Types, AddWorks
  <2> HIDE DEF s
  <2>4. Found(table, added_columns, deleted_indexes)
    BY <1>1, <2>1 DEF UndoInv, Early
  <2>5. Found(Committed, added_columns, deleted_indexes)'
    BY <1>1, <1>4, <2>1, <2>3, <2>4 DEF Found, OnlyColumn
  <2> QED BY <1>1, <1>4, <2>5 DEF UndoInv
<1> QED BY <1>2, <1>3, <1>4 DEF AddColumn

LEMMA UndoUndo ==
  ASSUME TypeInv, UndoInv, Undo PROVE UndoInv'
<1> DEFINE s == Head(script)
<1>1. /\ pc \in {"unadd", "reindex"} /\ script # <<>> /\ ScriptInv
      /\ UNCHANGED <<plan, pc, todo, curtable, added_columns, deleted_indexes>>
  BY DEF Undo, foundvars, undovars, TypeInv
<1>2. CASE undone' = FALSE
  BY <1>1, <1>2 DEF UndoInv, Early, Inside
<1>3. CASE Succeeds(s) /\ script' = Tail(script) /\ undone' = undone /\ undone
  <2>1. Works(table, s) /\ table' = After(table, s) /\ table \in Tables
    BY <1>1, <1>3, StatementSucceeds, Types
  <2>2. CASE pc = "unadd"
    <3>1. PICK x \in added_columns \ todo : script \in DeleteLeft(x)
      BY <1>1, <2>2 DEF ScriptInv
    <3>2. x \notin DOMAIN curtable.cols
      BY <3>1, Types DEF TypeInv, NotesInv, coladd
    <3>3. Found(table, todo \cup {x}, deleted_indexes)
      BY <1>1, <1>3, <2>2, <3>1, DroppingSteps DEF UndoInv, DeleteLeft, Left, Busy
    <3>4. CASE s = Undefault(x) /\ Tail(script) \in Dropping(x)
      <4>1. s.op = "dropdefault" /\ s.name = x
        BY <3>4 DEF Undefault, Stmt
      <4>2. OnlyColumn(table, table', x) /\ DOMAIN table'.cols = DOMAIN table.cols
        BY <2>1, <4>1, DefaultWorks
      <4>3. script' \in DeleteLeft(x)
        BY <1>3, <3>4, TailStays DEF DeleteLeft
      <4>4. Left' = todo \cup {x}
        BY <1>1, <4>3, DroppingSteps DEF Left, Busy, DeleteLeft
      <4>5. Found(table, Left, deleted_indexes)'
        BY <1>1, <3>2, <3>3, <4>2, <4>4 DEF Found, OnlyColumn
      <4> QED BY <1>1, <2>2, <4>5 DEF UndoInv, Early, Inside
    <3>5. CASE s = Stmt("drop", x, NoArg) /\ Tail(script) = <<>>
      <4>1. s.op = "drop" /\ s.name = x
        BY <3>5 DEF Stmt
      <4>2. OnlyColumn(table, table', x) /\ DOMAIN table'.cols = DOMAIN table.cols \ {x}
        BY <2>1, <4>1, DropWorks
      <4>3. Left' = todo
        BY <1>1, <1>3, <3>5 DEF Left, Busy
      <4>4. Found(table, Left, deleted_indexes)'
        BY <1>1, <3>1, <3>2, <3>3, <4>2, <4>3 DEF Found, OnlyColumn
      <4> QED BY <1>1, <2>2, <4>4 DEF UndoInv, Early, Inside
    <3> QED BY <3>1, <3>4, <3>5, DroppingSteps DEF DeleteLeft
  <2>3. CASE pc = "reindex"
    <3>1. PICK x \in deleted_indexes \ todo : script \in ReindexLeft(x)
      BY <1>1, <2>3 DEF ScriptInv
    <3>2. s = Stmt("addindex", x, Old.idx[x]) /\ Tail(script) = <<>>
      BY <3>1, InReindex
    <3>3. s.op = "addindex" /\ s.name = x /\ s.arg = curtable.idx[x]
          /\ x \in DOMAIN curtable.idx
      BY <3>1, <3>2, Types DEF Stmt, TypeInv, NotesInv
    <3>4. Found(table, {}, todo \cup {x}) /\ Left' = todo
      BY <1>1, <1>3, <2>3, <3>2, <3>3 DEF UndoInv, Left, Busy
    <3>5. /\ table'.cols = table.cols /\ table'.rows = table.rows
          /\ DOMAIN table'.idx = DOMAIN table.idx \cup {x}
          /\ \A i \in DOMAIN table.idx : table'.idx[i] = table.idx[i]
          /\ table'.idx[x] = curtable.idx[x]
      BY <2>1, <3>3, AddIndexWorks
    <3>6. Found(table, {}, Left)'
      BY <1>1, <3>1, <3>3, <3>4, <3>5 DEF Found
    <3> QED BY <1>1, <2>3, <3>6 DEF UndoInv, Early, Inside
  <2> QED BY <1>1, <2>2, <2>3
<1>4. CASE undone' = undone /\ undone # TRUE
  BY <1>1, <1>4 DEF UndoInv, Early, Inside
<1> QED BY <1>2, <1>3, <1>4 DEF Undo

LEMMA UndoStep == ASSUME TypeInv, UndoInv, [Next]_vars PROVE UndoInv'
<1> USE DEF foundvars, undovars
<1>1. CASE UNCHANGED vars
  <2>1. UNCHANGED <<plan, table, saved, pc, curtable, todo, script, added_columns,
                    deleted_indexes, undone>>
    BY <1>1, Stutters
  <2>2. Committed' = Committed /\ Left' = Left /\ InTransaction' = InTransaction
    BY <2>1 DEF Committed, InTransaction, Left, Busy
  <2> QED BY <2>1, <2>2 DEF UndoInv, Found
<1>2. CASE Get
  <2>1. /\ pc = "get" /\ pc' = "start" /\ curtable' = table /\ table' = table /\ saved' = saved
        /\ added_columns' = {} /\ deleted_indexes' = {}
    BY <1>2 DEF Get
  <2>2. Committed' = curtable'
    BY <2>1 DEF Committed, InTransaction, TypeInv, PlaceInv, Inside
  <2> QED BY <2>1, <2>2 DEF UndoInv, Found
<1>3. CASE Start
  <2>1. /\ UNCHANGED <<plan, curtable, table, saved, added_columns, deleted_indexes>>
        /\ pc = "start" /\ pc' \in {"dropall", "end", "dropindex"}
    BY <1>3 DEF Start, Quit, Goto
  <2>2. Committed' = Committed
    BY <2>1 DEF Committed, InTransaction
  <2> QED BY <2>1, <2>2, FoundMove DEF Early
<1>4. CASE BeginTrial
  <2>1. /\ UNCHANGED <<plan, curtable, table, added_columns, deleted_indexes>>
        /\ pc = "trial"
        /\ \/ saved' = <<table>> /\ pc' = "trying"
           \/ pc' = "end"
    BY <1>4 DEF BeginTrial, Quit, Goto
  <2>2. pc' = "trying" => Committed' = Committed /\ InTransaction'
    BY <2>1 DEF Committed, InTransaction, TypeInv, PlaceInv, Inside
  <2> QED BY <2>1, <2>2, FoundMove DEF Early, Inside
<1>5. CASE TryStatement
  <2>1. /\ UNCHANGED <<plan, curtable, pc, added_columns, deleted_indexes>>
        /\ pc = "trying" /\ script # <<>>
        /\ Succeeds(Head(script)) \/ (Aborts /\ script' = <<>>)
    BY <1>5 DEF TryStatement, FailsWith
  <2>2. InTransaction
    BY <2>1 DEF UndoInv
  <2>3. Committed' = Committed /\ (script' # <<>> => InTransaction')
    BY <2>1, <2>2, StatementSucceeds, StatementFails
  <2> QED BY <2>1, <2>3, FoundMove
<1>6. CASE EndTrial
  <2>1. /\ UNCHANGED <<plan, curtable, script, added_columns, deleted_indexes>>
        /\ pc = "trying" /\ pc' = "trial" /\ RolledBack
    BY <1>6 DEF EndTrial
  <2>2. Committed' = Committed
    BY <2>1, RollingBack
  <2> QED BY <2>1, <2>2, FoundMove DEF Early
<1>7. CASE Begin
  <2>1. /\ UNCHANGED <<plan, curtable, table, added_columns, deleted_indexes>>
        /\ pc = "begin" /\ pc' \in {"delete", "rollback"}
        /\ saved' = <<table>> \/ saved' = saved
    BY <1>7 DEF Begin, Goto
  <2>2. Committed' = Committed
    BY <2>1 DEF Committed, InTransaction, TypeInv, PlaceInv, Inside
  <2> QED BY <2>1, <2>2, FoundMove DEF Early, Inside
<1>8. CASE Update
  <2>1. /\ UNCHANGED <<plan, curtable, added_columns, deleted_indexes>>
        /\ pc \in {"delete", "change", "addindex"} /\ script # <<>>
        /\ pc' \in {pc, "rollback"}
        /\ Succeeds(Head(script)) \/ Aborts
    BY <1>8 DEF Update, FailsWith, Goto
  <2>2. InTransaction
    BY <2>1 DEF TypeInv, PlaceInv, Inside
  <2>3. Committed' = Committed
    BY <2>1, <2>2, StatementSucceeds, StatementFails
  <2> QED BY <2>1, <2>3, FoundMove DEF Early, Inside
<1>9. CASE GiveUp
  <2>1. /\ UNCHANGED <<plan, curtable, table, saved, added_columns, deleted_indexes>>
        /\ pc = "change" /\ pc' = "rollback"
    BY <1>9 DEF GiveUp, Goto
  <2>2. Committed' = Committed
    BY <2>1 DEF Committed, InTransaction
  <2> QED BY <2>1, <2>2, FoundMove DEF Inside
<1>10. CASE Commit
  <2>1. /\ UNCHANGED <<plan, curtable, added_columns, deleted_indexes>>
        /\ pc = "commit"
        /\ pc' = "nulls" \/ (pc' = "rollback" /\ Aborts)
    BY <1>10 DEF Commit, Goto
  <2>2. pc' = "rollback" => Committed' = Committed
    BY <2>1, StatementFails
  <2> QED BY <2>1, <2>2, FoundMove DEF Early, Inside
<1>11. CASE Rollback
  <2>1. /\ UNCHANGED <<plan, curtable, added_columns, deleted_indexes>>
        /\ pc = "rollback" /\ pc' = "unadd" /\ script' = <<>>
        /\ todo' = added_columns /\ RolledBack
    BY <1>11 DEF Rollback, Goto, Work, Loops
  <2>2. table' = Committed /\ Left' = added_columns
    BY <2>1, RollingBack DEF Left, Busy
  <2> QED BY <2>1, <2>2 DEF UndoInv, Found, Early, Inside
<1>12. CASE Crash \/ CheckNulls \/ End \/ Again \/ DropAll \/ Create
  <2>1. /\ UNCHANGED <<plan, curtable, added_columns, deleted_indexes>>
        /\ pc' \in {"crashed", "end", "dropall", "done", "get", "create"}
    BY <1>12 DEF Crash, CheckNulls, End, Again, DropAll, Create, Goto
  <2> QED BY <2>1, FoundMove DEF Early, Inside
<1> QED BY <1>1, <1>2, <1>3, <1>4, <1>5, <1>6, <1>7, <1>8, <1>9, <1>10, <1>11,
           <1>12, UndoNextElement, UndoNextPhase, UndoDropIndex, UndoAddColumn,
           UndoUndo DEF Next, Finished

\* FailuresLeaveNothing is always true: a put that fails inside the transaction
\* and could undo what it did before it leaves the table as it was found, and
\* no trial leaves a trace, wherever statements fail and the server rolls back.
THEOREM LeavesNothing == Spec => []FailuresLeaveNothing
<1>1. Init => UndoInv
  BY DEF Init, UndoInv, Early, Inside
<1>2. TypeInv /\ UndoInv => FailuresLeaveNothing
  <2> SUFFICES ASSUME TypeInv, UndoInv PROVE FailuresLeaveNothing
    OBVIOUS
  <2>1. FailureUndone
    <3> SUFFICES ASSUME pc = "reindex", todo = {}, script = <<>>, undone
                 PROVE  table = curtable
      BY DEF FailureUndone
    <3>1. Found(table, {}, {})
      BY DEF UndoInv, Left, Busy
    <3> QED BY <3>1, FoundEquals, Types
  <2>2. TrialsLeaveNoTrace
    <3>1. ASSUME pc \in {"trial", "trying"} PROVE Committed.cols = curtable.cols
      <4>1. Found(Committed, {}, deleted_indexes)
        BY <3>1 DEF UndoInv, Early
      <4>2. Committed \in Tables /\ curtable \in Tables
        BY DEF TypeInv, ShapeInv, Committed, InTransaction
      <4> QED BY <4>1, <4>2, TableShape DEF Found
    <3>2. pc = "trial" => Committed = table
      BY DEF TypeInv, PlaceInv, Committed, Inside
    <3> QED BY <3>1, <3>2 DEF TrialsLeaveNoTrace
  <2> QED BY <2>1, <2>2 DEF FailuresLeaveNothing
<1> QED BY TypeStart, TypeStep, UndoStep, <1>1, <1>2, PTL DEF Spec

-----------------------------------------------------------------------------
(* What the trials find out holds of the table that was found.              *)

LEMMA TrialKeeps ==
  ASSUME TrialInv, plan' = plan, curtable' = curtable, pc' # "trying",
         ErrWhenAltering' = ErrWhenAltering
  PROVE  TrialInv'
<1>1. \A c : NullsMet(c)' = NullsMet(c)
  BY DEF NullsMet, HasNulls, New
<1> QED BY <1>1 DEF TrialInv

LEMMA TrialTry == ASSUME TypeInv, UndoInv, TrialInv, TryStatement PROVE TrialInv'
<1> DEFINE s == Head(script)
<1>1. /\ pc = "trying" /\ pc' = "trying" /\ script # <<>> /\ cur' = cur
      /\ plan' = plan /\ curtable' = curtable
      /\ script \in TryingLeft(cur) /\ cur \in colchanged /\ InTransaction
  BY DEF TryStatement, TypeInv, ScriptInv, PlaceInv, UndoInv
<1>2. /\ table.rows = curtable.rows /\ cur \in DOMAIN table.cols
      /\ table.cols[cur].data = curtable.cols[cur].data
      /\ \A c \in DOMAIN ErrWhenAltering : ErrWhenAltering[c] = "515" => NullsMet(c)
  BY <1>1 DEF TrialInv
<1>3. \A c : NullsMet(c)' = NullsMet(c)
  BY <1>1 DEF NullsMet, HasNulls, New
<1>4. \/ s = Undefault(cur) \/ s = Stmt("alter", cur, New.cols[cur])
      \/ s = Stmt("adddefault", cur, NoArg)
  BY <1>1, AlteringSteps DEF TryingLeft
<1>5. s.op \in {"alter", "dropdefault", "adddefault"} /\ s.name = cur
      /\ (s.op = "alter" => s.arg = New.cols[cur])
  BY <1>4 DEF Undefault, Stmt
<1>6. CASE Succeeds(s) /\ UNCHANGED ErrWhenAltering
  <2>1. Works(table, s) /\ table' = After(table, s) /\ table \in Tables
        /\ (s.op = "alter" => s.arg \in ColumnDef)
    BY <1>1, <1>5, <1>6, StatementSucceeds, Types
  <2>2. table'.rows = table.rows /\ cur \in DOMAIN table'.cols
        /\ table'.cols[cur].data = table.cols[cur].data
    <3>1. CASE s.op = "alter"
      BY <1>5, <2>1, <3>1, AlterWorks DEF OnlyColumn
    <3>2. CASE s.op \in {"dropdefault", "adddefault"}
      BY <1>5, <2>1, <3>2, DefaultWorks DEF OnlyColumn
    <3> QED BY <1>5, <3>1, <3>2
  <2> QED BY <1>1, <1>2, <1>3, <1>6, <2>2 DEF TrialInv
<1>7. ASSUME NEW number \in {"4901", "515", "other"}, FailsWith(s, number),
             ErrWhenAltering' = With(ErrWhenAltering, cur, number)
      PROVE  TrialInv'
  <2>1. table' = table \/ (InTransaction /\ table' = saved[1])
    BY <1>7, StatementFails DEF FailsWith
  <2>2. table'.rows = curtable.rows /\ cur \in DOMAIN table'.cols
        /\ table'.cols[cur].data = curtable.cols[cur].data
    <3>1. Found(saved[1], added_columns, deleted_indexes)
      BY <1>1 DEF UndoInv, Committed, Early
    <3>2. cur \in DOMAIN curtable.cols
      BY <1>1, Types
    <3> QED BY <1>2, <2>1, <3>1, <3>2 DEF Found
  <2>3. number = "515" => NullsMet(cur)
    <3> SUFFICES ASSUME number = "515" PROVE NullsMet(cur)
      OBVIOUS
    <3>1. AlterMeetsNull(table, s)
      BY <1>7 DEF FailsWith, Number
    <3>2. s.op = "alter" /\ ~s.arg.null /\ HasNulls(table, s.name)
      BY <3>1 DEF AlterMeetsNull, Is
    <3> QED BY <1>2, <1>5, <3>2 DEF NullsMet, HasNulls
  <2>4. /\ DOMAIN ErrWhenAltering' = DOMAIN ErrWhenAltering \cup {cur}
        /\ \A c \in DOMAIN ErrWhenAltering' :
             ErrWhenAltering'[c] = IF c = cur THEN number ELSE ErrWhenAltering[c]
    BY <1>7 DEF With
  <2> QED BY <1>1, <1>2, <1>3, <2>2, <2>3, <2>4 DEF TrialInv
<1> QED BY <1>6, <1>7 DEF TryStatement

LEMMA TrialStep == ASSUME TypeInv, UndoInv, TrialInv, [Next]_vars PROVE TrialInv'
<1>1. CASE UNCHANGED vars
  <2>1. UNCHANGED <<plan, table, pc, curtable, cur, ErrWhenAltering>>
    BY <1>1, Stutters
  <2>2. \A c : NullsMet(c)' = NullsMet(c)
    BY <2>1 DEF NullsMet, HasNulls, New
  <2> QED BY <2>1, <2>2 DEF TrialInv
<1>2. CASE Get
  BY <1>2 DEF Get, TrialInv
<1>3. CASE BeginTrial
  <2>1. /\ plan' = plan /\ table' = table /\ curtable' = curtable
        /\ ErrWhenAltering' = ErrWhenAltering /\ pc = "trial" /\ ~InTransaction
    BY <1>3 DEF BeginTrial, foundvars, TypeInv, PlaceInv, Inside
  <2>2. CASE pc' = "trying" /\ \E c \in todo : cur' = c
    <3>1. cur' \in colchanged
      BY <2>1, <2>2 DEF TypeInv, PlaceInv, Work
    <3>2. Found(table, added_columns, deleted_indexes) /\ cur' \in DOMAIN curtable.cols
      BY <2>1, <3>1, Types DEF UndoInv, Early, Committed
    <3>3. \A c : NullsMet(c)' = NullsMet(c)
      BY <2>1 DEF NullsMet, HasNulls, New
    <3> QED BY <2>1, <2>2, <3>2, <3>3 DEF TrialInv, Found
  <2>3. CASE Quit
    BY <2>1, <2>3, TrialKeeps DEF Quit, Goto
  <2> QED BY <1>3, <2>2, <2>3 DEF BeginTrial
<1>4. CASE EndTrial
  <2>1. /\ plan' = plan /\ curtable' = curtable /\ pc' = "trial"
        /\ ErrWhenAltering' = IF cur \in DOMAIN ErrWhenAltering THEN ErrWhenAltering
                              ELSE With(ErrWhenAltering, cur, "none")
    BY <1>4 DEF EndTrial
  <2>2. /\ DOMAIN ErrWhenAltering' = DOMAIN ErrWhenAltering \cup {cur}
        /\ \A c \in DOMAIN ErrWhenAltering' :
             ErrWhenAltering'[c] =
               IF c \in DOMAIN ErrWhenAltering THEN ErrWhenAltering[c] ELSE "none"
    <3>1. CASE cur \in DOMAIN ErrWhenAltering
      BY <2>1, <3>1
    <3>2. CASE cur \notin DOMAIN ErrWhenAltering
      BY <2>1, <3>2 DEF With
    <3> QED BY <3>1, <3>2
  <2>3. \A c : NullsMet(c)' = NullsMet(c)
    BY <2>1 DEF NullsMet, HasNulls, New
  <2> QED BY <2>1, <2>2, <2>3 DEF TrialInv
<1>5. CASE Start \/ NextElement \/ NextPhase \/ DropIndex \/ AddColumn
  <2>1. plan' = plan /\ curtable' = curtable /\ ErrWhenAltering' = ErrWhenAltering
    BY <1>5 DEF Start, NextElement, NextPhase, DropIndex, AddColumn, foundvars
  <2>2. pc' # "trying"
    BY <1>5 DEF Start, NextElement, NextPhase, DropIndex, AddColumn, Quit, Goto,
                Following, Loops
  <2> QED BY <2>1, <2>2, TrialKeeps
<1>6. CASE Begin \/ Update \/ GiveUp \/ Commit \/ Rollback \/ Undo
  <2>1. plan' = plan /\ curtable' = curtable /\ ErrWhenAltering' = ErrWhenAltering
        /\ pc' # "trying"
    BY <1>6 DEF Begin, Update, GiveUp, Commit, Rollback, Undo, foundvars, Goto
  <2> QED BY <2>1, TrialKeeps
<1>7. CASE CheckNulls \/ End \/ DropAll \/ Create \/ Crash \/ Again
  <2>1. plan' = plan /\ curtable' = curtable /\ ErrWhenAltering' = ErrWhenAltering
        /\ pc' # "trying"
    BY <1>7 DEF CheckNulls, End, DropAll, Create, Crash, Again, foundvars, Goto
  <2> QED BY <2>1, TrialKeeps
<1> QED BY <1>1, <1>2, <1>3, <1>4, <1>5, <1>6, <1>7, TrialTry DEF Next, Finished

-----------------------------------------------------------------------------
(* The loops before the transaction do all they were to do.                 *)

LEMMA FitAfter ==
  ASSUME plan' = plan, table'.rows = table.rows, NEW c,
         table'.cols[c] = table.cols[c], Fit(table, c)
  PROVE  Fit(table, c)'
  BY DEF Fit, HasNulls, New

LEMMA LoopsElsewhere ==
  ASSUME pc' \notin {"start", "dropindex", "trial", "trying", "add", "begin"} \cup Inside
  PROVE  LoopsInv'
  BY DEF LoopsInv, Inside

\* A step that leaves the notes of the loops and the columns alone.
LEMMA LoopsKeep ==
  ASSUME LoopsInv, plan' = plan, curtable' = curtable,
         added_columns' = added_columns, deleted_indexes' = deleted_indexes,
         pc' = "start" => pc = "start",
         pc' = "dropindex" => pc = "dropindex" /\ Left' = Left,
         pc' \in {"trial", "trying", "add", "begin"} \cup Inside =>
           pc \in {"trial", "trying", "add", "begin"} \cup Inside,
         pc' = "add" =>
           /\ pc = "add" /\ Left' = Left /\ table' = table
           /\ script' # <<>> =>
                LET c == Head(script').name IN
                \/ Head(script').arg = New.cols[c]
                \/ ~New.cols[c].null /\ table.rows,
         pc' \in {"begin", "delete"} =>
           /\ pc \in {"begin", "delete"} /\ table'.rows = table.rows
           /\ \A c \in coladd :
                c \in DOMAIN table.cols =>
                  c \in DOMAIN table'.cols /\ table'.cols[c] = table.cols[c]
  PROVE  LoopsInv'
<1>1. /\ coladd' = coladd /\ otherdel' = otherdel /\ New' = New
  BY Unmoved
<1>2. \A c : /\ c \in DOMAIN table.cols /\ c \in DOMAIN table'.cols
             /\ table'.cols[c] = table.cols[c] /\ table'.rows = table.rows
             /\ Fit(table, c)
             => Fit(table, c)'
  BY FitAfter
<1>3. pc' = "add" => added_columns' = (coladd \ Left)' /\ AllFit(table, added_columns)'
  BY <1>1, <1>2 DEF LoopsInv, AllFit
<1>4. pc' \in {"begin", "delete"} => added_columns' = coladd' /\ AllFit(table, coladd)'
  BY <1>1, <1>2 DEF LoopsInv, AllFit
<1>5. /\ pc' = "start" => deleted_indexes' = {}
      /\ pc' = "dropindex" => deleted_indexes' = (otherdel \ Left)'
      /\ pc' \in {"trial", "trying", "add", "begin"} \cup Inside =>
           deleted_indexes' = otherdel'
  BY <1>1 DEF LoopsInv
<1> QED BY <1>1, <1>3, <1>4, <1>5 DEF LoopsInv

\* Taking up an element leaves it among what is left.
LEMMA TakenUp ==
  ASSUME TypeInv, NextElement
  PROVE  /\ Left' = Left
         /\ script' # <<>>
         /\ \E x \in todo : /\ todo' = todo \ {x} /\ script' = ScriptFor(pc, x)
                            /\ Head(script').name = x
<1>1. PICK x \in todo : script' = ScriptFor(pc, x) /\ todo' = todo \ {x}
  BY DEF NextElement
<1>2. pc \in Loops /\ script = <<>>
  BY DEF NextElement
<1>3. script' # <<>> /\ Head(script').name = x
  <2>1. \A y : /\ Head(<<Stmt("dropindex", x, NoArg)>>).name = x
               /\ Head(<<Stmt("add", x, y)>>).name = x
               /\ Head(<<Stmt("addindex", x, y)>>).name = x
    BY Single DEF Stmt
  <2>2. CASE pc \in {"dropindex", "add", "addindex", "reindex"}
    BY <1>1, <1>2, <2>1, <2>2, NextScript
       DEF DropIndexLeft, AddLeft, AddIndexLeft, ReindexLeft
  <2>3. CASE pc \in {"delete", "unadd"}
    BY <1>1, <1>2, <2>3, NextScript, DroppingSteps DEF DeleteLeft
  <2>4. CASE pc = "change"
    BY <1>1, <1>2, <2>4, NextScript, ChangingTail
  <2> QED BY <1>2, <2>2, <2>3, <2>4 DEF Loops
<1>4. Left' = Left
  BY <1>1, <1>2, <1>3 DEF Left, Busy
<1> QED BY <1>1, <1>3, <1>4

LEMMA LoopsNextElement == ASSUME TypeInv, LoopsInv, NextElement PROVE LoopsInv'
<1>1. /\ UNCHANGED <<plan, table, pc, curtable, added_columns, deleted_indexes>>
      /\ pc \in Loops
  BY DEF NextElement, foundvars, undovars
<1>2. PICK x \in todo : script' = ScriptFor(pc, x) /\ Head(script').name = x
  BY TakenUp
<1>3. pc = "add" => Head(script').arg = New.cols[Head(script').name]
  <2> SUFFICES ASSUME pc = "add" PROVE Head(script').arg = New.cols[x]
    BY <1>2
  <2>1. script' = <<Stmt("add", x, New.cols[x])>>
    BY <1>2 DEF ScriptFor
  <2> QED BY <2>1, Single DEF Stmt
<1> QED BY <1>1, <1>3, TakenUp, LoopsKeep DEF Loops, Inside

LEMMA LoopsNextPhase == ASSUME TypeInv, UndoInv, LoopsInv, NextPhase PROVE LoopsInv'
<1>1. /\ pc \in Loops \cup {"trial"} /\ script = <<>> /\ todo = {}
      /\ pc' = Following[pc] /\ Goto(pc') /\ Left = {} /\ script' = <<>>
      /\ UNCHANGED <<plan, table, curtable, added_columns, deleted_indexes>>
  BY DEF NextPhase, foundvars, undovars, Goto, Left, Busy
<1>2. coladd' = coladd /\ otherdel' = otherdel
  BY <1>1, Unmoved
<1>3. CASE pc = "dropindex"
  <2>1. pc' = "trial"
    BY <1>1, <1>3 DEF Following
  <2> QED BY <1>1, <1>2, <1>3, <2>1 DEF LoopsInv, Inside
<1>4. CASE pc = "trial"
  <2>1. pc' = "add" /\ Left' = coladd
    BY <1>1, <1>4 DEF Following, Goto, Left, Busy, Work, Loops
  <2>2. added_columns' = {}
    BY <1>1, <1>4 DEF UndoInv
  <2> QED BY <1>1, <1>2, <1>4, <2>1, <2>2 DEF LoopsInv, AllFit, Inside
<1>5. CASE pc = "add"
  <2>1. pc' = "begin"
    BY <1>1, <1>5 DEF Following
  <2>2. added_columns = coladd /\ AllFit(table, added_columns)
    BY <1>1, <1>5 DEF LoopsInv
  <2>3. AllFit(table, coladd)'
    BY <1>1, <1>2, <2>2, FitAfter DEF AllFit
  <2> QED BY <1>1, <1>2, <1>5, <2>1, <2>2, <2>3 DEF LoopsInv, Inside
<1>6. CASE pc \in Inside
  <2>1. pc' \in {"change", "addindex", "commit"}
    BY <1>1, <1>6 DEF Following, Inside, Loops
  <2> QED BY <1>1, <1>6, <2>1, LoopsKeep DEF Inside
<1>7. CASE pc \in {"unadd", "reindex"}
  <2>1. pc' \in {"reindex", "end"}
    BY <1>1, <1>7 DEF Following
  <2> QED BY <2>1, LoopsElsewhere DEF Inside
<1> QED BY <1>1, <1>3, <1>4, <1>5, <1>6, <1>7 DEF Loops, Inside

LEMMA LoopsDropIndex == ASSUME TypeInv, LoopsInv, DropIndex PROVE LoopsInv'
<1>1. /\ pc = "dropindex" /\ script # <<>>
      /\ UNCHANGED <<plan, curtable, added_columns>>
  BY DEF DropIndex, foundvars
<1>2. CASE Quit
  BY <1>2, LoopsElsewhere DEF Quit, Goto, Inside
<1>3. CASE /\ Succeeds(Head(script)) /\ UNCHANGED <<pc, todo>>
           /\ script' = Tail(script)
           /\ deleted_indexes' = deleted_indexes \cup {Head(script).name}
  <2>1. PICK x \in otherdel \ todo : script \in DropIndexLeft(x)
    BY <1>1 DEF TypeInv, ScriptInv
  <2>2. Head(script).name = x /\ Tail(script) = <<>>
    BY <2>1, InDropIndex DEF Stmt
  <2>3. Left = todo \cup {x} /\ Left' = todo
    BY <1>1, <1>3, <2>2 DEF Left, Busy
  <2>4. otherdel' = otherdel
    BY <1>1, Unmoved
  <2> QED BY <1>1, <1>3, <2>1, <2>2, <2>3, <2>4 DEF LoopsInv, Inside
<1> QED BY <1>2, <1>3 DEF DropIndex

LEMMA LoopsAddColumn == ASSUME TypeInv, LoopsInv, AddColumn PROVE LoopsInv'
<1> DEFINE s == Head(script)
<1>1. /\ pc = "add" /\ script # <<>> /\ ~InTransaction
      /\ UNCHANGED <<plan, curtable, deleted_indexes>>
  BY DEF AddColumn, foundvars, TypeInv, PlaceInv, Inside
<1>2. PICK x \in coladd \ todo : script \in AddLeft(x)
  BY <1>1 DEF TypeInv, ScriptInv
<1>3. /\ s.name = x /\ s.op = "add" /\ Tail(script) = <<>>
      /\ s.arg = New.cols[x] \/ s.arg = Nullable(New.cols[x])
      /\ New.cols[x] \in ColumnDef /\ s.arg \in ColumnDef
  <2>1. New.cols[x] \in ColumnDef /\ Nullable(New.cols[x]) \in ColumnDef
    BY <1>2, Types
  <2> QED BY <1>2, <2>1, InAdd DEF Stmt
<1>4. /\ added_columns = coladd \ (todo \cup {x}) /\ AllFit(table, added_columns)
      /\ s.arg = New.cols[x] \/ (~New.cols[x].null /\ table.rows)
  BY <1>1, <1>3 DEF LoopsInv, Left, Busy
<1>5. coladd' = coladd /\ otherdel' = otherdel /\ New' = New
  BY <1>1, Unmoved
<1>6. CASE Quit
  BY <1>6, LoopsElsewhere DEF Quit, Goto, Inside
<1>7. CASE /\ FailsWith(s, "4901") /\ ~plan.destructive
           /\ script' = <<Stmt("add", s.name, Nullable(s.arg))>>
           /\ UNCHANGED <<pc, todo, added_columns>>
  <2>1. table' = table
    BY <1>1, <1>7, StatementFails DEF FailsWith
  <2>2. AddLacksValue(table, s)
    BY <1>7 DEF FailsWith, Number
  <2>3. table.rows /\ ~New.cols[x].null
    BY <1>3, <2>2 DEF AddLacksValue, Nullable, ColumnDef
  <2>4. script' # <<>> /\ Head(script').name = x
    BY <1>3, <1>7, Single DEF Stmt
  <2>5. Left' = Left
    BY <1>1, <1>3, <1>7, <2>4 DEF Left, Busy
  <2> QED BY <1>1, <1>7, <2>1, <2>3, <2>4, <2>5, LoopsKeep DEF Inside
<1>8. CASE /\ Succeeds(s) /\ UNCHANGED <<pc, todo>> /\ script' = Tail(script)
           /\ added_columns' = added_columns \cup {s.name}
  <2>1. Works(table, s) /\ table' = After(table, s) /\ table \in Tables
    BY <1>1, <1>8, StatementSucceeds, Types
  <2>2. /\ OnlyColumn(table, table', x)
        /\ x \notin DOMAIN table.cols
        /\ DOMAIN table'.cols = DOMAIN table.cols \cup {x}
        /\ table'.cols[x] = Added(table, s.arg)
    BY <1>3, <2>1, AddWorks
  <2>3. Fit(table, x)'
    <3> DEFINE d == s.arg
    <3>1. /\ table'.cols[x].type = d.type /\ table'.cols[x].default = d.default
          /\ table'.cols[x].null = d.null
          /\ table'.cols[x].data = IF table.rows /\ d.null THEN "null" ELSE "filled"
      BY <2>2 DEF Added, Col
    <3>2. table'.rows = table.rows
      BY <2>2 DEF OnlyColumn
    <3>3. CASE d = New.cols[x]
      BY <1>5, <3>1, <3>3 DEF Fit
    <3>4. CASE d = Nullable(New.cols[x]) /\ ~New.cols[x].null /\ table.rows
      <4>1. d.type = New.cols[x].type /\ d.default = New.cols[x].default /\ d.null = TRUE
        BY <1>3, <3>4 DEF Nullable, ColumnDef
      <4> QED BY <1>5, <3>1, <3>2, <3>4, <4>1 DEF Fit, HasNulls
    <3> QED BY <1>3, <1>4, <3>3, <3>4
  <2>4. AllFit(table, added_columns)'
    <3>1. \A c \in added_columns : c \in DOMAIN table'.cols /\ Fit(table, c)'
      BY <1>1, <1>4, <2>2, FitAfter DEF AllFit, OnlyColumn
    <3> QED BY <1>3, <1>8, <2>2, <2>3, <3>1 DEF AllFit
  <2>5. Left' = todo
    BY <1>3, <1>8 DEF Left, Busy
  <2> QED BY <1>1, <1>2, <1>3, <1>4, <1>5, <1>8, <2>4, <2>5 DEF LoopsInv, Left, Busy, Inside
<1> QED BY <1>6, <1>7, <1>8 DEF AddColumn

LEMMA LoopsUpdate == ASSUME TypeInv, LoopsInv, Update PROVE LoopsInv'
<1> DEFINE s == Head(script)
<1>1. /\ pc \in {"delete", "change", "addindex"} /\ script # <<>>
      /\ UNCHANGED <<plan, curtable, added_columns, deleted_indexes>>
  BY DEF Update, foundvars, undovars
<1>2. CASE pc' = "rollback"
  BY <1>2, LoopsElsewhere DEF Inside
<1>3. CASE pc = "delete" /\ pc' = pc /\ Succeeds(s)
  <2>1. PICK x \in coldel : script \in DeleteLeft(x)
    BY <1>1, <1>3 DEF TypeInv, ScriptInv
  <2>2. x \notin coladd
    BY <2>1 DEF coldel, coladd
  <2>3. OnlyColumn(table, table', x)
    <3>1. Works(table, s) /\ table' = After(table, s) /\ table \in Tables
      BY <1>1, <1>3, StatementSucceeds, Types
    <3>2. s = Undefault(x) \/ s = Stmt("drop", x, NoArg)
      BY <2>1, DroppingSteps DEF DeleteLeft
    <3>3. s.name = x /\ s.op \in {"drop", "dropdefault"}
      BY <3>2 DEF Undefault, Stmt
    <3> QED BY <3>1, <3>3, DropWorks, DefaultWorks
  <2> QED BY <1>1, <1>3, <2>2, <2>3, LoopsKeep DEF OnlyColumn, Inside
<1>4. CASE pc # "delete" /\ pc' = pc
  BY <1>1, <1>4, LoopsKeep DEF Inside
<1> QED BY <1>1, <1>2, <1>3, <1>4 DEF Update, Goto

LEMMA LoopsStep == ASSUME TypeInv, UndoInv, LoopsInv, [Next]_vars PROVE LoopsInv'
<1> USE DEF foundvars, undovars
<1>1. CASE UNCHANGED vars
  <2>1. UNCHANGED <<plan, table, pc, curtable, todo, script, added_columns,
                    deleted_indexes>>
    BY <1>1, Stutters
  <2>2. Left' = Left /\ (pc = "add" /\ script # <<>> =>
                LET c == Head(script).name IN
                \/ Head(script).arg = New.cols[c]
                \/ ~New.cols[c].null /\ table.rows)
    BY <2>1 DEF Left, Busy, LoopsInv
  <2> QED BY <2>1, <2>2, LoopsKeep
<1>2. CASE Get
  BY <1>2 DEF Get, LoopsInv, Inside
<1>3. CASE Start
  <2>1. /\ UNCHANGED <<plan, curtable, deleted_indexes>> /\ pc = "start"
        /\ pc' \in {"dropall", "end"} \/ (pc' = "dropindex" /\ Goto("dropindex"))
    BY <1>3 DEF Start, Quit, Goto
  <2>2. CASE pc' = "dropindex" /\ Goto("dropindex")
    <3>1. Left' = otherdel /\ otherdel' = otherdel
      BY <2>1, <2>2, Unmoved DEF Left, Busy, Goto, Work, Loops
    <3> QED BY <2>1, <2>2, <3>1 DEF LoopsInv, Inside
  <2> QED BY <2>1, <2>2, LoopsElsewhere DEF Inside
<1>4. CASE BeginTrial \/ TryStatement \/ EndTrial
  <2>1. /\ UNCHANGED <<plan, curtable, added_columns, deleted_indexes>>
        /\ pc \in {"trial", "trying"} /\ pc' \in {"trial", "trying", "end"}
    BY <1>4 DEF BeginTrial, TryStatement, EndTrial, Quit, Goto
  <2> QED BY <2>1, LoopsKeep DEF Inside
<1>5. CASE Begin
  <2>1. /\ UNCHANGED <<plan, table, curtable, added_columns, deleted_indexes>>
        /\ pc = "begin" /\ pc' \in {"delete", "rollback"}
    BY <1>5 DEF Begin, Goto
  <2> QED BY <2>1, LoopsKeep DEF Inside
<1>6. CASE GiveUp \/ Commit \/ Rollback \/ CheckNulls \/ End \/ DropAll \/ Create \/ Crash \/ Again
  <2>1. pc' \in {"rollback", "nulls", "unadd", "end", "dropall", "done", "create", "crashed", "get"}
    BY <1>6 DEF GiveUp, Commit, Rollback, CheckNulls, End, DropAll, Create, Crash, Again, Goto
  <2> QED BY <2>1, LoopsElsewhere DEF Inside
<1>7. CASE Undo
  BY <1>7, LoopsElsewhere DEF Undo, Inside
<1> QED BY <1>1, <1>2, <1>3, <1>4, <1>5, <1>6, <1>7, LoopsNextElement,
           LoopsNextPhase, LoopsDropIndex, LoopsAddColumn, LoopsUpdate
        DEF Next, Finished

-----------------------------------------------------------------------------
(* The loops of the transaction make the columns what they were to be.      *)

LEMMA ColumnsElsewhere ==
  ASSUME pc' \notin Inside \cup {"nulls"}
  PROVE  ColumnsInv' /\ IndexesInv'
  BY DEF ColumnsInv, IndexesInv, Inside

LEMMA ColumnsBegin ==
  ASSUME TypeInv, UndoInv, LoopsInv, Begin PROVE ColumnsInv' /\ IndexesInv'
<1>1. /\ UNCHANGED <<plan, table, curtable, added_columns, deleted_indexes>>
      /\ pc = "begin"
      /\ pc' = "rollback" \/ (pc' = "delete" /\ Goto("delete"))
  BY DEF Begin, Goto, foundvars, undovars
<1>2. CASE pc' = "rollback"
  BY <1>2, ColumnsElsewhere DEF Inside
<1>3. CASE pc' = "delete" /\ Goto("delete")
  <2>1. Left' = coldel
    BY <1>3 DEF Left, Busy, Goto, Work, Loops
  <2>2. Found(table, coladd, otherdel)
    BY <1>1 DEF UndoInv, LoopsInv, Committed, TypeInv, PlaceInv, Early, Inside
  <2>3. DOMAIN Old.cols = DOMAIN curtable.cols
    BY Types
  <2>4. DOMAIN table.cols = DOMAIN New.cols \cup coldel
    BY <2>2, <2>3 DEF Found, coladd, coldel
  <2>5. New' = New /\ otherdel' = otherdel
    BY <1>1, Unmoved
  <2>6. ColumnsInv'
    BY <1>1, <1>3, <2>1, <2>2, <2>4, <2>5 DEF ColumnsInv, Kept, Found
  <2>7. IndexesInv'
    BY <1>1, <1>3, <2>2, <2>5 DEF IndexesInv, Indexed, Found
  <2> QED BY <2>6, <2>7
<1> QED BY <1>1, <1>2, <1>3

LEMMA ColumnsNextElement ==
  ASSUME TypeInv, ColumnsInv, IndexesInv, NextElement
  PROVE  ColumnsInv' /\ IndexesInv'
<1>1. /\ UNCHANGED <<plan, table, pc, curtable, ErrWhenAltering>>
      /\ pc \in Loops /\ Left' = Left
  BY TakenUp DEF NextElement, foundvars
<1>2. PICK x \in todo : /\ todo' = todo \ {x} /\ script' = ScriptFor(pc, x)
                        /\ Head(script').name = x
  BY TakenUp
<1>3. /\ New' = New /\ otherdel' = otherdel /\ otheradd' = otheradd
      /\ Kept' = Kept
  BY <1>1, Unmoved DEF Kept
<1>4. \A c : Fit(table, c)' = Fit(table, c)
  BY <1>1, <1>3 DEF Fit, HasNulls
<1>5. IndexesInv'
  BY <1>1, <1>3 DEF IndexesInv, Indexed
<1>6. pc = "change" => Midway(x)'
  <2> SUFFICES ASSUME pc = "change" PROVE Midway(x)'
    OBVIOUS
  <2>1. script' # <<Stmt("adddefault", x, NoArg)>>
    BY <1>1, <1>2, NextScript
  <2>2. x \in DOMAIN table.cols /\ table.cols[x] = curtable.cols[x]
    BY DEF ColumnsInv
  <2> QED BY <1>1, <2>1, <2>2 DEF Midway
<1>7. Head(script').name = x
  BY <1>2
<1>8. pc = "change" /\ script' # <<>> => Midway(Head(script).name)'
  BY <1>1, <1>3, <1>6, <1>7 DEF Midway, HasNulls
<1>9. AllFit(table, DOMAIN New.cols)' = AllFit(table, DOMAIN New.cols)
      /\ AllFit(table, DOMAIN New.cols \ Left)' = AllFit(table, DOMAIN New.cols \ Left)
  BY <1>1, <1>3, <1>4 DEF AllFit
<1> QED BY <1>1, <1>2, <1>3, <1>5, <1>8, <1>9 DEF ColumnsInv, Loops, Inside

LEMMA ColumnsNextPhase ==
  ASSUME TypeInv, LoopsInv, ColumnsInv, IndexesInv, NextPhase
  PROVE  ColumnsInv' /\ IndexesInv'
<1>1. /\ UNCHANGED <<plan, table, curtable, added_columns, deleted_indexes>>
      /\ pc \in Loops \cup {"trial"} /\ script = <<>> /\ todo = {} /\ Left = {}
      /\ pc' = Following[pc] /\ Goto(pc') /\ script' = <<>>
  BY DEF NextPhase, foundvars, undovars, Goto, Left, Busy
<1>2. /\ New' = New /\ otherdel' = otherdel /\ otheradd' = otheradd
      /\ colchanged' = colchanged
  BY <1>1, Unmoved
<1>3. \A c : Fit(table, c)' = Fit(table, c)
  BY <1>1, <1>2 DEF Fit, HasNulls
<1>4. CASE pc \notin Inside
  <2>1. pc' \notin Inside \cup {"nulls"}
    BY <1>1, <1>4 DEF Following, Loops, Inside
  <2> QED BY <2>1, ColumnsElsewhere
<1>5. CASE pc = "delete"
  <2>1. pc' = "change" /\ todo' = colchanged /\ Left' = colchanged
    BY <1>1, <1>5 DEF Following, Goto, Work, Loops, Left, Busy
  <2>2. DOMAIN table.cols = DOMAIN New.cols /\ table.rows = curtable.rows
        /\ \A c \in Kept : table.cols[c] = curtable.cols[c]
    BY <1>1, <1>5 DEF ColumnsInv, Inside
  <2>3. AllFit(table, coladd)
    BY <1>5 DEF LoopsInv
  <2>4. \A c \in DOMAIN New.cols \ colchanged : Fit(table, c)
    <3> SUFFICES ASSUME NEW c \in DOMAIN New.cols \ colchanged, c \notin coladd
                 PROVE  Fit(table, c)
      BY <2>3 DEF AllFit
    <3>1. c \in DOMAIN Old.cols /\ Old.cols[c] = New.cols[c] /\ c \in Kept
      BY Types DEF coladd, colchanged, Kept
    <3>2. New.cols[c] = Def(table.cols[c])
      BY <2>2, <3>1, OldShape DEF TypeInv, ShapeInv
    <3> QED BY <3>2 DEF Fit, Def
  <2>5. \A c \in colchanged : c \in DOMAIN table.cols /\ table.cols[c] = curtable.cols[c]
    BY <2>2, Types DEF colchanged, Kept
  <2>6. AllFit(table, DOMAIN New.cols \ Left)'
    BY <1>1, <1>2, <1>3, <2>1, <2>2, <2>4 DEF AllFit
  <2>7. ColumnsInv'
    BY <1>1, <1>2, <2>1, <2>2, <2>5, <2>6 DEF ColumnsInv
  <2>8. IndexesInv'
    BY <1>1, <1>2, <1>5, <2>1 DEF IndexesInv, Indexed
  <2> QED BY <2>7, <2>8
<1>6. CASE pc = "change"
  <2>1. pc' = "addindex" /\ todo' = otheradd /\ Left' = otheradd
    BY <1>1, <1>6 DEF Following, Goto, Work, Loops, Left, Busy
  <2>2. AllFit(table, DOMAIN New.cols) /\ DOMAIN table.cols = DOMAIN New.cols
        /\ table.rows = curtable.rows
    BY <1>1, <1>6 DEF ColumnsInv, AllFit, Inside
  <2>3. ColumnsInv'
    BY <1>1, <1>2, <1>3, <2>1, <2>2 DEF ColumnsInv, AllFit
  <2>4. IndexesInv'
    BY <1>1, <1>2, <1>6, <2>1 DEF IndexesInv, Indexed
  <2> QED BY <2>3, <2>4
<1>7. CASE pc = "addindex"
  <2>1. pc' = "commit"
    BY <1>1, <1>7 DEF Following
  <2>2. ColumnsInv'
    BY <1>1, <1>2, <1>3, <1>7, <2>1 DEF ColumnsInv, AllFit, Inside
  <2>3. table.idx = New.idx
    <3>1. Indexed(otherdel, otheradd)
      BY <1>1, <1>7 DEF IndexesInv
    <3>2. Old.idx = curtable.idx
      BY Types
    <3>3. DOMAIN table.idx = DOMAIN New.idx
      BY <3>1, <3>2 DEF Indexed, otherdel, otheradd
    <3>4. \A i \in DOMAIN New.idx : table.idx[i] = New.idx[i]
      BY <3>1, <3>2, <3>3 DEF Indexed, otherdel, otheradd
    <3>5. table.idx \in [DOMAIN table.idx -> Columns] /\ New.idx \in [DOMAIN New.idx -> Columns]
      BY Types, TableShape, PlanShape, SchemaShape
    <3> QED BY <3>3, <3>4, <3>5
  <2>4. IndexesInv'
    BY <1>1, <1>2, <2>1, <2>3 DEF IndexesInv
  <2> QED BY <2>2, <2>4
<1> QED BY <1>1, <1>4, <1>5, <1>6, <1>7 DEF Loops, Inside

LEMMA OneLeft ==
  ASSUME NEW u, NEW s, s = <<u>> PROVE Head(s) = u /\ Tail(s) = <<>> /\ s # <<>>
  BY Single

\* One statement of a column's change.
LEMMA ChangeStatement ==
  ASSUME TypeInv, TrialInv, ColumnsInv, pc = "change", script # <<>>,
         Succeeds(Head(script)), script' = Tail(script),
         UNCHANGED <<plan, curtable, pc, todo, ErrWhenAltering>>,
         NEW x \in colchanged \ todo, script \in Changing(x)
  PROVE  /\ OnlyColumn(table, table', x)
         /\ script' = <<>> => x \in DOMAIN table'.cols /\ Fit(table, x)'
         /\ script' # <<>> => Head(script').name = x /\ Midway(x)'
<1> DEFINE s == Head(script)
           new == New.cols[x]
           after == <<Stmt("adddefault", x, NoArg)>>
<1>1. Works(table, s) /\ table' = After(table, s) /\ table \in Tables
  BY StatementSucceeds, Types
<1>2. s.name = x /\ (script' = <<>> \/ script' \in Changing(x))
  BY ChangingTail
<1>3. script' # <<>> => Head(script').name = x
  <2>1. script' # <<>> => script' \in Changing(x)
    BY <1>2
  <2> QED BY <2>1, ChangingTail
<1>4. /\ Midway(x) /\ table.rows = curtable.rows /\ New' = New
      /\ x \in DOMAIN New.cols /\ new \in ColumnDef /\ Nullable(new) \in ColumnDef
      /\ ErrWhenAltering[x] = "515" => NullsMet(x)
  <2>1. Midway(x) /\ table.rows = curtable.rows
    BY <1>2 DEF ColumnsInv, Inside
  <2>2. x \in DOMAIN New.cols /\ new \in ColumnDef /\ Nullable(new) \in ColumnDef
    BY Types
  <2>3. DOMAIN ErrWhenAltering = colchanged
    BY DEF TypeInv, NotesInv, Inside
  <2> QED BY <2>1, <2>2, <2>3, Unmoved DEF TrialInv
<1>5. ASSUME NEW d \in ColumnDef, script \in Undefaulting(x, Altering(x, d)),
             \/ ErrWhenAltering[x] = "none" /\ d = new
             \/ ErrWhenAltering[x] = "515" /\ ~plan.destructive /\ d = Nullable(new)
      PROVE  /\ OnlyColumn(table, table', x)
             /\ script' = <<>> => x \in DOMAIN table'.cols /\ Fit(table, x)'
             /\ script' # <<>> => Midway(x)'
  <2>1. d.type = new.type /\ d.default = new.default /\ d.default \in BOOLEAN
        /\ (d = new \/ (d.null = TRUE /\ ErrWhenAltering[x] = "515" /\ ~plan.destructive))
    BY <1>4, <1>5 DEF Nullable, ColumnDef
  <2>2. CASE s = Undefault(x) /\ Tail(script) \in Altering(x, d) /\ Whole(Tail(script))
            /\ Tail(script) # <<>>
    <3>1. s.op = "dropdefault"
      BY <2>2 DEF Undefault, Stmt
    <3>2. /\ OnlyColumn(table, table', x) /\ DOMAIN table'.cols = DOMAIN table.cols
          /\ x \in DOMAIN table.cols
          /\ table'.cols[x].data = table.cols[x].data
      BY <1>1, <1>2, <3>1, DefaultWorks
    <3>3. script' # <<>>
      BY <2>2
    <3>4. script' # after
      <4>1. Head(after).op = "adddefault"
        BY Single DEF Stmt
      <4> QED BY <2>2, <4>1 DEF Whole
    <3>5. Midway(x)'
      BY <1>4, <3>1, <3>2, <3>4 DEF Midway
    <3> QED BY <3>2, <3>3, <3>5
  <2>3. CASE /\ s = Stmt("alter", x, d)
             /\ Tail(script) = IF d.default THEN after ELSE <<>>
    <3>1. s.op = "alter" /\ s.arg = d
      BY <2>3 DEF Stmt
    <3>2. /\ OnlyColumn(table, table', x) /\ DOMAIN table'.cols = DOMAIN table.cols
          /\ x \in DOMAIN table.cols
          /\ table'.cols[x].data = table.cols[x].data
          /\ table'.cols[x].type = d.type /\ table'.cols[x].null = d.null
          /\ table'.cols[x].default = FALSE
      BY <1>1, <1>2, <3>1, AlterWorks
    <3>3. table'.rows = table.rows
      BY <3>2 DEF OnlyColumn
    <3>4. \/ table'.cols[x].null = new.null
          \/ ~new.null /\ HasNulls(table, x)'
      <4>1. CASE d = new
        BY <3>2, <4>1
      <4>2. CASE ErrWhenAltering[x] = "515" /\ ~plan.destructive
        <5>1. ~new.null /\ HasNulls(curtable, x)
          BY <1>4, <4>2 DEF NullsMet
        <5>2. table.cols[x].data = curtable.cols[x].data
          BY <1>4, <3>1, <4>2 DEF Midway
        <5> QED BY <1>4, <3>2, <3>3, <5>1, <5>2 DEF HasNulls
      <4> QED BY <2>1, <4>1, <4>2
    <3>5. CASE ~d.default
      <4>1. script' = <<>>
        BY <2>3, <3>5
      <4>2. Fit(table, x)'
        BY <1>4, <2>1, <3>2, <3>4, <3>5 DEF Fit
      <4> QED BY <3>2, <4>1, <4>2
    <3>6. CASE d.default
      <4>1. script' = after
        BY <2>3, <3>6
      <4>3. script' # <<>> /\ Head(script') = Stmt("adddefault", x, NoArg)
        BY <4>1, OneLeft
      <4>4. Head(script').op = "adddefault"
        BY <4>3 DEF Stmt
      <4>2. Midway(x)'
        BY <1>4, <2>1, <3>2, <3>4, <3>6, <4>4 DEF Midway
      <4> QED BY <3>2, <4>3, <4>2
    <3> QED BY <2>1, <3>5, <3>6
  <2>4. CASE d.default /\ script = after /\ s = Stmt("adddefault", x, NoArg) /\ Tail(script) = <<>>
    <3>1. s.op = "adddefault"
      BY <2>4 DEF Stmt
    <3>2. /\ OnlyColumn(table, table', x) /\ DOMAIN table'.cols = DOMAIN table.cols
          /\ x \in DOMAIN table.cols
          /\ table'.cols[x].data = table.cols[x].data
          /\ table'.cols[x].type = table.cols[x].type
          /\ table'.cols[x].null = table.cols[x].null
          /\ table'.cols[x].default
          /\ table'.rows = table.rows
      BY <1>1, <1>2, <3>1, DefaultWorks DEF OnlyColumn
    <3>3. table'.cols[x].default \in BOOLEAN
      BY <3>2, TableShape DEF OnlyColumn, ColType
    <3>4. new.default = TRUE /\ table.cols[x].type = new.type
          /\ (table.cols[x].null = new.null \/ (~new.null /\ HasNulls(table, x)))
      BY <1>4, <2>1, <2>4 DEF Midway
    <3>5. Fit(table, x)'
      BY <1>4, <3>2, <3>3, <3>4 DEF Fit, HasNulls
    <3> QED BY <2>4, <3>2, <3>5
  <2> QED BY <1>5, <2>2, <2>3, <2>4, AlteringSteps
<1>6. ASSUME script \in Undefaulting(x, Replacing(x, new)), plan.destructive
      PROVE  /\ OnlyColumn(table, table', x)
             /\ script' = <<>> => x \in DOMAIN table'.cols /\ Fit(table, x)'
             /\ script' # <<>> => Midway(x)'
  <2>1. script' # after => Midway(x)'
    BY <1>6 DEF Midway
  <2>2. Head(after).op = "adddefault" /\ after # <<>>
    BY Single DEF Stmt
  <2>3. CASE s = Undefault(x) /\ Whole(Tail(script)) /\ Tail(script) \in Replacing(x, new)
    <3>1. s.op = "dropdefault"
      BY <2>3 DEF Undefault, Stmt
    <3>2. OnlyColumn(table, table', x)
      BY <1>1, <1>2, <3>1, DefaultWorks
    <3>3. Tail(script) \in Undefaulting(x, Replacing(x, new))
      BY <2>3, TailStays
    <3>4. script' # <<>>
      BY <3>3, ReplacingSteps
    <3>5. script' # after
      BY <2>2, <2>3 DEF Whole
    <3> QED BY <2>1, <3>2, <3>4, <3>5
  <2>4. CASE s = Stmt("drop", x, NoArg) /\ Tail(script) = <<Stmt("add", x, new)>>
    <3>1. s.op = "drop"
      BY <2>4 DEF Stmt
    <3>2. OnlyColumn(table, table', x)
      BY <1>1, <1>2, <3>1, DropWorks
    <3>3. script' # <<>> /\ Head(script') = Stmt("add", x, new)
      BY <2>4, OneLeft
    <3>4. Head(script').op = "add"
      BY <3>3 DEF Stmt
    <3> QED BY <2>1, <2>2, <3>2, <3>3, <3>4
  <2>5. CASE s = Stmt("add", x, new) /\ Tail(script) = <<>>
    <3>1. s.op = "add" /\ s.arg = new
      BY <2>5 DEF Stmt
    <3>2. OnlyColumn(table, table', x) /\ x \in DOMAIN table'.cols
          /\ table'.cols[x] = Added(table, new)
      BY <1>1, <1>2, <1>4, <3>1, AddWorks
    <3>3. Fit(table, x)'
      BY <1>4, <3>2 DEF Fit, Added, Col
    <3> QED BY <2>5, <3>2, <3>3
  <2> QED BY <1>6, <2>3, <2>4, <2>5, ReplacingSteps
<1>7. ASSUME script \in Undefaulting(x, GivingUp(x))
      PROVE  /\ OnlyColumn(table, table', x)
             /\ script' # <<>> /\ Midway(x)'
  <2>1. s = Undefault(x) /\ Tail(script) \in GivingUp(x)
    <3>1. Stmt("giveup", x, NoArg).op = "giveup"
      BY DEF Stmt
    <3> QED BY <1>1, <1>7, <3>1, GivingUpSteps, WorksKinds
  <2>2. s.op = "dropdefault"
    BY <2>1 DEF Undefault, Stmt
  <2>3. OnlyColumn(table, table', x)
    BY <1>1, <1>2, <2>2, DefaultWorks
  <2>4. script' # <<>> /\ Head(script').op = "giveup"
    <3>1. script' = <<Stmt("giveup", x, NoArg)>>
      BY <2>1 DEF GivingUp
    <3>2. script' # <<>> /\ Head(script') = Stmt("giveup", x, NoArg)
      BY <3>1, OneLeft
    <3> QED BY <3>2 DEF Stmt
  <2>5. Head(after).op = "adddefault"
    BY Single DEF Stmt
  <2>6. script' # after
    BY <2>4, <2>5
  <2>7. Midway(x)'
    BY <2>4, <2>6 DEF Midway
  <2> QED BY <2>3, <2>4, <2>7
<1> QED BY <1>3, <1>4, <1>5, <1>6, <1>7, ChangingKinds

LEMMA ColumnsUpdate ==
  ASSUME TypeInv, TrialInv, ColumnsInv, IndexesInv, Update
  PROVE  ColumnsInv' /\ IndexesInv'
<1> DEFINE s == Head(script)
<1>1. /\ pc \in {"delete", "change", "addindex"} /\ script # <<>>
      /\ UNCHANGED <<plan, curtable, ErrWhenAltering>>
      /\ table.rows = curtable.rows /\ table \in Tables
      /\ New' = New /\ otherdel' = otherdel /\ otheradd' = otheradd
      /\ Kept' = Kept
  <2>1. /\ pc \in {"delete", "change", "addindex"} /\ script # <<>>
        /\ UNCHANGED <<plan, curtable, ErrWhenAltering>>
    BY DEF Update, foundvars
  <2>2. table.rows = curtable.rows
    BY <2>1 DEF ColumnsInv, Inside
  <2> QED BY <2>1, <2>2, Unmoved, Types DEF Kept
<1>2. CASE pc' = "rollback"
  BY <1>2, ColumnsElsewhere DEF Inside
<1>3. ASSUME Succeeds(s), script' = Tail(script), UNCHANGED <<pc, todo, cur>>
      PROVE  ColumnsInv' /\ IndexesInv'
  <2>1. Works(table, s) /\ table' = After(table, s)
    BY <1>1, <1>3, StatementSucceeds
  <2>2. CASE pc = "delete"
    <3>1. PICK x \in coldel \ todo : script \in DeleteLeft(x)
      BY <1>1, <2>2 DEF TypeInv, ScriptInv
    <3>2. /\ s.name = x
          /\ \/ s = Undefault(x) /\ Tail(script) \in Dropping(x) /\ Tail(script) # <<>>
             \/ s = Stmt("drop", x, NoArg) /\ Tail(script) = <<>>
      BY <3>1, DroppingSteps DEF DeleteLeft
    <3>3. x \notin DOMAIN New.cols /\ Left = todo \cup {x} /\ x \notin todo
      BY <1>1, <3>1, <3>2 DEF coldel, Left, Busy
    <3>4. /\ DOMAIN table.cols = DOMAIN New.cols \cup Left
          /\ \A c \in Kept : table.cols[c] = curtable.cols[c]
      BY <2>2 DEF ColumnsInv
    <3>5. /\ OnlyColumn(table, table', x)
          /\ DOMAIN table'.cols = DOMAIN New.cols \cup Left'
      <4>1. CASE s = Undefault(x) /\ Tail(script) \in Dropping(x) /\ Tail(script) # <<>>
        <5>1. s.op = "dropdefault"
          BY <4>1 DEF Undefault, Stmt
        <5>2. OnlyColumn(table, table', x) /\ DOMAIN table'.cols = DOMAIN table.cols
          BY <1>1, <2>1, <3>2, <5>1, DefaultWorks
        <5>3. Head(script').name = x
          <6>1. Tail(script) \in Undefaulting(x, Dropping(x))
            BY <4>1, TailStays
          <6> QED BY <1>3, <6>1, DroppingSteps
        <5> QED BY <1>3, <3>3, <3>4, <4>1, <5>2, <5>3 DEF Left, Busy
      <4>2. CASE s = Stmt("drop", x, NoArg) /\ Tail(script) = <<>>
        <5>1. s.op = "drop"
          BY <4>2 DEF Stmt
        <5>2. OnlyColumn(table, table', x) /\ DOMAIN table'.cols = DOMAIN table.cols \ {x}
          BY <1>1, <2>1, <3>2, <5>1, DropWorks
        <5> QED BY <1>3, <3>3, <3>4, <4>2, <5>2 DEF Left, Busy
      <4> QED BY <3>2, <4>1, <4>2
    <3>6. \A c \in Kept : table'.cols[c] = curtable.cols[c]
      BY <3>3, <3>4, <3>5 DEF OnlyColumn, Kept
    <3>7. ColumnsInv'
      BY <1>1, <1>3, <2>2, <3>5, <3>6 DEF ColumnsInv, OnlyColumn
    <3>8. IndexesInv'
      BY <1>1, <1>3, <2>2, <3>5 DEF IndexesInv, Indexed, OnlyColumn
    <3> QED BY <3>7, <3>8
  <2>3. CASE pc = "change"
    <3>1. PICK x \in colchanged \ todo : script \in Changing(x)
      BY <1>1, <2>3 DEF TypeInv, ScriptInv
    <3>2. /\ OnlyColumn(table, table', x)
          /\ script' = <<>> => x \in DOMAIN table'.cols /\ Fit(table, x)'
          /\ script' # <<>> => Head(script').name = x /\ Midway(x)'
      BY <1>1, <1>3, <2>3, <3>1, ChangeStatement
    <3>3. x \in DOMAIN New.cols /\ s.name = x
      BY <3>1, Types, ChangingTail
    <3>4. /\ DOMAIN table.cols \subseteq DOMAIN New.cols
          /\ AllFit(table, DOMAIN New.cols \ Left)
          /\ \A c \in todo : c \in DOMAIN table.cols /\ table.cols[c] = curtable.cols[c]
      BY <2>3 DEF ColumnsInv
    <3>5. Left = todo \cup {x} /\ Left' = IF script' = <<>> THEN todo ELSE todo \cup {x}
      BY <1>1, <1>3, <3>2, <3>3 DEF Left, Busy
    <3>6. DOMAIN table'.cols \subseteq DOMAIN New.cols /\ table'.rows = table.rows
          /\ table'.idx = table.idx
      BY <3>2, <3>3, <3>4 DEF OnlyColumn
    <3>7. AllFit(table, DOMAIN New.cols \ Left)'
      <4> SUFFICES ASSUME NEW c \in DOMAIN New.cols \ Left'
                   PROVE  c \in DOMAIN table'.cols /\ Fit(table, c)'
        BY <1>1 DEF AllFit
      <4>1. CASE c = x
        BY <3>2, <3>5, <4>1
      <4>2. CASE c # x
        <5>1. c \in DOMAIN table.cols /\ Fit(table, c)
          BY <3>4, <3>5, <4>2 DEF AllFit
        <5>2. c \in DOMAIN table'.cols /\ table'.cols[c] = table.cols[c]
          BY <3>2, <4>2, <5>1 DEF OnlyColumn
        <5> QED BY <1>1, <3>6, <5>1, <5>2, FitAfter
      <4> QED BY <4>1, <4>2
    <3>8. \A c \in todo : c \in DOMAIN table'.cols /\ table'.cols[c] = curtable.cols[c]
      BY <3>1, <3>2, <3>4 DEF OnlyColumn
    <3>9. script' # <<>> => Midway(Head(script).name)'
      BY <3>2 DEF Midway, HasNulls
    <3>10. ColumnsInv'
      BY <1>1, <1>3, <2>3, <3>6, <3>7, <3>8, <3>9 DEF ColumnsInv
    <3>11. IndexesInv'
      BY <1>1, <1>3, <2>3, <3>6 DEF IndexesInv, Indexed
    <3> QED BY <3>10, <3>11
  <2>4. CASE pc = "addindex"
    <3>1. PICK x \in otheradd \ todo : script \in AddIndexLeft(x)
      BY <1>1, <2>4 DEF TypeInv, ScriptInv
    <3>2. s = Stmt("addindex", x, New.idx[x]) /\ Tail(script) = <<>>
      BY <3>1, InAddIndex
    <3>3. s.op = "addindex" /\ s.name = x /\ s.arg = New.idx[x]
      BY <3>2 DEF Stmt
    <3>4. /\ table'.cols = table.cols /\ table'.rows = table.rows
          /\ DOMAIN table'.idx = DOMAIN table.idx \cup {x}
          /\ \A i \in DOMAIN table.idx : table'.idx[i] = table.idx[i]
          /\ table'.idx[x] = New.idx[x]
      BY <1>1, <2>1, <3>3, AddIndexWorks
    <3>5. \A c : Fit(table, c) => Fit(table, c)'
      BY <1>1, <3>4, FitAfter
    <3>6. ColumnsInv'
      BY <1>1, <1>3, <2>4, <3>4, <3>5 DEF ColumnsInv, AllFit
    <3>7. Left = todo \cup {x} /\ Left' = todo
      BY <1>1, <1>3, <3>2, <3>3 DEF Left, Busy
    <3>8. Indexed(otherdel, otheradd \ Left)
      BY <2>4 DEF IndexesInv
    <3>9. otheradd \ Left' = (otheradd \ Left) \cup {x}
      BY <3>1, <3>7
    <3>10. Indexed(otherdel, otheradd \ Left)'
      BY <1>1, <3>4, <3>8, <3>9 DEF Indexed
    <3>11. IndexesInv'
      BY <1>3, <2>4, <3>10 DEF IndexesInv
    <3> QED BY <3>6, <3>11
  <2> QED BY <1>1, <2>2, <2>3, <2>4
<1> QED BY <1>2, <1>3 DEF Update, Goto

LEMMA ColumnsStep ==
  ASSUME TypeInv, UndoInv, TrialInv, LoopsInv, ColumnsInv, IndexesInv, [Next]_vars
  PROVE  ColumnsInv' /\ IndexesInv'
<1>1. CASE UNCHANGED vars
  <2>1. UNCHANGED <<plan, table, pc, curtable, todo, script, ErrWhenAltering>>
    BY <1>1, Stutters
  <2>2. /\ New' = New /\ otherdel' = otherdel /\ otheradd' = otheradd
        /\ Kept' = Kept /\ Left' = Left
    BY <2>1, Unmoved DEF Kept, Left, Busy
  <2>3. /\ \A c : Fit(table, c)' = Fit(table, c)
        /\ \A c : Midway(c)' = Midway(c)
    BY <2>1, <2>2 DEF Fit, HasNulls, Midway
  <2>4. IndexesInv'
    BY <2>1, <2>2 DEF IndexesInv, Indexed
  <2>5. /\ AllFit(table, DOMAIN New.cols)' = AllFit(table, DOMAIN New.cols)
        /\ AllFit(table, DOMAIN New.cols \ Left)' = AllFit(table, DOMAIN New.cols \ Left)
        /\ Midway(Head(script).name)' = Midway(Head(script).name)
    BY <2>1, <2>2, <2>3 DEF AllFit, Midway, HasNulls
  <2> QED BY <2>1, <2>2, <2>4, <2>5 DEF ColumnsInv
<1>2. CASE Commit
  <2>1. CASE pc' = "nulls" /\ table' = table /\ plan' = plan /\ curtable' = curtable
             /\ pc = "commit"
    <3>1. New' = New /\ \A c : Fit(table, c)' = Fit(table, c)
      BY <2>1 DEF Fit, HasNulls, New
    <3> QED BY <2>1, <3>1 DEF ColumnsInv, IndexesInv, AllFit, Inside
  <2>2. CASE pc' = "rollback"
    BY <2>2, ColumnsElsewhere DEF Inside
  <2> QED BY <1>2, <2>1, <2>2 DEF Commit, Goto, foundvars
<1>3. CASE \/ Get \/ Start \/ DropIndex \/ BeginTrial \/ TryStatement \/ EndTrial
           \/ AddColumn \/ GiveUp \/ Rollback \/ Undo \/ CheckNulls \/ End
           \/ DropAll \/ Create \/ Crash \/ Again
  <2>1. pc' \notin Inside \cup {"nulls"}
    <3>1. CASE Get \/ Start \/ DropIndex \/ BeginTrial \/ TryStatement \/ EndTrial \/ AddColumn
      BY <3>1 DEF Get, Start, DropIndex, BeginTrial, TryStatement, EndTrial,
                  AddColumn, Quit, Goto, Inside
    <3>2. CASE \/ GiveUp \/ Rollback \/ Undo \/ CheckNulls \/ End \/ DropAll
               \/ Create \/ Crash \/ Again
      BY <3>2 DEF GiveUp, Rollback, Undo, CheckNulls, End, DropAll, Create, Crash,
                  Again, Goto, Inside
    <3> QED BY <1>3, <3>1, <3>2
  <2> QED BY <2>1, ColumnsElsewhere
<1> QED BY <1>1, <1>2, <1>3, ColumnsBegin, ColumnsNextElement, ColumnsNextPhase,
           ColumnsUpdate DEF Next, Finished

-----------------------------------------------------------------------------
(* What a run reports.                                                      *)

\* The check for nulls finds every column whose NOT NULL was relaxed.
LEMMA NothingRelaxed ==
  ASSUME TypeInv, ColumnsInv, IndexesInv, pc = "nulls",
         ~\E c \in DOMAIN New.cols : ~New.cols[c].null /\ HasNulls(table, c)
  PROVE  SchemaOf(table) = New
<1>1. /\ DOMAIN table.cols = DOMAIN New.cols /\ AllFit(table, DOMAIN New.cols)
      /\ table.idx = New.idx
  BY DEF ColumnsInv, IndexesInv
<1>2. \A c \in DOMAIN New.cols : Def(table.cols[c]) = New.cols[c]
  <2> SUFFICES ASSUME NEW c \in DOMAIN New.cols PROVE Def(table.cols[c]) = New.cols[c]
    OBVIOUS
  <2>1. New.cols[c] \in ColumnDef
    BY Types
  <2>2. Fit(table, c) /\ (New.cols[c].null \/ ~HasNulls(table, c))
    BY <1>1 DEF AllFit
  <2>3. /\ table.cols[c].type = New.cols[c].type
        /\ table.cols[c].default = New.cols[c].default
        /\ table.cols[c].null = New.cols[c].null
    BY <2>2 DEF Fit
  <2> QED BY <2>1, <2>3 DEF Def, ColumnDef
<1>3. New = [cols |-> New.cols, idx |-> New.idx]
      /\ New.cols \in [DOMAIN New.cols -> ColumnDef]
  BY Types, PlanShape, SchemaShape
<1>4. [c \in DOMAIN table.cols |-> Def(table.cols[c])] = New.cols
  BY <1>1, <1>2, <1>3
<1> QED BY <1>1, <1>3, <1>4 DEF SchemaOf

LEMMA ReportElsewhere ==
  ASSUME pc' \in (Early \ {"start"}) \cup Inside \cup {"nulls", "crashed"}
  PROVE  ReportInv'
  BY DEF ReportInv, Early, Inside

LEMMA ReportFails ==
  ASSUME pc' \in {"rollback", "unadd", "reindex", "end"}, errs' # {}
  PROVE  ReportInv'
  BY DEF ReportInv

LEMMA ReportStep ==
  ASSUME TypeInv, ColumnsInv, IndexesInv, ReportInv, [Next]_vars
  PROVE  ReportInv'
<1>1. CASE UNCHANGED vars
  <2>1. UNCHANGED <<plan, table, pc, errs, failed>>
    BY <1>1, Stutters
  <2> QED BY <2>1 DEF ReportInv, SchemaOf, Def, New
<1>2. CASE Get
  BY <1>2 DEF Get, ReportInv
<1>3. CASE Start
  <2>1. pc = "start" /\ errs = {}
    BY <1>3 DEF Start, ReportInv
  <2> QED BY <1>3, <2>1 DEF Start, Quit, Goto, ReportInv
<1>4. CASE NextElement
  <2>1. pc' = pc /\ errs' = errs /\ pc \in Loops
    BY <1>4 DEF NextElement
  <2> QED BY <2>1 DEF ReportInv, Loops
<1>5. CASE NextPhase
  <2>1. errs' = errs /\ pc \in Loops \cup {"trial"} /\ pc' = Following[pc]
    BY <1>5 DEF NextPhase, Goto
  <2>2. CASE pc \in {"unadd", "reindex"}
    BY <2>1, <2>2, ReportFails DEF ReportInv, Following
  <2>3. CASE pc \notin {"unadd", "reindex"}
    BY <2>1, <2>3, ReportElsewhere DEF Following, Loops, Early, Inside
  <2> QED BY <2>2, <2>3
<1>6. CASE DropIndex \/ BeginTrial \/ TryStatement \/ EndTrial \/ AddColumn
  <2>1. \/ pc' \in Early \ {"start"}
        \/ pc' = "end" /\ errs' # {}
    BY <1>6 DEF DropIndex, BeginTrial, TryStatement, EndTrial, AddColumn, Quit,
                Goto, Early
  <2> QED BY <2>1, ReportElsewhere, ReportFails
<1>7. CASE Begin \/ Update \/ GiveUp \/ Commit
  <2>1. \/ pc' \in Inside \cup {"nulls"}
        \/ pc' = "rollback" /\ errs' # {}
    BY <1>7 DEF Begin, Update, GiveUp, Commit, Goto, Inside
  <2> QED BY <2>1, ReportElsewhere, ReportFails
<1>8. CASE Rollback \/ Undo
  <2>1. pc' \in {"unadd", "reindex"} /\ errs' # {}
    BY <1>8 DEF Rollback, Undo, Goto, ReportInv
  <2> QED BY <2>1, ReportFails
<1>9. CASE CheckNulls
  <2>1. /\ pc = "nulls" /\ pc' = "end" /\ table' = table /\ plan' = plan
        /\ errs' = {} => ~\E c \in DOMAIN New.cols :
                            ~New.cols[c].null /\ HasNulls(table, c)
    BY <1>9 DEF CheckNulls, Goto
  <2>2. errs' = {} => SchemaOf(table) = New
    BY <2>1, NothingRelaxed
  <2> QED BY <2>1, <2>2 DEF ReportInv, SchemaOf, Def, New
<1>10. CASE End
  <2>1. /\ pc = "end" /\ table' = table /\ plan' = plan /\ failed' = failed
        /\ \/ plan.destructive /\ errs # {} /\ pc' = "dropall" /\ errs' = {}
           \/ ~(plan.destructive /\ errs # {}) /\ pc' = "done" /\ errs' = errs
    BY <1>10 DEF End, Goto, histvars
  <2> QED BY <2>1 DEF ReportInv, SchemaOf, Def, New
<1>11. CASE DropAll
  <2>1. /\ pc = "dropall" /\ pc' = "create" /\ errs' = errs /\ plan' = plan
        /\ plan.destructive => table' = NoTable \/ failed' = TRUE
    BY <1>11 DEF DropAll, Goto, FailsSpuriously
  <2>2. NoTable' = NoTable
    BY DEF NoTable
  <2> QED BY <2>1, <2>2 DEF ReportInv
<1>12. CASE Create
  <2>1. pc = "create" /\ pc' = "done" /\ plan' = plan /\ errs = {}
    BY <1>12 DEF Create, Goto, ReportInv
  <2>2. CASE table' = TableOf(New, "filled", FALSE) /\ errs' = errs
    <3>1. SchemaOf(TableOf(New, "filled", FALSE)) = New
      BY Types, PlanShape, TableOfTyped DEF Data
    <3>2. SchemaOf(table') = New
      BY <2>2, <3>1
    <3> QED BY <2>1, <2>2, <3>2 DEF ReportInv, New, SchemaOf, Def
  <2>3. CASE errs' = {"error"} /\ failed' = TRUE
    BY <2>1, <2>3 DEF ReportInv
  <2>4. CASE table # NoTable /\ errs' = {"error"} /\ failed' = failed
    BY <2>1, <2>4 DEF ReportInv
  <2> QED BY <1>12, <2>2, <2>3, <2>4 DEF Create, FailsSpuriously
<1>13. CASE Crash \/ Again
  BY <1>13 DEF Crash, Again, Goto, ReportInv
<1> QED BY <1>1, <1>2, <1>3, <1>4, <1>5, <1>6, <1>7, <1>8, <1>9, <1>10, <1>11,
           <1>12, <1>13 DEF Next, Finished

-----------------------------------------------------------------------------
LEMMA CleanStart ==
  ASSUME Init PROVE TrialInv /\ LoopsInv /\ ColumnsInv /\ IndexesInv /\ ReportInv
<1>1. pc = "get" /\ ErrWhenAltering = <<>> /\ errs = {}
  BY DEF Init
<1>2. DOMAIN ErrWhenAltering = {}
  BY <1>1
<1> QED BY <1>1, <1>2 DEF TrialInv, LoopsInv, ColumnsInv, IndexesInv, ReportInv, Inside

\* Everything that the exactness of a put rests on.
ExactInv == TypeInv /\ UndoInv /\ TrialInv /\ CleanInv

LEMMA ExactHolds == Spec => []ExactInv
<1>1. Init => ExactInv
  <2>1. Init => UndoInv
    BY DEF Init, UndoInv, Early, Inside
  <2> QED BY <2>1, TypeStart, CleanStart DEF ExactInv, CleanInv
<1>2. ExactInv /\ [Next]_vars => ExactInv'
  BY TypeStep, UndoStep, TrialStep, LoopsStep, ColumnsStep, ReportStep
  DEF ExactInv, CleanInv
<1> QED BY <1>1, <1>2, PTL DEF Spec

\* CleanMeansExact is always true: a put that reports neither an error nor a
\* warning has made exactly the wanted table, whatever the two schemas are and
\* whichever statements failed on the way.
THEOREM CleanIsExact == Spec => []CleanMeansExact
<1>1. ExactInv => CleanMeansExact
  BY DEF ExactInv, CleanInv, ReportInv, CleanMeansExact, New
<1> QED BY <1>1, ExactHolds, PTL

\* DestructiveIsExact is always true: with Destructive, only a statement that
\* fails for no reason of the table's keeps a put from making the wanted table.
THEOREM DestructiveSucceeds == Spec => []DestructiveIsExact
<1>1. ExactInv => DestructiveIsExact
  BY DEF ExactInv, CleanInv, ReportInv, DestructiveIsExact, New
<1> QED BY <1>1, ExactHolds, PTL
=============================================================================
