------------------------------ MODULE SchemaCsv ------------------------------
(* How the rows of a table become the text of a file, and statements again:  *)
(* WvCsv (src/wvdotnet/wvcsv.cs), and GetSchemaData, Normalize, Csv2Inserts  *)
(* and PutSchemaData of src/versaplexd/vxdbschema.cs.                        *)
(*                                                                           *)
(* A text is a sequence of letters, a table a bag of rows, a row a function  *)
(* from columns to texts or NULL.  The line "TABLE t" that a file of rows    *)
(* begins with is kept apart, as the file's head.  Images (base64 and hex),  *)
(* the format of dates, carriage returns and IDENTITY_INSERT are left out;   *)
(* the order of rows, which the server or a sort decides, is some order; and *)
(* names of tables and columns are in lower case, as those of rules are.     *)
EXTENDS Integers, Sequences, SequencesExt, Bags

CONSTANTS Columns,  \* the names of a table's columns, in order: texts
          TypeOf,   \* their types, by name
          PartSize, \* statements that fit in 50000 letters
          NULL

ASSUME CsvAssumption ==
  /\ Columns # <<>> /\ \A i \in DOMAIN Columns : Columns[i] \in DOMAIN TypeOf
  /\ PartSize \in Nat \ {0}

Names == ToSet(Columns)

Apos == "'"
Quote == "\""
NewLine == "\n"
Comma == ","

Replaced(text, c, by) == FlattenSeq([i \in 1..Len(text) |-> IF text[i] = c THEN by ELSE <<text[i]>>])
Joined(parts, sep) ==
  FlattenSeq([i \in 1..Len(parts) |-> IF i = 1 THEN parts[i] ELSE sep \o parts[i]])

-----------------------------------------------------------------------------
(* Writing.                                                                  *)

\* an apostrophe is doubled for SQL here, and once more when it is read back
Doubled(value) == IF value = NULL THEN NULL ELSE Replaced(value, Apos, <<Apos, Apos>>)

RequiresQuotes(text) ==
  text = <<>> \/ \E i \in 1..Len(text) : text[i] \in {" ", Comma, NewLine, Quote}

Quoted(value) ==
  LET text == Replaced(value, Quote, <<Quote, Quote>>)
  IN IF RequiresQuotes(text) THEN <<Quote>> \o text \o <<Quote>> ELSE text
CsvValue(value) == IF value = NULL THEN <<>> ELSE Quoted(Doubled(value))

GetCsvLine(values) == Joined([i \in 1..Len(values) |-> CsvValue(values[i])], <<Comma>>)

\* the rules of data-export.txt, replaces and skipfields, are for a field
\* wherever it is, or for one table's, <<table, name>>
Everywhere(name) == <<NULL, name>>

\* replaces, of which the rule for a table is applied last
Exported(rules, table, name, value) ==
  IF <<table, name>> \in DOMAIN rules.replaces THEN rules.replaces[<<table, name>>]
  ELSE IF Everywhere(name) \in DOMAIN rules.replaces THEN rules.replaces[Everywhere(name)]
  ELSE value

Skipped(rules, table, name) == {Everywhere(name), <<table, name>>} \cap rules.skipfields # {}
ExportedColumns(rules, table) == SelectSeq(Columns, LAMBDA c : ~Skipped(rules, table, c))

RowsOf(bag) ==
  LET distinct == SetToSeq(DOMAIN bag)
  IN FlattenSeq([i \in 1..Len(distinct) |-> [n \in 1..bag[distinct[i]] |-> distinct[i]]])

HeadLine(cols) == <<Quote>> \o Joined(cols, <<Quote, Comma, Quote>>) \o <<Quote, NewLine>>

GetSchemaData(table, rows, where, rules) ==
  LET cols == ExportedColumns(rules, table)
      Line(row) == GetCsvLine([i \in 1..Len(cols) |-> Exported(rules, table, cols[i], row[cols[i]])])
      selected == SelectSeq(RowsOf(rows), LAMBDA row : where = NULL \/ row[where.column] = where.value)
  IN HeadLine(cols) \o FlattenSeq([i \in 1..Len(selected) |-> Line(selected[i]) \o <<NewLine>>])

-----------------------------------------------------------------------------
(* Reading.                                                                  *)

QuotesAtEnd(text) == Len(text) - SelectLastInSeq(text, LAMBDA c : c # Quote)

\* of each pair of quotation marks one is left
Unescaped(text) ==
  FlattenSeq([i \in 1..Len(text) |->
    IF text[i] = Quote /\ QuotesAtEnd(SubSeq(text, 1, i)) % 2 = 0 THEN <<>> ELSE <<text[i]>>])

\* a value that began with a quotation mark goes on up to a comma or line end
\* after one that is not part of a pair
\* a bug: up to one after any quotation mark
ClosedByAnyQuote(field) == field # <<>> /\ field[Len(field)] = Quote
Closed(field) == QuotesAtEnd(field) % 2 = 1

Before(text, p, IsEnd(_)) ==
  LET ends == {e \in p..Len(text) : IsEnd(e)}
  IN IF ends = {} THEN Len(text) + 1 ELSE Min(ends)

\* the value that starts at p: what it is, and where the letter after it stands
QuotedValue(text, p) ==
  LET e == Before(text, p + 1, LAMBDA x : /\ text[x] \in {Comma, NewLine}
                                          /\ Closed(SubSeq(text, p + 1, x - 1)))
      field == SubSeq(text, p + 1, e - 1)
  IN [value |-> Unescaped(IF Closed(field) THEN Front(field) ELSE field), end |-> e]
PlainValue(text, p) ==
  LET e == Before(text, p, LAMBDA x : text[x] \in {Comma, NewLine})
      field == SubSeq(text, p, e - 1)
  IN [value |-> IF field = <<>> THEN NULL ELSE Unescaped(field), end |-> e]

\* a value and the rest of its line, if it has one
LineWith(text, v, Later) ==
  IF v.end <= Len(text) /\ text[v.end] = NewLine
  THEN [values |-> <<v.value>>, next |-> v.end + 1]
  ELSE [Later[v.end + 1] EXCEPT !.values = <<v.value>> \o @]

\* WvCsv.GetLine from start on: the values, and where the next line starts
GetLine(text, start) ==
  LET From[p \in start..Len(text) + 2] ==
        IF p > Len(text) THEN [values |-> <<>>, next |-> p]
        ELSE IF text[p] = NewLine THEN [values |-> <<NULL>>, next |-> p + 1]
        ELSE LineWith(text, IF text[p] = Quote THEN QuotedValue(text, p) ELSE PlainValue(text, p), From)
  IN From[start]

CsvLines(text) ==
  LET From[p \in 1..Len(text) + 2] ==
        IF p > Len(text) THEN <<>>
        ELSE LET line == GetLine(text, p) IN <<line.values>> \o From[line.next]
  IN From[1]

-----------------------------------------------------------------------------
(* Statements: a DELETE of a table, an INSERT of a row, or one the server    *)
(* refuses.  An exception on the way to it has the effect of a refused one.  *)

Delete(table) == [kind |-> "delete", table |-> table]
Insert(table, row) == [kind |-> "insert", table |-> table, row |-> row]
Bad == [kind |-> "bad"]

\* only these types' values are put between apostrophes; the others' are
\* part of the statement as they are
Accepted(name, value) ==
  \/ value = NULL
  \/ TypeOf[name] \in {"varchar", "datetime", "char", "image"}
  \/ value # <<>> /\ \A i \in DOMAIN value : value[i] \in {"0", "1", "2", "3"}

InsertsOf(table, lines) ==
  LET names == IF lines = <<>> THEN <<>> ELSE lines[1]
      odd == {i \in 2..Len(lines) : Len(lines[i]) # Len(names)}
      known == \A i \in DOMAIN names : names[i] \in Names
      InsertOf(values) ==
        IF IsInjective(names) /\ \A i \in DOMAIN names : Accepted(names[i], values[i])
        THEN Insert(table, [c \in Names |->
               IF \E i \in DOMAIN names : names[i] = c
               THEN values[CHOOSE i \in DOMAIN names : names[i] = c] ELSE NULL])
        ELSE Bad
  IN IF Len(lines) <= 1 THEN <<>>
     ELSE IF odd # {} /\ Len(lines[Min(odd)]) < Len(names) /\ (known \/ Min(odd) = 2) THEN <<>>
     ELSE IF ~known \/ odd # {} THEN <<Bad>>
     ELSE [i \in 1..Len(lines) - 1 |-> InsertOf(lines[i + 1])]
Csv2Inserts(table, csvtext) == InsertsOf(table, CsvLines(csvtext))

\* the rows end at the first empty line
Lined(text) == IF text = <<>> \/ Last(text) = NewLine THEN text ELSE Append(text, NewLine)
FirstBlank(text) ==
  Before(text, 1, LAMBDA i : text[i] = NewLine /\ (i = 1 \/ text[i - 1] = NewLine))
CsvPart(text) == Lined(SubSeq(text, 1, FirstBlank(text) - 1))
SqlPart(text) == Lined(SubSeq(text, FirstBlank(text) + 1, Len(text)))

\* what follows them is taken for SQL
Normalize(file) ==
  Csv2Inserts(file.head, CsvPart(file.text))
  \o IF \A i \in DOMAIN SqlPart(file.text) : SqlPart(file.text)[i] = NewLine THEN <<>> ELSE <<Bad>>

\* a long text is given to the server in parts, the first statement alone; a
\* part that cannot be parsed is refused as a whole
InParts(given) ==
  LET PartOf(i) == IF Len(given) <= PartSize \/ i = 1 THEN 0 ELSE 1 + (i - 2) \div PartSize
      refused == {PartOf(i) : i \in {j \in DOMAIN given : given[j] = Bad}}
      sound == {i \in DOMAIN given : \A p \in refused : PartOf(i) < p}
  IN [i \in 1..Cardinality(sound) |-> given[i]] \o (IF refused = {} THEN <<>> ELSE <<Bad>>)

-----------------------------------------------------------------------------
(* sm dfix: the rules applied to a file of rows, with the columns as the     *)
(* table's file of its schema, beside DATA, has them (CsvFix).               *)

HasPair(text) == \E i \in 1..Len(text) - 1 : text[i] = Apos /\ text[i + 1] = Apos

Capitals == <<"A", "B", "C", "D", "E", "F", "G", "H", "I", "J", "K", "L", "M",
              "N", "O", "P", "Q", "R", "S", "T", "U", "V", "W", "X", "Y", "Z">>
Smalls   == <<"a", "b", "c", "d", "e", "f", "g", "h", "i", "j", "k", "l", "m",
              "n", "o", "p", "q", "r", "s", "t", "u", "v", "w", "x", "y", "z">>
Lower(text) ==
  [i \in DOMAIN text |-> IF text[i] \in ToSet(Capitals)
                         THEN Smalls[SelectInSeq(Capitals, LAMBDA c : c = text[i])] ELSE text[i]]

\* a replacement for one table's field is put in lower case, unlike in an export
InLowerCase(rules) ==
  [rules EXCEPT !.replaces =
     [r \in DOMAIN @ |-> IF r[1] = NULL \/ @[r] = NULL THEN @[r] ELSE Lower(@[r])]]

FixedAs(rules, table, name, read, Doubling(_)) ==
  LET value == Exported(InLowerCase(rules), table, name, read)
  IN IF value = NULL THEN <<>>
     ELSE IF name \in Names /\ TypeOf[name] \in {"varchar", "datetime", "char", "nchar", "text"}
     THEN Quoted(Doubling(value)) ELSE value

\* a bug: what is doubled already is doubled again
FixedValueAgain(rules, table, name, read) ==
  FixedAs(rules, table, name, read, Doubled)
FixedValue(rules, table, name, read) ==
  FixedAs(rules, table, name, read, LAMBDA value : IF HasPair(value) THEN value ELSE Doubled(value))

\* the places in a line that are kept: fields to skip are counted in the
\* table, and skipped in the line
KeptPlaces(rules, table, names) ==
  LET In(c) == \E i \in DOMAIN names : names[i] = c
      skip == {i \in DOMAIN Columns : Skipped(rules, table, Columns[i]) /\ In(Columns[i])}
  IN SelectSeq([i \in DOMAIN names |-> i], LAMBDA i : i \notin skip)

\* ToLower of NULL is an exception: for the name of a column, and for the
\* replacement of one table's field in a first line of values that has the
\* right length
Throws(rules, table, csvtext) ==
  LET lines == CsvLines(csvtext)
  IN /\ lines # <<>>
     /\ \/ NULL \in ToSet(lines[1])
        \/ /\ Len(lines) >= 2 /\ Len(lines[2]) = Len(lines[1])
           /\ \E i \in ToSet(KeptPlaces(rules, table, lines[1])) :
                LET rule == <<table, lines[1][i]>>
                IN rule \in DOMAIN rules.replaces /\ rules.replaces[rule] = NULL

FixedLines(rules, table, lines) ==
  LET names == IF lines = <<>> THEN <<>> ELSE lines[1]
      kept == KeptPlaces(rules, table, names)
      Line(values) ==
        Joined([j \in DOMAIN kept |-> FixedValue(rules, table, names[kept[j]], values[kept[j]])],
               <<Comma>>) \o <<NewLine>>
  IN IF \E i \in 2..Len(lines) : Len(lines[i]) # Len(names) THEN <<>>
     ELSE HeadLine(SelectSeq(ExportedColumns(rules, table), LAMBDA c : c \in ToSet(names)))
          \o FlattenSeq([i \in 1..Len(lines) - 1 |-> Line(lines[i + 1])])
CsvFix(rules, table, csvtext) == FixedLines(rules, table, CsvLines(csvtext))

OfRows(file) == file.head \notin {NULL, "empty", "cut"}
FixThrows(rules, file) == OfRows(file) /\ Throws(rules, file.head, CsvPart(file.text))
Fixed(rules, file) ==
  IF OfRows(file) THEN [file EXCEPT !.text = CsvFix(rules, file.head, CsvPart(@)) \o SqlPart(@)]
  ELSE file
=============================================================================
