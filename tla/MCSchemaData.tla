---------------------------- MODULE MCSchemaData -----------------------------
EXTENDS SchemaData, TLC

k == <<"k">>
v == <<"v">>
MCColumns == <<k, v>>
MCTypeOf == (k :> "int") @@ (v :> "varchar")
MCTableNames == <<"t", "u">>

Row(n, text) == (k :> n) @@ (v :> text)
One == SetToBag({Row(<<"1">>, NULL)})
Two == SetToBag({Row(<<"1">>, <<"\"", ",">>), Row(<<"2">>, <<"'", "a">>)})
MCContents == {EmptyBag, Two}

\* every short text
Letters == {"a", "'", "\"", ",", "\n"}
Texts == UNION {[1..n -> Letters] : n \in 0..4}
HasEmptyLine(text) == \E i \in 1..Len(text) - 1 : text[i] = "\n" /\ text[i + 1] = "\n"

Plain == [replaces |-> <<>>, skipfields |-> {}]
Cmd(pri, cmd, table, where) == [pri |-> pri, cmd |-> cmd, table |-> table, where |-> where]
Zap(pri, tables) == [pri |-> pri, cmd |-> "zap", tables |-> tables]
Commands(e) == [commands |-> e, rules |-> Plain]
Usual == Commands(<<Cmd(1, "export", "t", NULL), Zap(2, <<"u">>)>>)
NoSort == Commands(<<Zap(1, <<"*">>), Cmd(2, "export-nosort", "t", NULL)>>)
Chosen == [commands |-> <<Cmd(1, "export", "t", [column |-> k, value |-> <<"1">>]),
                          Cmd(2, "export", "u", NULL)>>,
           \* one rule for every table, which another overrides for u
           rules |-> [replaces |-> (<<NULL, v>> :> <<"a">>) @@ (<<"u", v>> :> <<"B">>),
                      skipfields |-> {}]]
Skipping == [commands |-> <<Cmd(0, "export", "t", NULL), Cmd(3, "export", "u", NULL)>>,
             rules |-> [Plain EXCEPT !.skipfields = {<<NULL, v>>}]]
\* dfix cannot put NULL into a field of one table
Nulled == [commands |-> <<Cmd(1, "export", "t", NULL), Cmd(1, "export", "u", NULL)>>,
           rules |-> [replaces |-> <<"u", v>> :> NULL, skipfields |-> {<<"t", v>>}]]
Missing == Commands(<<Cmd(1, "export", "x", NULL)>>)
Senseless == Commands(NULL)

Pull == <<"create", FALSE>>
Push == <<"list", FALSE>>
Fix  == <<"listtofix", FALSE>>
Dry  == {<<"create", TRUE>>, <<"list", TRUE>>}
\* one column, whose rows of NULL are empty lines
OneColumn == [commands |-> <<Cmd(1, "export", "u", NULL)>>, rules |-> [Plain EXCEPT !.skipfields = {<<NULL, k>>}]]

Budget(t, u, programs, ops, starts, changes, faults, exports) ==
  [db |-> ("t" :> t) @@ ("u" :> u), programs |-> programs, ops |-> ops, starts |-> starts,
   changes |-> changes, faults |-> faults, exports |-> exports]

(* Two programs at once; one after another, with every kind of command and   *)
(* operation; and every short text, brought back, undisturbed.               *)
MCBudgets ==
  {Budget(Two, One, Programs, {Pull, Push}, 4, 0, 1, {Usual})}
  \cup {Budget(Two, One, {p}, {Pull, Push, Fix} \cup Dry, 3, 1, 1,
               {Usual, NoSort, Chosen, Skipping, Nulled, Missing, Senseless}) : p \in Programs}
  \cup {Budget(Two, One, {p}, {Pull, Push, Fix}, 4, 0, 2, {Usual, Chosen}) : p \in Programs}
  \cup {Budget(SetToBag({Row(<<"1">>, text), Row(<<"2">>, <<"a">>)}), EmptyBag, {p},
               IF HasEmptyLine(text) THEN {Pull, Push} ELSE {Pull, Push, Fix}, 3, 0, 0, {Usual}) :
           text \in Texts, p \in Programs}

(* Exports that lose rows: in one column NULL is an empty line, and dfix     *)
(* takes the first empty line of a text away.                                *)
MCOneColumn == {Budget(Two, One, Programs, {Pull, Push}, 2, 0, 0, {OneColumn})}
\* an apostrophe, pulled and pushed
MCApostrophe == {Budget(Two, One, Programs, {Pull, Push}, 2, 0, 0, {Usual})}
MCEmptyLine == {Budget(SetToBag({Row(<<"1">>, <<"\n", "\n">>), Row(<<"2">>, <<"a">>)}), EmptyBag, Programs,
                       {Pull, Push, Fix}, 3, 0, 0, {Usual})}

Symmetry == Permutations(Programs)
=============================================================================
