-------------------------- MODULE MCPutSchemaTable --------------------------
(***************************************************************************)
(* Two columns and an index.  Column "a" varies in every way; column "b" is *)
(* a plain column that may be added or dropped; the index may be added,     *)
(* dropped or moved to the other column.                                    *)
(***************************************************************************)
EXTENDS PutSchemaTable, TLC

Plain == [type |-> "narrow", null |-> TRUE, default |-> FALSE]

OldColumns ==
  {f \in UNION {[C -> [type : {"narrow"}, null : BOOLEAN, default : BOOLEAN]] :
                  C \in SUBSET {"a", "b"} \ {{}}} :
     "b" \in DOMAIN f => f["b"] = Plain}
NewColumns ==
  {f \in UNION {[C -> ColumnDef] : C \in SUBSET {"a", "b"} \ {{}}} :
     "b" \in DOMAIN f => f["b"] = Plain}
IndexesOn(cols) == {<<>>} \cup [{"i"} -> DOMAIN cols]

SchemasOf(columns) ==
  UNION {{[cols |-> cols, idx |-> idx] : idx \in IndexesOn(cols)} :
           cols \in columns}

MCPlans ==
  {p \in [old : SchemasOf(OldColumns), new : SchemasOf(NewColumns),
          rows : BOOLEAN, nulls : BOOLEAN, convertible : BOOLEAN,
          destructive : BOOLEAN] :
     /\ p.nulls => p.rows /\ \E c \in DOMAIN p.old.cols : p.old.cols[c].null
     /\ ~p.convertible =>
          \E c \in DOMAIN p.old.cols \cap DOMAIN p.new.cols :
            p.old.cols[c].type # p.new.cols[c].type
     /\ p.old # p.new}

\* The situations where columns are added and dropped one by one.
ThreeColumns == {"a", "b", "c"}
AddsOnly ==
  {p \in [old : {[cols |-> [x \in C |-> Plain], idx |-> <<>>] :
                   C \in SUBSET ThreeColumns \ {{}}},
          new : {[cols |-> [x \in C |-> [Plain EXCEPT !.null = n]],
                  idx |-> <<>>] :
                   C \in SUBSET ThreeColumns \ {{}}, n \in BOOLEAN},
          rows : BOOLEAN, nulls : {FALSE}, convertible : {TRUE},
          destructive : BOOLEAN] : p.old # p.new}

AllPlans == MCPlans \cup AddsOnly
=============================================================================
