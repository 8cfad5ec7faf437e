---------------------------- MODULE MCOdbcCursor ----------------------------
(* Instances of OdbcCursor: answers of zero to three rows with every kind of *)
(* cell, two sizes of rowset.                                                *)
EXTENDS OdbcCursor

MCResults ==
  { [cols |-> 0, rows |-> <<>>],
    [cols |-> 2, rows |-> << <<"long", "long">>, <<"short", "long">>, <<"bad", "short">> >>] }

MCOffsets == {-1, 0, 2}
MCDirections == {"NEXT", "PRIOR", "FIRST", "LAST", "ABSOLUTE", "RELATIVE", "BOOKMARK"}

MCRowResults == { [cols |-> 1, rows |-> << <<"short">>, <<"short">>, <<"short">> >>] }
MCNext == {"NEXT"}
MCNone == {0}
=============================================================================
