-------------------------- MODULE MCOdbcApplication ---------------------------
(* An application of the driver that has a session as MCOdbcSession bounds   *)
(* it, or allocates, shares, copies and frees handles: two connections and   *)
(* slots, two statements, one explicit descriptor.  Neither reads what is    *)
(* the other's, so it does one of the two for good.                          *)
EXTENDS MCOdbcSession, OdbcHandles, TLC

VARIABLE has

ApplicationInit ==
  /\ has \in {"session", "handles"}
  /\ IF has = "session" THEN SessionInit
     ELSE /\ doing = Unused /\ NotLong /\ NotFixed /\ NoHandles /\ NoCatalog /\ NoTexts
          /\ NoInformation /\ NotConnecting /\ NoErrors
  /\ Init

HasSession == has = "session" /\ SessionNext /\ UNCHANGED <<has, vars>>
HasHandles == has = "handles" /\ Next /\ UNCHANGED <<has, sessionVars>>

Application == ApplicationInit /\ [][HasSession \/ HasHandles]_<<has, sessionVars, vars>>

HandleSymmetry == Permutations(Conns) \cup Permutations(Stmts) \cup Permutations(Blocks)
=============================================================================
