---------------------------- MODULE OdbcHandles ----------------------------
(* The handles of the ODBC driver (src/vxodbc/environ.cc, connection.cc,     *)
(* statement.cc, descriptor.cc, drvconn.cc): which object owns which, what   *)
(* freeing one does to the others, and where the memory of column bindings   *)
(* goes when descriptors are shared between statements and copied.           *)
(*                                                                           *)
(* A handle is an address: after the object is freed malloc may hand it out  *)
(* again, for an object of the same kind.  The driver checks a handle for    *)
(* NULL only, so the application is modelled as one that uses live handles   *)
(* in any order; a statement whose row descriptor was freed under it is not  *)
(* used until it is given another (the driver would read freed memory).      *)
(*                                                                           *)
(* Transactions never run in this driver (CC_begin, CC_commit and CC_abort   *)
(* return FALSE) and nothing sets CONN_EXECUTING or STMT_EXECUTING, so the   *)
(* branches for a busy connection or statement cannot be taken.              *)
EXTENDS Naturals, FiniteSets

CONSTANTS Envs, Conns, Stmts, Descs, \* addresses malloc may return
          Blocks,                    \* addresses of arrays of bindings
          None,                      \* NULL
          MaxConnections,            \* MAX_CONNECTIONS
          BindMax,                   \* columns of a binding
          Rowsets,                   \* values of SQL_ROWSET_SIZE
          CursorTypes                \* values of SQL_CURSOR_TYPE

ASSUME HandlesAssumption ==
  /\ MaxConnections \in Nat \ {0}
  /\ BindMax \in Nat
  /\ Rowsets \subseteq Nat
  /\ CursorTypes \subseteq {"FORWARD_ONLY", "STATIC", "KEYSET_DRIVEN", "DYNAMIC"}
  /\ None \notin Envs \cup Conns \cup Stmts \cup Descs \cup Blocks
  /\ Envs \cap Conns = {} /\ Stmts \cap Descs = {}
  /\ \A a \in Stmts, k \in {"ARD", "APD", "IRD", "IPD"} : <<a, k>> \notin Descs

Pick(test, a, b) == IF test THEN a ELSE b

VARIABLES envs,   \* the environments that are allocated
          slots,  \* conns[]: the connections of all environments
          conns,  \* ConnectionClass of each allocated connection
          stmts,  \* StatementClass of each allocated statement
          descs,  \* DescriptorClass of each descriptor whose memory is there
          heap    \* the arrays of bindings that are allocated
vars == <<envs, slots, conns, stmts, descs, heap>>

Slots == 1..MaxConnections

-----------------------------------------------------------------------------
(* Descriptors.  The four implicit ones are part of their statement; only    *)
(* the row descriptor ever holds memory of its own: nothing binds parameters *)
(* (PGAPI_BindParameter always fails) or fills field information.            *)

Kinds == {"ARD", "APD", "IRD", "IPD"}
Implicit(a) == {<<a, k>> : k \in Kinds}
Embedded(d) == d \notin Descs

InitializeARDFields == [bindings |-> None, allocated |-> 0, rowset |-> 1]

\* a bug: the memory of a new descriptor is not cleared
ZeroFieldsUnset == [bindings |-> "garbage", allocated |-> 0, rowset |-> 0]
ZeroFields == [bindings |-> None, allocated |-> 0, rowset |-> 0]

\* DC_Constructor with InitializeEmbeddedDescriptor
EmbeddedDescriptor(k, c) == [conn |-> c, type |-> k, fields |-> ZeroFields]

\* a bug: the array of bindings is not freed
FreedNever(ds) == {}

\* the blocks DC_Destructor frees: only those of a descriptor whose type is
\* known, and of an ARD (ARDFields_free)
Freed(ds) == {descs[d].fields.bindings : d \in {e \in ds : descs[e].type = "ARD"}} \ {None}

\* DC_Destructor on a descriptor that stays: its fields are emptied
DestroyedFields(r) ==
  IF r.type = "ARD" THEN [r.fields EXCEPT !.bindings = None, !.allocated = 0]
  ELSE r.fields

\* a bug: only the structure is copied
CopyFieldsShallow(f, b) == f

\* ARDFields_copy, APDFields_copy, IPDFields_copy: the target gets an array of
\* its own, b
CopyFields(f, b) == IF f.allocated <= 0 THEN [f EXCEPT !.bindings = None, !.allocated = 0]
                    ELSE [f EXCEPT !.bindings = b]

Without(f, gone) == [x \in DOMAIN f \ gone |-> f[x]]
With(f, x, v) == [y \in DOMAIN f \cup {x} |-> Pick(y = x, v, f[y])]

FreeBlocks == Blocks \ heap

-----------------------------------------------------------------------------
(* Environments and connections.                                             *)

AllocEnv(e) ==
  /\ e \notin envs
  /\ envs' = envs \cup {e}
  /\ UNCHANGED <<slots, conns, stmts, descs, heap>>

\* what CC_cleanup, called by CC_Destructor as well, frees of a set of
\* connections: their statements with the implicit descriptors, and their
\* explicit descriptors
StmtsOf(cs) == UNION {conns[c].stmts : c \in cs}
DescsOf(cs) == UNION {conns[c].descs : c \in cs}

\* a bug: the explicit descriptors are forgotten
DescsOfNone(cs) == {}

Cleanup(cs) ==
  LET ss == StmtsOf(cs)
      ds == DescsOf(cs) \cup UNION {Implicit(a) : a \in ss}
  IN  /\ stmts' = Without(stmts, ss)
      /\ heap' = heap \ Freed(ds)
      /\ descs' = Without(descs, ds)

\* EN_Destructor: every connection of the environment goes, its slot after it
FreeEnv(e) ==
  LET cs == {c \in DOMAIN conns : \E i \in Slots : slots[i] = c /\ conns[c].henv = e}
  IN  /\ e \in envs
      /\ Cleanup(cs)
      /\ conns' = Without(conns, cs)
      /\ slots' = [i \in Slots |-> Pick(slots[i] \in cs, None, slots[i])]
      /\ envs' = envs \ {e}

NewConn(e) ==
  [henv |-> e, stmts |-> {}, descs |-> {},
   cursor |-> "FORWARD_ONLY", rowset |-> InitializeARDFields.rowset]

\* a bug: no look at what the slot holds
FreeSlotAny == 1

\* EN_add_connection: a slot that holds nothing (the code takes the first; no
\* line looks at the number)
FreeSlot == CHOOSE i \in Slots : slots[i] = None

AllocConnect(e, c) ==
  /\ e \in envs /\ c \notin DOMAIN conns
  /\ \E i \in Slots : slots[i] = None
  /\ slots' = [slots EXCEPT ![FreeSlot] = c]
  /\ conns' = With(conns, c, NewConn(e))
  /\ UNCHANGED <<envs, stmts, descs, heap>>

\* the connection is destroyed again
AllocConnectFull(e) ==
  /\ e \in envs /\ \A i \in Slots : slots[i] # None
  /\ UNCHANGED vars

\* EN_remove_connection, then CC_Destructor
FreeConnect(c) ==
  /\ c \in DOMAIN conns
  /\ \E i \in Slots : slots[i] = c
  /\ slots' = [i \in Slots |-> Pick(slots[i] = c, None, slots[i])]
  /\ Cleanup({c})
  /\ conns' = Without(conns, {c})
  /\ UNCHANGED envs

\* the connection stays, with its defaults for new statements
Disconnect(c) ==
  /\ c \in DOMAIN conns
  /\ Cleanup({c})
  /\ conns' = [conns EXCEPT ![c].stmts = {}, ![c].descs = {}]
  /\ UNCHANGED <<envs, slots>>

\* SQL_CURSOR_TYPE: a keyset or dynamic cursor becomes a static one
CursorType(v) == Pick(v = "FORWARD_ONLY", v, "STATIC")

\* PGAPI_SetConnectOption: defaults of statements allocated later
SetConnectCursor(c, v) ==
  /\ c \in DOMAIN conns
  /\ conns' = [conns EXCEPT ![c].cursor = CursorType(v)]
  /\ UNCHANGED <<envs, slots, stmts, descs, heap>>

SetConnectRowset(c, n) ==
  /\ c \in DOMAIN conns
  /\ conns' = [conns EXCEPT ![c].rowset = Pick(n < 1, 1, n)]
  /\ UNCHANGED <<envs, slots, stmts, descs, heap>>

\* functions of the connection that only report an error
Refused(c) == c \in DOMAIN conns /\ UNCHANGED vars
BrowseConnect(c) == Refused(c)
Transact(c) == Refused(c)
SetIsolation(c) == Refused(c)

-----------------------------------------------------------------------------
(* Statements and descriptors.                                               *)

AllocStmt(c, a) ==
  /\ c \in DOMAIN conns /\ a \notin DOMAIN stmts
  /\ stmts' = With(stmts, a, [hdbc |-> c, ard |-> <<a, "ARD">>, cursor |-> conns[c].cursor])
  /\ conns' = [conns EXCEPT ![c].stmts = @ \cup {a}]
  /\ descs' = [d \in DOMAIN descs \cup Implicit(a) |->
                IF d \notin Implicit(a) THEN descs[d]
                ELSE IF d[2] = "ARD"
                THEN [EmbeddedDescriptor("ARD", c) EXCEPT
                        !.fields = [InitializeARDFields EXCEPT !.rowset = conns[c].rowset]]
                ELSE EmbeddedDescriptor(d[2], c)]
  /\ UNCHANGED <<envs, slots, heap>>

\* a bug: the connection keeps the statement
ForgetStmtNever(a) == conns

\* CC_remove_statement
ForgetStmt(a) == [conns EXCEPT ![stmts[a].hdbc].stmts = @ \ {a}]

\* SQL_DROP: the statement and its implicit descriptors go, explicit ones stay
DropStmt(a) ==
  /\ a \in DOMAIN stmts
  /\ conns' = ForgetStmt(a)
  /\ heap' = heap \ Freed(Implicit(a))
  /\ descs' = Without(descs, Implicit(a))
  /\ stmts' = Without(stmts, {a})
  /\ UNCHANGED <<envs, slots>>

\* untyped until something is copied into it, and all of it zero
AllocDesc(c, d) ==
  /\ c \in DOMAIN conns /\ d \in Descs \ DOMAIN descs
  /\ descs' = With(descs, d, EmbeddedDescriptor("none", c))
  /\ conns' = [conns EXCEPT ![c].descs = @ \cup {d}]
  /\ UNCHANGED <<envs, slots, stmts, heap>>

\* an implicit descriptor is only emptied
FreeDesc(d) ==
  /\ d \in DOMAIN descs
  /\ heap' = heap \ Freed({d})
  /\ IF Embedded(d)
     THEN /\ descs' = [descs EXCEPT ![d].fields = DestroyedFields(descs[d])]
          /\ UNCHANGED conns
     ELSE /\ descs' = Without(descs, {d})
          /\ conns' = [conns EXCEPT ![descs[d].conn].descs = @ \ {d}]
  /\ UNCHANGED <<envs, slots, stmts>>

CannotCopy(d, t) ==
  \/ descs[d].type \in {"none", "IRD"}
  \/ descs[t].type # "none" /\ (descs[t].type = "IRD" \/ descs[t].type # descs[d].type)

CopyDescFails(d, t) ==
  /\ {d, t} \subseteq DOMAIN descs
  /\ CannotCopy(d, t)
  /\ UNCHANGED vars

\* the target is destroyed before the source is read: a descriptor copied to
\* itself loses its bindings
CopyDesc(d, t) ==
  LET src == Pick(d = t, DestroyedFields(descs[d]), descs[d].fields)
      kept == Pick(descs[t].type = "none", {}, Freed({t}))
  IN  /\ {d, t} \subseteq DOMAIN descs
      /\ ~CannotCopy(d, t)
      /\ \E b \in Pick(src.allocated > 0, FreeBlocks, {None}) :
           /\ heap' = (heap \ kept) \cup ({b} \ {None})
           /\ descs' = [descs EXCEPT ![t].type = descs[d].type,
                                   ![t].fields = CopyFields(src, b)]
      /\ UNCHANGED <<envs, slots, conns, stmts>>

\* SQL_ATTR_APP_ROW_DESC: any descriptor, or NULL for the implicit one
SetRowDesc(a, d) ==
  /\ a \in DOMAIN stmts /\ d \in DOMAIN descs \cup {None}
  /\ stmts' = [stmts EXCEPT ![a].ard = Pick(d = None, <<a, "ARD">>, d)]
  /\ UNCHANGED <<envs, slots, conns, descs, heap>>

\* extend_column_bindings: a longer array replaces the old one
BindCol(a, n) ==
  LET f == descs[stmts[a].ard].fields
  IN  /\ a \in DOMAIN stmts /\ stmts[a].ard \in DOMAIN descs
      /\ descs[stmts[a].ard].type \in {"none", "ARD"}
      /\ IF f.allocated >= n THEN UNCHANGED <<descs, heap>>
         ELSE \E b \in FreeBlocks :
                /\ heap' = (heap \ {f.bindings}) \cup {b}
                /\ descs' = [descs EXCEPT ![stmts[a].ard].fields.bindings = b,
                                        ![stmts[a].ard].fields.allocated = n]
      /\ UNCHANGED <<envs, slots, conns, stmts>>

-----------------------------------------------------------------------------
Init ==
  /\ envs = {}
  /\ slots = [i \in Slots |-> None]
  /\ conns = <<>> /\ stmts = <<>> /\ descs = <<>>
  /\ heap = {}

(* The entry points.                                                         *)
SQLAllocHandle ==
  \/ \E e \in Envs : AllocEnv(e) \/ AllocConnectFull(e)
  \/ \E e \in Envs, c \in Conns : AllocConnect(e, c)
  \/ \E c \in Conns, a \in Stmts : AllocStmt(c, a)
  \/ \E c \in Conns, d \in Descs : AllocDesc(c, d)

SQLFreeHandle ==
  \/ \E e \in Envs : FreeEnv(e)
  \/ \E c \in Conns : FreeConnect(c)
  \/ \E a \in Stmts : DropStmt(a)
  \/ \E d \in DOMAIN descs : FreeDesc(d)

SQLCopyDesc == \E d, t \in DOMAIN descs : CopyDesc(d, t) \/ CopyDescFails(d, t)

SQLDisconnect == \E c \in Conns : Disconnect(c)
SQLBrowseConnect == \E c \in Conns : BrowseConnect(c)
SQLEndTran == \E c \in Conns : Transact(c)

SQLSetConnectAttr ==
  \E c \in Conns : \/ SetIsolation(c)
                   \/ \E v \in CursorTypes : SetConnectCursor(c, v)
                   \/ \E n \in Rowsets : SetConnectRowset(c, n)

SQLSetStmtAttr == \E a \in Stmts : \E d \in DOMAIN descs \cup {None} : SetRowDesc(a, d)
SQLBindCol == \E a \in Stmts : \E n \in 1..BindMax : BindCol(a, n)

Next == \/ SQLAllocHandle \/ SQLFreeHandle \/ SQLCopyDesc
        \/ SQLDisconnect \/ SQLBrowseConnect \/ SQLEndTran
        \/ SQLSetConnectAttr \/ SQLSetStmtAttr \/ SQLBindCol

Spec == Init /\ [][Next]_vars

-----------------------------------------------------------------------------
ImplicitOf(ss) == UNION {Implicit(a) : a \in ss}

Fields == [bindings : Blocks \cup {None}, allocated : 0..BindMax, rowset : Nat]
Cursors == {"FORWARD_ONLY", "STATIC"}
Connection == [henv : Envs, stmts : SUBSET Stmts, descs : SUBSET Descs, cursor : Cursors,
               rowset : Nat]
Statement == [hdbc : Conns, ard : Descs \cup ImplicitOf(Stmts), cursor : Cursors]
Descriptor == [conn : Conns, type : Kinds \cup {"none"}, fields : Fields]

TypeOK ==
  /\ envs \subseteq Envs
  /\ slots \in [Slots -> Conns \cup {None}]
  /\ DOMAIN conns \subseteq Conns /\ \A c \in DOMAIN conns : conns[c] \in Connection
  /\ DOMAIN stmts \subseteq Stmts /\ \A a \in DOMAIN stmts : stmts[a] \in Statement
  /\ DOMAIN descs \subseteq Descs \cup ImplicitOf(Stmts)
  /\ \A d \in DOMAIN descs : descs[d] \in Descriptor
  /\ heap \subseteq Blocks

\* Every connection stands in exactly one slot and its environment is there.
SlotsExact ==
  /\ {slots[i] : i \in Slots} \ {None} = DOMAIN conns
  /\ \A i, j \in Slots : i # j /\ slots[i] # None => slots[i] # slots[j]
  /\ \A c \in DOMAIN conns : conns[c].henv \in envs

\* A statement is on the list of the connection it points to and on no other,
\* its implicit descriptors live as long as it does, and the same of explicit
\* descriptors: freeing a connection or an environment leaves nothing behind
\* that points to it, and no list points to what was freed.
OwnersLive ==
  /\ \A c \in DOMAIN conns :
       /\ conns[c].stmts = {a \in DOMAIN stmts : stmts[a].hdbc = c}
       /\ conns[c].descs = {d \in DOMAIN descs \cap Descs : descs[d].conn = c}
  /\ \A a \in DOMAIN stmts : stmts[a].hdbc \in DOMAIN conns
  /\ \A d \in DOMAIN descs : descs[d].conn \in DOMAIN conns
  /\ DOMAIN descs \ Descs = ImplicitOf(DOMAIN stmts)

\* Both: who is registered where is exact.
Registered == SlotsExact /\ OwnersLive

\* No two descriptors share an array of bindings, and none keeps one that was
\* freed: nothing is freed twice, or read after it was freed, however
\* descriptors are shared, copied and freed.
BindingsOwned ==
  /\ \A d \in DOMAIN descs :
       /\ descs[d].fields.bindings # None => descs[d].fields.bindings \in heap
       /\ (descs[d].fields.allocated = 0) = (descs[d].fields.bindings = None)
  /\ \A d, t \in DOMAIN descs :
       d # t /\ descs[d].fields.bindings # None
         => descs[d].fields.bindings # descs[t].fields.bindings

\* The arrays nobody can free any more.
Lost == heap \ {descs[d].fields.bindings : d \in DOMAIN descs}

\* Memory is lost in one way only: with an explicit descriptor a statement
\* bound columns in before anything was copied into it, whose type is unknown.
LostOnlyUntyped ==
  [][\A b \in Lost' \ Lost :
       \E d \in DOMAIN descs \cap Descs :
          descs[d].type = "none" /\ descs[d].fields.bindings = b]_vars
=============================================================================
