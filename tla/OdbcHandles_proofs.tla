-------------------------- MODULE OdbcHandles_proofs ---------------------------
(* Who owns which handle, for any number of them.  The invariant adds to     *)
(* Registered that the implicit descriptors of a statement point to its      *)
(* connection: otherwise freeing another one could take them away.           *)
(* The sections from "Numbers" on are about SchemaCsv and share the module   *)
(* only: the rows of an export come back from its text.  A value is cut at   *)
(* the commas and line ends that no pair of quotation marks hides, so it is  *)
(* followed letter by letter: how many quotation marks end it (QuotesMore),  *)
(* what is left of them (UnescapedMore), and that none of the commas and     *)
(* line ends it has cuts it (Uncut).  What stands where in a line, and which *)
(* lines in a file, follows from where joined texts stand (PlacedIn).        *)
EXTENDS OdbcHandles, SchemaCsv, FiniteSetTheorems, SequenceTheorems, WellFoundedInduction, TLAPS

ImplicitOwned ==
  \A a \in DOMAIN stmts : \A d \in Implicit(a) : descs[d].conn = stmts[a].hdbc
HandlesInv == TypeOK /\ Registered /\ ImplicitOwned

-----------------------------------------------------------------------------
(* Data                                                                      *)

LEMMA ImplicitApart ==
  /\ \A a \in Stmts : Implicit(a) \cap Descs = {} /\ Implicit(a) # {}
  /\ \A a, b : a # b => Implicit(a) \cap Implicit(b) = {}
<1>1. ASSUME NEW a \in Stmts PROVE Implicit(a) \cap Descs = {} /\ Implicit(a) # {}
  <2>1. \A k \in Kinds : <<a, k>> \notin Descs
    BY HandlesAssumption DEF Kinds
  <2>2. <<a, "ARD">> \in Implicit(a)
    BY DEF Implicit, Kinds
  <2> QED BY <2>1, <2>2 DEF Implicit
<1>2. \A a, b : a # b => Implicit(a) \cap Implicit(b) = {}
  BY DEF Implicit
<1> QED BY <1>1, <1>2

LEMMA FieldsMade ==
  /\ InitializeARDFields \in Fields /\ ZeroFields \in Fields
  /\ \A f \in Fields, n \in Nat : [f EXCEPT !.rowset = n] \in Fields
  /\ \A f \in Fields : [f EXCEPT !.bindings = None, !.allocated = 0] \in Fields
  /\ \A f \in Fields, b \in Blocks : [f EXCEPT !.bindings = b] \in Fields
  /\ \A f \in Fields, b \in Blocks, n \in 1..BindMax :
       [f EXCEPT !.bindings = b, !.allocated = n] \in Fields
<1> USE HandlesAssumption DEF Fields
<1>1. InitializeARDFields \in Fields
  BY DEF InitializeARDFields
<1>2. ZeroFields \in Fields
  BY DEF ZeroFields
<1>3. \A f \in Fields, n \in Nat : [f EXCEPT !.rowset = n] \in Fields
  OBVIOUS
<1>4. \A f \in Fields, b \in Blocks \cup {None} : [f EXCEPT !.bindings = b] \in Fields
  OBVIOUS
<1>5. \A f \in Fields, n \in 0..BindMax : [f EXCEPT !.allocated = n] \in Fields
  OBVIOUS
<1>6. ASSUME NEW f \in Fields, NEW b \in Blocks \cup {None}, NEW n \in 0..BindMax
      PROVE  [f EXCEPT !.bindings = b, !.allocated = n] \in Fields
  <2>1. [f EXCEPT !.bindings = b, !.allocated = n]
          = [[f EXCEPT !.bindings = b] EXCEPT !.allocated = n]
    OBVIOUS
  <2> QED BY <2>1, <1>4, <1>5
<1>7. 0 \in 0..BindMax /\ 1..BindMax \subseteq 0..BindMax
  OBVIOUS
<1> QED BY <1>1, <1>2, <1>3, <1>4, <1>6, <1>7

LEMMA DescriptorsMade ==
  ASSUME NEW c \in Conns
  PROVE  /\ \A k \in Kinds \cup {"none"} :
              /\ EmbeddedDescriptor(k, c) \in Descriptor
              /\ EmbeddedDescriptor(k, c).conn = c
         /\ \A r \in Descriptor, f \in Fields, k \in Kinds :
              /\ [r EXCEPT !.fields = f] \in Descriptor
              /\ [r EXCEPT !.fields = f].conn = r.conn
              /\ [r EXCEPT !.type = k, !.fields = f] \in Descriptor
              /\ [r EXCEPT !.type = k, !.fields = f].conn = r.conn
  BY FieldsMade DEF Descriptor, EmbeddedDescriptor

LEMMA ConnectionsMade ==
  ASSUME NEW r \in Connection
  PROVE  /\ \A v \in Cursors : LET q == [r EXCEPT !.cursor = v] IN
              q \in Connection /\ q.henv = r.henv /\ q.stmts = r.stmts /\ q.descs = r.descs
         /\ \A n \in Nat : LET q == [r EXCEPT !.rowset = n] IN
              q \in Connection /\ q.henv = r.henv /\ q.stmts = r.stmts /\ q.descs = r.descs
         /\ \A ss \in SUBSET Stmts : LET q == [r EXCEPT !.stmts = ss] IN
              q \in Connection /\ q.henv = r.henv /\ q.stmts = ss /\ q.descs = r.descs
         /\ \A ds \in SUBSET Descs : LET q == [r EXCEPT !.descs = ds] IN
              q \in Connection /\ q.henv = r.henv /\ q.stmts = r.stmts /\ q.descs = ds
         /\ LET q == [r EXCEPT !.stmts = {}, !.descs = {}] IN
              q \in Connection /\ q.henv = r.henv /\ q.stmts = {} /\ q.descs = {}
  BY DEF Connection

-----------------------------------------------------------------------------
(* Freeing connections                                                       *)

LEMMA CleanupExact ==
  ASSUME HandlesInv, NEW cs \in SUBSET DOMAIN conns, Cleanup(cs)
  PROVE  /\ DOMAIN stmts' = {a \in DOMAIN stmts : stmts[a].hdbc \notin cs}
         /\ \A a \in DOMAIN stmts' : stmts'[a] = stmts[a]
         /\ DOMAIN descs' = {d \in DOMAIN descs : descs[d].conn \notin cs}
         /\ \A d \in DOMAIN descs' : descs'[d] = descs[d]
         /\ DOMAIN descs' \ Descs = ImplicitOf(DOMAIN stmts')
         /\ heap' \subseteq heap
<1> DEFINE ss == StmtsOf(cs)
           ds == DescsOf(cs) \cup UNION {Implicit(a) : a \in ss}
<1>1. ss = {a \in DOMAIN stmts : stmts[a].hdbc \in cs}
  BY DEF HandlesInv, Registered, OwnersLive, StmtsOf
<1>2. DescsOf(cs) = {d \in DOMAIN descs \cap Descs : descs[d].conn \in cs}
  BY DEF HandlesInv, Registered, OwnersLive, DescsOf
<1>3. stmts' = Without(stmts, ss) /\ descs' = Without(descs, ds) /\ heap' \subseteq heap
  BY DEF Cleanup
<1>4. /\ DOMAIN stmts' = {a \in DOMAIN stmts : stmts[a].hdbc \notin cs}
      /\ \A a \in DOMAIN stmts' : stmts'[a] = stmts[a]
  BY <1>1, <1>3 DEF Without
<1>5. /\ DOMAIN descs' = DOMAIN descs \ ds
      /\ \A d \in DOMAIN descs' : descs'[d] = descs[d]
  BY <1>3 DEF Without
<1>6. ASSUME NEW d \in DOMAIN descs PROVE d \in ds <=> descs[d].conn \in cs
  <2>1. CASE d \in Descs
    <3>1. \A a \in ss : d \notin Implicit(a)
      BY <2>1, <1>1, ImplicitApart DEF HandlesInv, TypeOK
    <3> QED BY <2>1, <3>1, <1>2
  <2>2. CASE d \notin Descs
    <3>1. PICK a \in DOMAIN stmts : d \in Implicit(a)
      BY <2>2 DEF HandlesInv, Registered, OwnersLive, ImplicitOf
    <3>2. descs[d].conn = stmts[a].hdbc
      BY <3>1 DEF HandlesInv, ImplicitOwned
    <3>3. \A b \in ss : d \in Implicit(b) => b = a
      BY <3>1, ImplicitApart
    <3> QED BY <2>2, <3>1, <3>2, <3>3, <1>1, <1>2
  <2> QED BY <2>1, <2>2
<1>7. DOMAIN descs' = {d \in DOMAIN descs : descs[d].conn \notin cs}
  BY <1>5, <1>6
<1>8. DOMAIN descs' \ Descs = ImplicitOf(DOMAIN stmts')
  BY <1>4, <1>7 DEF HandlesInv, Registered, OwnersLive, ImplicitOf, ImplicitOwned
<1> QED BY <1>3, <1>4, <1>5, <1>7, <1>8

-----------------------------------------------------------------------------
(* Steps that leave every object with its owner                              *)

LEMMA OwnersKept ==
  ASSUME HandlesInv, UNCHANGED <<envs, slots>>, heap' \subseteq Blocks,
         DOMAIN conns' = DOMAIN conns, DOMAIN stmts' = DOMAIN stmts, DOMAIN descs' = DOMAIN descs,
         \A c \in DOMAIN conns : /\ conns'[c] \in Connection /\ conns'[c].henv = conns[c].henv
                                /\ conns'[c].stmts = conns[c].stmts
                                /\ conns'[c].descs = conns[c].descs,
         \A a \in DOMAIN stmts : stmts'[a] \in Statement /\ stmts'[a].hdbc = stmts[a].hdbc,
         \A d \in DOMAIN descs : descs'[d] \in Descriptor /\ descs'[d].conn = descs[d].conn
  PROVE  HandlesInv'
<1>1. TypeOK'
  BY DEF HandlesInv, TypeOK
<1>2. SlotsExact'
  BY DEF HandlesInv, Registered, SlotsExact
<1>3. OwnersLive'
  BY DEF HandlesInv, Registered, OwnersLive
<1>4. ImplicitOwned'
  <2>1. \A a \in DOMAIN stmts : Implicit(a) \subseteq DOMAIN descs
    BY DEF HandlesInv, Registered, OwnersLive, ImplicitOf
  <2> QED BY <2>1 DEF HandlesInv, ImplicitOwned
<1> QED BY <1>1, <1>2, <1>3, <1>4 DEF HandlesInv, Registered

LEMMA SettingsWell ==
  ASSUME HandlesInv
  PROVE  /\ \A c, v : SetConnectCursor(c, v) => HandlesInv'
         /\ \A c : \A n \in Nat : SetConnectRowset(c, n) => HandlesInv'
         /\ \A a, d : SetRowDesc(a, d) => HandlesInv'
<1> USE DEF HandlesInv, TypeOK
<1>1. ASSUME NEW c, NEW v, SetConnectCursor(c, v) PROVE HandlesInv'
  <2>1. CursorType(v) \in Cursors
    BY DEF CursorType, Cursors, Pick
  <2> DEFINE q == [conns[c] EXCEPT !.cursor = CursorType(v)]
  <2>2. /\ c \in DOMAIN conns /\ conns' = [conns EXCEPT ![c] = q]
        /\ UNCHANGED <<envs, slots, stmts, descs, heap>>
    BY <1>1 DEF SetConnectCursor
  <2>3. /\ q \in Connection /\ q.henv = conns[c].henv /\ q.stmts = conns[c].stmts
        /\ q.descs = conns[c].descs
    BY <2>1, <2>2, ConnectionsMade
  <2> QED BY <2>2, <2>3, OwnersKept
<1>2. ASSUME NEW c, NEW n \in Nat, SetConnectRowset(c, n) PROVE HandlesInv'
  <2>1. Pick(n < 1, 1, n) \in Nat
    BY DEF Pick
  <2> DEFINE q == [conns[c] EXCEPT !.rowset = Pick(n < 1, 1, n)]
  <2>2. /\ c \in DOMAIN conns /\ conns' = [conns EXCEPT ![c] = q]
        /\ UNCHANGED <<envs, slots, stmts, descs, heap>>
    BY <1>2 DEF SetConnectRowset
  <2>3. /\ q \in Connection /\ q.henv = conns[c].henv /\ q.stmts = conns[c].stmts
        /\ q.descs = conns[c].descs
    BY <2>1, <2>2, ConnectionsMade, ZenonT(40)
  <2> QED BY <2>2, <2>3, OwnersKept
<1>3. ASSUME NEW a, NEW d, SetRowDesc(a, d) PROVE HandlesInv'
  <2>1. Pick(d = None, <<a, "ARD">>, d) \in Descs \cup ImplicitOf(Stmts)
    BY <1>3 DEF SetRowDesc, Pick, ImplicitOf, Implicit, Kinds
  <2>2. \A r \in Statement, e \in Descs \cup ImplicitOf(Stmts) :
          [r EXCEPT !.ard = e] \in Statement /\ [r EXCEPT !.ard = e].hdbc = r.hdbc
    BY DEF Statement
  <2> QED BY <1>3, <2>1, <2>2, OwnersKept DEF SetRowDesc
<1> QED BY <1>1, <1>2, <1>3

\* the fields of one descriptor change, perhaps its type
LEMMA OneDescriptor ==
  ASSUME HandlesInv, NEW x \in DOMAIN descs, NEW r \in Descriptor, r.conn = descs[x].conn,
         descs' = [descs EXCEPT ![x] = r], heap' \subseteq Blocks,
         UNCHANGED <<envs, slots, conns, stmts>>
  PROVE  HandlesInv'
  BY OwnersKept DEF HandlesInv, TypeOK

LEMMA BindColKeeps ==
  ASSUME HandlesInv, NEW a, NEW n \in 1..BindMax, BindCol(a, n)
  PROVE  HandlesInv'
<1> DEFINE x == stmts[a].ard
<1>1. /\ x \in DOMAIN descs /\ descs[x] \in Descriptor /\ descs[x].fields \in Fields
      /\ descs[x].conn \in Conns
  BY ZenonT(40) DEF HandlesInv, TypeOK, BindCol, Descriptor
<1>2. CASE UNCHANGED <<descs, heap>>
  BY <1>2, OwnersKept DEF BindCol, HandlesInv, TypeOK
<1>3. CASE ~UNCHANGED <<descs, heap>>
  <2>1. PICK b \in FreeBlocks :
          /\ heap' = (heap \ {descs[x].fields.bindings}) \cup {b}
          /\ descs' = [descs EXCEPT ![x].fields.bindings = b, ![x].fields.allocated = n]
    BY <1>3 DEF BindCol
  <2>2. b \in Blocks /\ heap' \subseteq Blocks
    BY <2>1 DEF FreeBlocks, HandlesInv, TypeOK
  <2> DEFINE f == [descs[x].fields EXCEPT !.bindings = b, !.allocated = n]
             r == [descs[x] EXCEPT !.fields = f]
  <2>3. descs' = [descs EXCEPT ![x] = r]
    BY <1>1, <2>1 DEF Descriptor, Fields
  <2>4. f \in Fields
    BY <1>1, <2>2, FieldsMade
  <2> HIDE DEF f, x
  <2>5. r \in Descriptor /\ r.conn = descs[x].conn
    BY <1>1, <2>4, DescriptorsMade DEF Kinds
  <2> HIDE DEF r
  <2> QED BY <1>1, <2>2, <2>3, <2>5, OneDescriptor, ZenonT(40) DEF BindCol, x
<1> QED BY <1>2, <1>3

LEMMA DestroyedInFields ==
  \A r \in Descriptor : DestroyedFields(r) \in Fields
  BY FieldsMade DEF Descriptor, DestroyedFields

LEMMA CopyDescKeeps ==
  ASSUME HandlesInv, NEW d, NEW t, CopyDesc(d, t)
  PROVE  HandlesInv'
<1> DEFINE src == Pick(d = t, DestroyedFields(descs[d]), descs[d].fields)
<1>1. /\ d \in DOMAIN descs /\ t \in DOMAIN descs
      /\ descs[d] \in Descriptor /\ descs[t] \in Descriptor
      /\ descs[d].type \in Kinds /\ descs[t].conn \in Conns
  BY DEF HandlesInv, TypeOK, CopyDesc, CannotCopy, Descriptor
<1>2. src \in Fields
  BY <1>1, DestroyedInFields DEF Pick, Descriptor
<1>3. PICK b \in Pick(src.allocated > 0, FreeBlocks, {None}) :
        /\ heap' \subseteq heap \cup ({b} \ {None})
        /\ descs' = [descs EXCEPT ![t].type = descs[d].type, ![t].fields = CopyFields(src, b)]
  BY DEF CopyDesc
<1>4. b \in Blocks \cup {None} /\ heap' \subseteq Blocks
  BY <1>3 DEF Pick, FreeBlocks, HandlesInv, TypeOK
<1>5. CopyFields(src, b) \in Fields
  BY <1>2, <1>3, <1>4, FieldsMade, ZenonT(40) DEF CopyFields, Pick, FreeBlocks, Fields
<1> DEFINE r == [descs[t] EXCEPT !.type = descs[d].type, !.fields = CopyFields(src, b)]
<1>6. r \in Descriptor /\ r.conn = descs[t].conn
  BY <1>1, <1>5, DescriptorsMade, ZenonT(40)
<1>7. descs' = [descs EXCEPT ![t] = r]
  BY <1>1, <1>3 DEF Descriptor
<1> HIDE DEF src, r
<1> QED BY <1>1, <1>4, <1>6, <1>7, OneDescriptor DEF CopyDesc

LEMMA EmptyingKeeps ==
  ASSUME HandlesInv, NEW d, FreeDesc(d), Embedded(d)
  PROVE  HandlesInv'
<1> DEFINE r == [descs[d] EXCEPT !.fields = DestroyedFields(descs[d])]
<1>1. d \in DOMAIN descs /\ descs[d] \in Descriptor /\ descs[d].conn \in Conns
  BY SMTT(30) DEF HandlesInv, TypeOK, FreeDesc, Descriptor
<1>2. r \in Descriptor /\ r.conn = descs[d].conn
  BY <1>1, DestroyedInFields, DescriptorsMade DEF Kinds
<1>3. descs' = [descs EXCEPT ![d] = r] /\ heap' \subseteq heap /\ UNCHANGED <<envs, slots, conns, stmts>>
  BY DEF FreeDesc
<1> HIDE DEF r
<1> QED BY <1>1, <1>2, <1>3, OneDescriptor DEF HandlesInv, TypeOK

-----------------------------------------------------------------------------
(* Allocation                                                                *)

LEMMA AllocEnvKeeps ==
  ASSUME HandlesInv, NEW e \in Envs, AllocEnv(e)
  PROVE  HandlesInv'
<1>1. TypeOK'
  BY DEF HandlesInv, TypeOK, AllocEnv
<1>2. Registered'
  BY DEF HandlesInv, Registered, SlotsExact, OwnersLive, AllocEnv
<1>3. ImplicitOwned'
  BY DEF HandlesInv, ImplicitOwned, AllocEnv
<1> QED BY <1>1, <1>2, <1>3 DEF HandlesInv

LEMMA AllocConnectKeeps ==
  ASSUME HandlesInv, NEW e \in Envs, NEW c \in Conns, AllocConnect(e, c)
  PROVE  HandlesInv'
<1>1. /\ FreeSlot \in Slots /\ slots[FreeSlot] = None
      /\ slots' = [slots EXCEPT ![FreeSlot] = c]
  BY DEF AllocConnect, FreeSlot
<1>2. /\ DOMAIN conns' = DOMAIN conns \cup {c} /\ conns'[c] = NewConn(e)
      /\ \A x \in DOMAIN conns : conns'[x] = conns[x]
      /\ c \notin DOMAIN conns /\ e \in envs
      /\ UNCHANGED <<envs, stmts, descs, heap>>
  BY DEF AllocConnect, With, Pick
<1>3. /\ NewConn(e) \in Connection /\ NewConn(e).henv = e
      /\ NewConn(e).stmts = {} /\ NewConn(e).descs = {}
  BY DEF NewConn, Connection, Cursors, InitializeARDFields
<1>4. TypeOK'
  BY <1>1, <1>2, <1>3 DEF HandlesInv, TypeOK
<1>5. SlotsExact'
  <2>1. slots \in [Slots -> Conns \cup {None}] /\ c # None
    BY HandlesAssumption DEF HandlesInv, TypeOK
  <2>2. \A i \in Slots : slots'[i] = IF i = FreeSlot THEN c ELSE slots[i]
    BY <1>1, <2>1
  <2>3. {slots'[i] : i \in Slots} \ {None} = DOMAIN conns'
    BY <1>1, <1>2, <2>1, <2>2 DEF HandlesInv, Registered, SlotsExact
  <2>4. \A i, j \in Slots : i # j /\ slots'[i] # None => slots'[i] # slots'[j]
    BY <1>1, <1>2, <2>1, <2>2 DEF HandlesInv, Registered, SlotsExact
  <2>5. \A x \in DOMAIN conns' : conns'[x].henv \in envs'
    BY <1>2, <1>3 DEF HandlesInv, Registered, SlotsExact
  <2> QED BY <2>3, <2>4, <2>5 DEF SlotsExact
<1>6. OwnersLive'
  BY <1>2, <1>3 DEF HandlesInv, Registered, OwnersLive
<1>7. ImplicitOwned'
  BY <1>2 DEF HandlesInv, ImplicitOwned
<1> QED BY <1>4, <1>5, <1>6, <1>7 DEF HandlesInv, Registered

\* a connection gets a list of statements or of descriptors
LEMMA Listing ==
  ASSUME HandlesInv, NEW c \in DOMAIN conns, NEW r \in Connection, r.henv = conns[c].henv,
         conns' = [conns EXCEPT ![c] = r], UNCHANGED <<envs, slots>>
  PROVE  /\ SlotsExact'
         /\ DOMAIN conns' \subseteq Conns /\ \A x \in DOMAIN conns' : conns'[x] \in Connection
         /\ conns'[c] = r /\ DOMAIN conns' = DOMAIN conns
         /\ \A x \in DOMAIN conns \ {c} : conns'[x] = conns[x]
  BY DEF HandlesInv, TypeOK, Registered, SlotsExact

LEMMA AllocDescKeeps ==
  ASSUME HandlesInv, NEW c \in Conns, NEW d \in Descs, AllocDesc(c, d)
  PROVE  HandlesInv'
<1> DEFINE r == [conns[c] EXCEPT !.descs = conns[c].descs \cup {d}]
<1>1. /\ c \in DOMAIN conns /\ conns[c] \in Connection /\ conns' = [conns EXCEPT ![c] = r]
      /\ UNCHANGED <<envs, slots, stmts, heap>>
  BY DEF HandlesInv, TypeOK, AllocDesc
<1>2. /\ r \in Connection /\ r.henv = conns[c].henv /\ r.stmts = conns[c].stmts
      /\ r.descs = conns[c].descs \cup {d}
  BY <1>1 DEF Connection
<1>3. /\ DOMAIN descs' = DOMAIN descs \cup {d} /\ descs'[d] = EmbeddedDescriptor("none", c)
      /\ \A x \in DOMAIN descs : descs'[x] = descs[x]
      /\ d \notin DOMAIN descs
  BY DEF AllocDesc, With, Pick
<1>4. /\ EmbeddedDescriptor("none", c) \in Descriptor
      /\ EmbeddedDescriptor("none", c).conn = c
  BY DescriptorsMade
<1> HIDE DEF r
<1>5. /\ SlotsExact' /\ DOMAIN conns' = DOMAIN conns /\ conns'[c] = r
      /\ \A x \in DOMAIN conns' : conns'[x] \in Connection
      /\ \A x \in DOMAIN conns \ {c} : conns'[x] = conns[x]
  BY <1>1, <1>2, Listing
<1>6. TypeOK'
  BY <1>1, <1>3, <1>4, <1>5 DEF HandlesInv, TypeOK
<1>7. OwnersLive'
  <2>1. ASSUME NEW x \in DOMAIN conns
        PROVE  /\ conns'[x].stmts = {a \in DOMAIN stmts : stmts[a].hdbc = x}
               /\ conns'[x].descs = {y \in DOMAIN descs' \cap Descs : descs'[y].conn = x}
    BY <1>1, <1>2, <1>3, <1>4, <1>5 DEF HandlesInv, Registered, OwnersLive
  <2>2. \A y \in DOMAIN descs' : descs'[y].conn \in DOMAIN conns
    BY <1>1, <1>3, <1>4 DEF HandlesInv, Registered, OwnersLive
  <2>3. DOMAIN descs' \ Descs = ImplicitOf(DOMAIN stmts)
    BY <1>3 DEF HandlesInv, Registered, OwnersLive
  <2>4. \A a \in DOMAIN stmts : stmts[a].hdbc \in DOMAIN conns
    BY DEF HandlesInv, Registered, OwnersLive
  <2> QED BY <1>1, <1>5, <2>1, <2>2, <2>3, <2>4 DEF OwnersLive, ImplicitOf
<1>8. ImplicitOwned'
  <2>1. \A a \in DOMAIN stmts : Implicit(a) \subseteq DOMAIN descs
    BY DEF HandlesInv, Registered, OwnersLive, ImplicitOf
  <2> QED BY <1>1, <1>3, <2>1 DEF HandlesInv, ImplicitOwned
<1> QED BY <1>5, <1>6, <1>7, <1>8 DEF HandlesInv, Registered

LEMMA AllocStmtKeeps ==
  ASSUME HandlesInv, NEW c \in Conns, NEW a \in Stmts, AllocStmt(c, a)
  PROVE  HandlesInv'
<1> DEFINE r == [conns[c] EXCEPT !.stmts = conns[c].stmts \cup {a}]
           s == [hdbc |-> c, ard |-> <<a, "ARD">>, cursor |-> conns[c].cursor]
<1>1. /\ c \in DOMAIN conns /\ conns[c] \in Connection /\ conns' = [conns EXCEPT ![c] = r]
      /\ a \notin DOMAIN stmts /\ UNCHANGED <<envs, slots, heap>>
  BY DEF HandlesInv, TypeOK, AllocStmt
<1>2. /\ r \in Connection /\ r.henv = conns[c].henv /\ r.descs = conns[c].descs
      /\ r.stmts = conns[c].stmts \cup {a}
  BY <1>1 DEF Connection
<1>3. /\ DOMAIN stmts' = DOMAIN stmts \cup {a} /\ stmts'[a] = s
      /\ \A x \in DOMAIN stmts : stmts'[x] = stmts[x]
  BY <1>1 DEF AllocStmt, With, Pick
<1>4. s \in Statement /\ s.hdbc = c
  <2>1. <<a, "ARD">> \in ImplicitOf(Stmts)
    BY DEF ImplicitOf, Implicit, Kinds
  <2> QED BY <1>1, <2>1 DEF Statement, Connection
<1>5. /\ DOMAIN descs' = DOMAIN descs \cup Implicit(a)
      /\ \A d \in DOMAIN descs \ Implicit(a) : descs'[d] = descs[d]
      /\ \A d \in Implicit(a) : descs'[d] \in Descriptor /\ descs'[d].conn = c
  <2>1. /\ DOMAIN descs' = DOMAIN descs \cup Implicit(a)
        /\ \A d \in DOMAIN descs \ Implicit(a) : descs'[d] = descs[d]
    BY DEF AllocStmt
  <2>2. ASSUME NEW k \in Kinds
        PROVE descs'[<<a, k>>] \in Descriptor /\ descs'[<<a, k>>].conn = c
    <3> DEFINE f == [InitializeARDFields EXCEPT !.rowset = conns[c].rowset]
               q == [EmbeddedDescriptor("ARD", c) EXCEPT !.fields = f]
    <3>1. <<a, k>> \in Implicit(a)
      BY DEF Implicit
    <3>2. descs'[<<a, k>>] = IF k = "ARD" THEN q ELSE EmbeddedDescriptor(k, c)
      BY <3>1 DEF AllocStmt
    <3>3. f \in Fields
      BY <1>1, FieldsMade, ZenonT(40) DEF Connection
    <3>4. /\ "ARD" \in Kinds
          /\ \A j \in Kinds : EmbeddedDescriptor(j, c) \in Descriptor
                              /\ EmbeddedDescriptor(j, c).conn = c
      BY DescriptorsMade DEF Kinds
    <3> HIDE DEF f
    <3>5. q \in Descriptor /\ q.conn = c
      BY <3>3, <3>4, DescriptorsMade
    <3> HIDE DEF q
    <3> QED BY <3>2, <3>4, <3>5
  <2> QED BY <2>1, <2>2 DEF Implicit
<1> HIDE DEF r, s
<1>6. /\ SlotsExact' /\ DOMAIN conns' = DOMAIN conns /\ conns'[c] = r
      /\ \A x \in DOMAIN conns' : conns'[x] \in Connection
      /\ \A x \in DOMAIN conns \ {c} : conns'[x] = conns[x]
  BY <1>1, <1>2, Listing
<1>7. Implicit(a) \cap DOMAIN descs = {} /\ Implicit(a) \cap Descs = {}
  <2>1. \A d \in DOMAIN descs \ Descs : \E b \in DOMAIN stmts : d \in Implicit(b)
    BY DEF HandlesInv, Registered, OwnersLive, ImplicitOf
  <2> QED BY <1>1, <2>1, ImplicitApart
<1>8. TypeOK'
  <2>1. DOMAIN descs' \subseteq Descs \cup ImplicitOf(Stmts)
    BY <1>5 DEF HandlesInv, TypeOK, ImplicitOf
  <2>2. \A d \in DOMAIN descs' : descs'[d] \in Descriptor
    BY <1>5 DEF HandlesInv, TypeOK
  <2> QED BY <1>1, <1>3, <1>4, <1>6, <2>1, <2>2 DEF HandlesInv, TypeOK
<1>9. OwnersLive'
  <2>1. ASSUME NEW x \in DOMAIN conns
        PROVE  conns'[x].stmts = {b \in DOMAIN stmts' : stmts'[b].hdbc = x}
    BY <1>1, <1>2, <1>3, <1>4, <1>6 DEF HandlesInv, Registered, OwnersLive
  <2>2. ASSUME NEW x \in DOMAIN conns
        PROVE  conns'[x].descs = {d \in DOMAIN descs' \cap Descs : descs'[d].conn = x}
    BY <1>1, <1>2, <1>5, <1>6, <1>7 DEF HandlesInv, Registered, OwnersLive
  <2>3. \A b \in DOMAIN stmts' : stmts'[b].hdbc \in DOMAIN conns
    BY <1>1, <1>3, <1>4 DEF HandlesInv, Registered, OwnersLive
  <2>4. \A d \in DOMAIN descs' : descs'[d].conn \in DOMAIN conns
    BY <1>1, <1>5 DEF HandlesInv, Registered, OwnersLive
  <2>5. DOMAIN descs' \ Descs = ImplicitOf(DOMAIN stmts')
    BY <1>3, <1>5, <1>7 DEF HandlesInv, Registered, OwnersLive, ImplicitOf
  <2> QED BY <1>6, <2>1, <2>2, <2>3, <2>4, <2>5 DEF OwnersLive, ImplicitOf
<1>10. ImplicitOwned'
  <2>1. \A b \in DOMAIN stmts : Implicit(b) \subseteq DOMAIN descs
    BY DEF HandlesInv, Registered, OwnersLive, ImplicitOf
  <2>2. \A b \in DOMAIN stmts : \A d \in Implicit(b) : d \in DOMAIN descs \ Implicit(a)
    BY <1>7, <2>1
  <2> QED BY <1>1, <1>3, <1>4, <1>5, <2>2 DEF HandlesInv, ImplicitOwned
<1> QED BY <1>6, <1>8, <1>9, <1>10 DEF HandlesInv, Registered

-----------------------------------------------------------------------------
(* Freeing                                                                   *)

LEMMA DropStmtKeeps ==
  ASSUME HandlesInv, NEW a, DropStmt(a)
  PROVE  HandlesInv'
<1> DEFINE c == stmts[a].hdbc
           r == [conns[c] EXCEPT !.stmts = conns[c].stmts \ {a}]
<1>1. /\ a \in DOMAIN stmts /\ c \in DOMAIN conns /\ conns[c] \in Connection
      /\ conns' = [conns EXCEPT ![c] = r] /\ UNCHANGED <<envs, slots>> /\ heap' \subseteq heap
  BY DEF HandlesInv, TypeOK, Registered, OwnersLive, DropStmt, ForgetStmt
<1>2. /\ r \in Connection /\ r.henv = conns[c].henv /\ r.descs = conns[c].descs
      /\ r.stmts = conns[c].stmts \ {a}
  BY <1>1 DEF Connection
<1>3. /\ DOMAIN stmts' = DOMAIN stmts \ {a}
      /\ \A x \in DOMAIN stmts' : stmts'[x] = stmts[x]
      /\ DOMAIN descs' = DOMAIN descs \ Implicit(a)
      /\ \A d \in DOMAIN descs' : descs'[d] = descs[d]
  BY DEF DropStmt, Without
<1> HIDE DEF r
<1>4. /\ SlotsExact' /\ DOMAIN conns' = DOMAIN conns /\ conns'[c] = r
      /\ \A x \in DOMAIN conns' : conns'[x] \in Connection
      /\ \A x \in DOMAIN conns \ {c} : conns'[x] = conns[x]
  BY <1>1, <1>2, Listing
<1>5. a \in Stmts /\ Implicit(a) \cap Descs = {}
  BY <1>1, ImplicitApart DEF HandlesInv, TypeOK
<1>6. TypeOK'
  BY <1>1, <1>3, <1>4 DEF HandlesInv, TypeOK
<1>7. OwnersLive'
  <2>1. ASSUME NEW x \in DOMAIN conns
        PROVE  conns'[x].stmts = {b \in DOMAIN stmts' : stmts'[b].hdbc = x}
    BY <1>1, <1>2, <1>3, <1>4 DEF HandlesInv, Registered, OwnersLive
  <2>2. ASSUME NEW x \in DOMAIN conns
        PROVE  conns'[x].descs = {d \in DOMAIN descs' \cap Descs : descs'[d].conn = x}
    BY <1>1, <1>2, <1>3, <1>4, <1>5 DEF HandlesInv, Registered, OwnersLive
  <2>3. /\ \A b \in DOMAIN stmts' : stmts'[b].hdbc \in DOMAIN conns
        /\ \A d \in DOMAIN descs' : descs'[d].conn \in DOMAIN conns
    BY <1>3 DEF HandlesInv, Registered, OwnersLive
  <2>4. DOMAIN descs' \ Descs = ImplicitOf(DOMAIN stmts')
    BY <1>3, <1>5, ImplicitApart DEF HandlesInv, Registered, OwnersLive, ImplicitOf
  <2> QED BY <1>4, <2>1, <2>2, <2>3, <2>4 DEF OwnersLive, ImplicitOf
<1>8. ImplicitOwned'
  <2>1. \A b \in DOMAIN stmts : Implicit(b) \subseteq DOMAIN descs
    BY DEF HandlesInv, Registered, OwnersLive, ImplicitOf
  <2>2. \A b \in DOMAIN stmts' : Implicit(b) \subseteq DOMAIN descs'
    BY <1>3, <2>1, ImplicitApart
  <2> QED BY <1>3, <2>2 DEF HandlesInv, ImplicitOwned
<1> QED BY <1>4, <1>6, <1>7, <1>8 DEF HandlesInv, Registered

LEMMA FreeDescKeeps ==
  ASSUME HandlesInv, NEW d, FreeDesc(d), ~Embedded(d)
  PROVE  HandlesInv'
<1> DEFINE c == descs[d].conn
           r == [conns[c] EXCEPT !.descs = conns[c].descs \ {d}]
<1>1. /\ d \in DOMAIN descs \cap Descs /\ c \in DOMAIN conns /\ conns[c] \in Connection
      /\ conns' = [conns EXCEPT ![c] = r] /\ UNCHANGED <<envs, slots, stmts>> /\ heap' \subseteq heap
  BY DEF HandlesInv, TypeOK, Registered, OwnersLive, FreeDesc, Embedded
<1>2. /\ r \in Connection /\ r.henv = conns[c].henv /\ r.stmts = conns[c].stmts
      /\ r.descs = conns[c].descs \ {d}
  BY <1>1 DEF Connection
<1>3. /\ DOMAIN descs' = DOMAIN descs \ {d}
      /\ \A x \in DOMAIN descs' : descs'[x] = descs[x]
  BY DEF FreeDesc, Without, Embedded
<1> HIDE DEF r
<1>4. /\ SlotsExact' /\ DOMAIN conns' = DOMAIN conns /\ conns'[c] = r
      /\ \A x \in DOMAIN conns' : conns'[x] \in Connection
      /\ \A x \in DOMAIN conns \ {c} : conns'[x] = conns[x]
  BY <1>1, <1>2, Listing
<1>5. TypeOK'
  BY <1>1, <1>3, <1>4 DEF HandlesInv, TypeOK
<1>6. OwnersLive'
  <2>1. ASSUME NEW x \in DOMAIN conns
        PROVE  /\ conns'[x].stmts = {a \in DOMAIN stmts : stmts[a].hdbc = x}
               /\ conns'[x].descs = {y \in DOMAIN descs' \cap Descs : descs'[y].conn = x}
    BY <1>1, <1>2, <1>3, <1>4 DEF HandlesInv, Registered, OwnersLive
  <2>2. /\ \A a \in DOMAIN stmts : stmts[a].hdbc \in DOMAIN conns
        /\ \A y \in DOMAIN descs' : descs'[y].conn \in DOMAIN conns
    BY <1>3 DEF HandlesInv, Registered, OwnersLive
  <2>3. DOMAIN descs' \ Descs = ImplicitOf(DOMAIN stmts)
    BY <1>1, <1>3 DEF HandlesInv, Registered, OwnersLive
  <2> QED BY <1>1, <1>4, <2>1, <2>2, <2>3 DEF OwnersLive, ImplicitOf
<1>7. ImplicitOwned'
  <2>1. \A a \in DOMAIN stmts : Implicit(a) \subseteq DOMAIN descs /\ d \notin Implicit(a)
    BY <1>1, ImplicitApart DEF HandlesInv, TypeOK, Registered, OwnersLive, ImplicitOf
  <2> QED BY <1>1, <1>3, <2>1 DEF HandlesInv, ImplicitOwned
<1> QED BY <1>4, <1>5, <1>6, <1>7 DEF HandlesInv, Registered

\* what remains is typed and owned as before, whatever the lists of the
\* connections that stay say
LEMMA CleanupKeeps ==
  ASSUME HandlesInv, NEW cs \in SUBSET DOMAIN conns, Cleanup(cs)
  PROVE  /\ DOMAIN stmts' \subseteq Stmts /\ \A a \in DOMAIN stmts' : stmts'[a] \in Statement
         /\ DOMAIN descs' \subseteq Descs \cup ImplicitOf(Stmts)
         /\ \A d \in DOMAIN descs' : descs'[d] \in Descriptor
         /\ heap' \subseteq Blocks
         /\ \A a \in DOMAIN stmts' : stmts'[a].hdbc \in DOMAIN conns \ cs
         /\ \A d \in DOMAIN descs' : descs'[d].conn \in DOMAIN conns \ cs
         /\ DOMAIN descs' \ Descs = ImplicitOf(DOMAIN stmts')
         /\ \A c \in DOMAIN conns \ cs :
              /\ conns[c].stmts = {a \in DOMAIN stmts' : stmts'[a].hdbc = c}
              /\ conns[c].descs = {d \in DOMAIN descs' \cap Descs : descs'[d].conn = c}
         /\ ImplicitOwned'
<1>1. /\ DOMAIN stmts' = {a \in DOMAIN stmts : stmts[a].hdbc \notin cs}
      /\ \A a \in DOMAIN stmts' : stmts'[a] = stmts[a]
      /\ DOMAIN descs' = {d \in DOMAIN descs : descs[d].conn \notin cs}
      /\ \A d \in DOMAIN descs' : descs'[d] = descs[d]
      /\ DOMAIN descs' \ Descs = ImplicitOf(DOMAIN stmts')
      /\ heap' \subseteq heap
  BY CleanupExact
<1>2. /\ DOMAIN stmts' \subseteq Stmts /\ \A a \in DOMAIN stmts' : stmts'[a] \in Statement
      /\ DOMAIN descs' \subseteq Descs \cup ImplicitOf(Stmts)
      /\ \A d \in DOMAIN descs' : descs'[d] \in Descriptor
      /\ heap' \subseteq Blocks
  BY <1>1 DEF HandlesInv, TypeOK
<1>3. /\ \A a \in DOMAIN stmts' : stmts'[a].hdbc \in DOMAIN conns \ cs
      /\ \A d \in DOMAIN descs' : descs'[d].conn \in DOMAIN conns \ cs
  BY <1>1 DEF HandlesInv, Registered, OwnersLive
<1>4. ASSUME NEW c \in DOMAIN conns \ cs
      PROVE  /\ conns[c].stmts = {a \in DOMAIN stmts' : stmts'[a].hdbc = c}
             /\ conns[c].descs = {d \in DOMAIN descs' \cap Descs : descs'[d].conn = c}
  BY <1>1 DEF HandlesInv, Registered, OwnersLive
<1>5. ImplicitOwned'
  <2>1. \A a \in DOMAIN stmts' : Implicit(a) \subseteq DOMAIN descs'
    BY <1>1 DEF ImplicitOf
  <2> QED BY <1>1, <2>1 DEF HandlesInv, ImplicitOwned
<1> QED BY <1>1, <1>2, <1>3, <1>4, <1>5

\* connections go, and their slots are empty again
LEMMA Removing ==
  ASSUME HandlesInv, NEW cs \in SUBSET DOMAIN conns, Cleanup(cs), conns' = Without(conns, cs),
         slots' = [i \in Slots |-> Pick(slots[i] \in cs, None, slots[i])],
         envs' \subseteq Envs, \A c \in DOMAIN conns \ cs : conns[c].henv \in envs'
  PROVE  HandlesInv'
<1>1. /\ DOMAIN conns' = DOMAIN conns \ cs
      /\ \A c \in DOMAIN conns' : conns'[c] = conns[c]
  BY DEF Without
<1>2. TypeOK'
  <2>1. slots' \in [Slots -> Conns \cup {None}]
    BY DEF HandlesInv, TypeOK, Pick
  <2>2. DOMAIN conns' \subseteq Conns /\ \A c \in DOMAIN conns' : conns'[c] \in Connection
    BY <1>1 DEF HandlesInv, TypeOK
  <2> QED BY <2>1, <2>2, CleanupKeeps DEF TypeOK, ImplicitOf, Implicit
<1>3. SlotsExact'
  <2>1. \A i \in Slots : slots'[i] = IF slots[i] \in cs THEN None ELSE slots[i]
    BY DEF Pick
  <2>2. {slots'[i] : i \in Slots} \ {None} = DOMAIN conns'
    BY <1>1, <2>1 DEF HandlesInv, Registered, SlotsExact
  <2>3. \A i, j \in Slots : i # j /\ slots'[i] # None => slots'[i] # slots'[j]
    BY <2>1 DEF HandlesInv, Registered, SlotsExact
  <2>4. \A c \in DOMAIN conns' : conns'[c].henv \in envs'
    BY <1>1
  <2> QED BY <2>2, <2>3, <2>4 DEF SlotsExact
<1>4. OwnersLive'
  BY <1>1, CleanupKeeps DEF OwnersLive, ImplicitOf, Implicit
<1> QED BY <1>2, <1>3, <1>4, CleanupKeeps DEF HandlesInv, Registered

LEMMA FreeEnvKeeps ==
  ASSUME HandlesInv, NEW e, FreeEnv(e)
  PROVE  HandlesInv'
<1> DEFINE cs == {c \in DOMAIN conns : \E i \in Slots : slots[i] = c /\ conns[c].henv = e}
<1>1. /\ Cleanup(cs) /\ conns' = Without(conns, cs) /\ envs' = envs \ {e}
      /\ slots' = [i \in Slots |-> Pick(slots[i] \in cs, None, slots[i])]
  BY DEF FreeEnv
<1>2. \A c \in DOMAIN conns \ cs : conns[c].henv \in envs'
  BY <1>1 DEF HandlesInv, Registered, SlotsExact
<1>3. cs \in SUBSET DOMAIN conns /\ envs' \subseteq Envs
  BY <1>1 DEF HandlesInv, TypeOK
<1> HIDE DEF cs
<1> QED BY <1>1, <1>2, <1>3, Removing

LEMMA FreeConnectKeeps ==
  ASSUME HandlesInv, NEW c, FreeConnect(c)
  PROVE  HandlesInv'
<1>1. /\ Cleanup({c}) /\ conns' = Without(conns, {c}) /\ {c} \in SUBSET DOMAIN conns
      /\ slots' = [i \in Slots |-> Pick(slots[i] \in {c}, None, slots[i])]
  BY DEF FreeConnect
<1>2. envs' \subseteq Envs /\ \A x \in DOMAIN conns : conns[x].henv \in envs'
  BY DEF HandlesInv, TypeOK, Registered, SlotsExact, FreeConnect
<1> QED BY <1>1, <1>2, Removing

LEMMA DisconnectKeeps ==
  ASSUME HandlesInv, NEW c, Disconnect(c)
  PROVE  HandlesInv'
<1> DEFINE r == [conns[c] EXCEPT !.stmts = {}, !.descs = {}]
<1>1. /\ c \in DOMAIN conns /\ {c} \in SUBSET DOMAIN conns /\ Cleanup({c})
      /\ conns[c] \in Connection /\ UNCHANGED <<envs, slots>>
  BY DEF HandlesInv, TypeOK, Disconnect
<1>2. conns' = [conns EXCEPT ![c] = r]
  BY <1>1 DEF Disconnect, Connection
<1>3. r \in Connection /\ r.henv = conns[c].henv /\ r.stmts = {} /\ r.descs = {}
  BY <1>1, ConnectionsMade
<1> HIDE DEF r
<1>4. /\ SlotsExact' /\ DOMAIN conns' = DOMAIN conns /\ conns'[c] = r
      /\ DOMAIN conns' \subseteq Conns
      /\ \A x \in DOMAIN conns' : conns'[x] \in Connection
      /\ \A x \in DOMAIN conns \ {c} : conns'[x] = conns[x]
  BY <1>1, <1>2, <1>3, Listing
<1>5. TypeOK'
  BY <1>1, <1>4, CleanupKeeps DEF HandlesInv, TypeOK, ImplicitOf, Implicit
<1>6. OwnersLive'
  <2>1. \A x \in DOMAIN conns :
          /\ conns'[x].stmts = {a \in DOMAIN stmts' : stmts'[a].hdbc = x}
          /\ conns'[x].descs = {d \in DOMAIN descs' \cap Descs : descs'[d].conn = x}
    BY <1>1, <1>3, <1>4, CleanupKeeps
  <2>2. /\ \A a \in DOMAIN stmts' : stmts'[a].hdbc \in DOMAIN conns
        /\ \A d \in DOMAIN descs' : descs'[d].conn \in DOMAIN conns
        /\ DOMAIN descs' \ Descs = ImplicitOf(DOMAIN stmts')
    BY <1>1, CleanupKeeps
  <2> QED BY <1>4, <2>1, <2>2 DEF OwnersLive, ImplicitOf, Implicit
<1> QED BY <1>1, <1>4, <1>5, <1>6, CleanupKeeps DEF HandlesInv, Registered

-----------------------------------------------------------------------------
LEMMA InitHandles == Init => HandlesInv
<1> SUFFICES ASSUME Init PROVE HandlesInv
  OBVIOUS
<1>1. DOMAIN conns = {} /\ DOMAIN stmts = {} /\ DOMAIN descs = {}
  BY DEF Init
<1>2. slots = [i \in Slots |-> None] /\ envs = {} /\ heap = {}
  BY DEF Init
<1>3. TypeOK
  BY <1>1, <1>2 DEF TypeOK
<1>4. Registered
  BY <1>1, <1>2 DEF Registered, SlotsExact, OwnersLive, ImplicitOf
<1> QED BY <1>1, <1>3, <1>4 DEF HandlesInv, ImplicitOwned

LEMMA StayingKeeps == HandlesInv /\ UNCHANGED vars => HandlesInv'
  BY DEF vars, HandlesInv, TypeOK, Registered, SlotsExact, OwnersLive, ImplicitOwned, ImplicitOf,
         Implicit

LEMMA NextKeeps ==
  ASSUME HandlesInv, Next
  PROVE  HandlesInv'
<1>1. CASE SQLAllocHandle
  BY <1>1, AllocEnvKeeps, AllocConnectKeeps, AllocStmtKeeps, AllocDescKeeps, StayingKeeps
     DEF SQLAllocHandle, AllocConnectFull
<1>2. CASE SQLFreeHandle
  BY <1>2, FreeEnvKeeps, FreeConnectKeeps, DropStmtKeeps, FreeDescKeeps, EmptyingKeeps
     DEF SQLFreeHandle
<1>3. CASE SQLCopyDesc
  BY <1>3, CopyDescKeeps, StayingKeeps DEF SQLCopyDesc, CopyDescFails
<1>4. CASE SQLDisconnect \/ SQLBrowseConnect \/ SQLEndTran
  BY <1>4, DisconnectKeeps, StayingKeeps
     DEF SQLDisconnect, SQLBrowseConnect, SQLEndTran, BrowseConnect, Transact, Refused
<1>5. CASE SQLSetConnectAttr
  <2>1. Rowsets \subseteq Nat
    BY HandlesAssumption
  <2>2. PICK c \in Conns : \/ SetIsolation(c)
                           \/ \E v \in CursorTypes : SetConnectCursor(c, v)
                           \/ \E n \in Rowsets : SetConnectRowset(c, n)
    BY <1>5 DEF SQLSetConnectAttr
  <2>3. CASE SetIsolation(c)
    BY <2>3, StayingKeeps DEF SetIsolation, Refused
  <2>4. CASE \E v \in CursorTypes : SetConnectCursor(c, v)
    BY <2>4, SettingsWell
  <2>5. CASE \E n \in Rowsets : SetConnectRowset(c, n)
    BY <2>1, <2>5, SettingsWell
  <2> QED BY <2>2, <2>3, <2>4, <2>5
<1>6. CASE SQLSetStmtAttr \/ SQLBindCol
  BY <1>6, SettingsWell, BindColKeeps DEF SQLSetStmtAttr, SQLBindCol
<1> QED BY <1>1, <1>2, <1>3, <1>4, <1>5, <1>6 DEF Next

-----------------------------------------------------------------------------
(* The arrays of bindings                                                    *)

LEMMA FieldValues ==
  ASSUME NEW f \in Fields
  PROVE  /\ \A n \in Nat : LET g == [f EXCEPT !.rowset = n] IN
              g.bindings = f.bindings /\ g.allocated = f.allocated
         /\ LET g == [f EXCEPT !.bindings = None, !.allocated = 0] IN
              g.bindings = None /\ g.allocated = 0
         /\ \A b : LET g == [f EXCEPT !.bindings = b] IN
              g.bindings = b /\ g.allocated = f.allocated
         /\ \A b, n : LET g == [f EXCEPT !.bindings = b, !.allocated = n] IN
              g.bindings = b /\ g.allocated = n
<1> USE DEF Fields
<1>1. ASSUME NEW n \in Nat PROVE LET g == [f EXCEPT !.rowset = n] IN
        g.bindings = f.bindings /\ g.allocated = f.allocated
  OBVIOUS
<1>2. ASSUME NEW b PROVE LET g == [f EXCEPT !.bindings = b] IN
        g.bindings = b /\ g.allocated = f.allocated
  OBVIOUS
<1>3. ASSUME NEW b, NEW n
      PROVE LET g == [f EXCEPT !.bindings = b, !.allocated = n] IN
        g.bindings = b /\ g.allocated = n
  OBVIOUS
<1> QED BY <1>1, <1>2, <1>3

HeldBy(r) == r.fields.bindings
Proper(r) == (r.fields.allocated = 0) = (HeldBy(r) = None)

LEMMA BindingsSame ==
  ASSUME BindingsOwned, UNCHANGED <<descs, heap>>
  PROVE  BindingsOwned'
  BY DEF BindingsOwned

\* descriptors go with what they hold, or leave it behind
LEMMA BindingsFreed ==
  ASSUME BindingsOwned, NEW ds, descs' = Without(descs, ds), ds \subseteq DOMAIN descs,
         heap' = heap \ Freed(ds)
  PROVE  BindingsOwned'
<1>1. DOMAIN descs' = DOMAIN descs \ ds /\ \A d \in DOMAIN descs' : descs'[d] = descs[d]
  BY DEF Without
<1>2. \A d \in DOMAIN descs' : descs[d].fields.bindings \notin Freed(ds)
  BY <1>1 DEF BindingsOwned, Freed
<1> QED BY <1>1, <1>2 DEF BindingsOwned

\* descriptors come, holding nothing
LEMMA BindingsNone ==
  ASSUME BindingsOwned, NEW new, DOMAIN descs' = DOMAIN descs \cup new, UNCHANGED heap,
         \A d \in DOMAIN descs \ new : descs'[d] = descs[d],
         \A d \in new : Proper(descs'[d]) /\ HeldBy(descs'[d]) = None
  PROVE  BindingsOwned'
  BY DEF BindingsOwned, Proper, HeldBy

\* one descriptor lets go of its array, and may get another one
LEMMA BindingsMoved ==
  ASSUME BindingsOwned, NEW x \in DOMAIN descs, NEW r, descs' = [descs EXCEPT ![x] = r],
         Proper(r), heap \ {HeldBy(descs[x])} \subseteq heap',
         \/ HeldBy(r) = None
         \/ HeldBy(r) \in heap' \ heap
         \/ HeldBy(r) = HeldBy(descs[x]) /\ heap' = heap
  PROVE  BindingsOwned'
<1>1. DOMAIN descs' = DOMAIN descs /\ descs'[x] = r
  OBVIOUS
<1>2. \A d \in DOMAIN descs \ {x} : descs'[d] = descs[d]
  OBVIOUS
<1> QED BY <1>1, <1>2 DEF BindingsOwned, Proper, HeldBy

LEMMA AllocBindings ==
  ASSUME HandlesInv, BindingsOwned
  PROVE  /\ \A c \in Conns, a \in Stmts : AllocStmt(c, a) => BindingsOwned'
         /\ \A c \in Conns, d \in Descs : AllocDesc(c, d) => BindingsOwned'
<1>1. \A k, c : LET r == EmbeddedDescriptor(k, c) IN Proper(r) /\ HeldBy(r) = None
  BY DEF EmbeddedDescriptor, ZeroFields, Proper, HeldBy
<1>2. ASSUME NEW c \in Conns, NEW a \in Stmts, AllocStmt(c, a)
      PROVE  BindingsOwned'
  <2> DEFINE f == [InitializeARDFields EXCEPT !.rowset = conns[c].rowset]
             q == [EmbeddedDescriptor("ARD", c) EXCEPT !.fields = f]
  <2>1. Proper(q) /\ HeldBy(q) = None
    BY DEF EmbeddedDescriptor, InitializeARDFields, Proper, HeldBy
  <2>2. /\ DOMAIN descs' = DOMAIN descs \cup Implicit(a) /\ UNCHANGED heap
        /\ \A d \in DOMAIN descs \ Implicit(a) : descs'[d] = descs[d]
        /\ \A d \in Implicit(a) : descs'[d] = q \/ \E k : descs'[d] = EmbeddedDescriptor(k, c)
    BY <1>2 DEF AllocStmt
  <2> HIDE DEF q
  <2>3. \A d \in Implicit(a) : Proper(descs'[d]) /\ HeldBy(descs'[d]) = None
    BY <1>1, <2>1, <2>2
  <2> QED BY <2>2, <2>3, BindingsNone
<1>3. ASSUME NEW c \in Conns, NEW d \in Descs, AllocDesc(c, d)
      PROVE  BindingsOwned'
  <2>1. /\ DOMAIN descs' = DOMAIN descs \cup {d} /\ UNCHANGED heap
        /\ \A x \in DOMAIN descs \ {d} : descs'[x] = descs[x]
        /\ descs'[d] = EmbeddedDescriptor("none", c)
    BY <1>3 DEF AllocDesc, With, Pick
  <2> DEFINE new == {d}
  <2>2. /\ DOMAIN descs' = DOMAIN descs \cup new
        /\ \A x \in DOMAIN descs \ new : descs'[x] = descs[x]
        /\ \A x \in new : Proper(descs'[x]) /\ HeldBy(descs'[x]) = None
    BY <1>1, <2>1
  <2> HIDE DEF new
  <2> QED BY <2>1, <2>2, BindingsNone
<1> QED BY <1>2, <1>3

LEMMA FreeBindings ==
  ASSUME HandlesInv, BindingsOwned
  PROVE  /\ \A cs \in SUBSET DOMAIN conns : Cleanup(cs) => BindingsOwned'
         /\ \A a : DropStmt(a) => BindingsOwned'
         /\ \A d : FreeDesc(d) => BindingsOwned'
<1>0. \A a \in DOMAIN stmts : Implicit(a) \subseteq DOMAIN descs
  BY DEF HandlesInv, Registered, OwnersLive, ImplicitOf
<1>1. ASSUME NEW cs \in SUBSET DOMAIN conns, Cleanup(cs)
      PROVE  BindingsOwned'
  <2> DEFINE ds == DescsOf(cs) \cup UNION {Implicit(a) : a \in StmtsOf(cs)}
  <2>1. descs' = Without(descs, ds) /\ heap' = heap \ Freed(ds)
    BY <1>1 DEF Cleanup
  <2>2. ds \subseteq DOMAIN descs
    BY <1>0 DEF HandlesInv, Registered, OwnersLive, DescsOf, StmtsOf
  <2> HIDE DEF ds
  <2> QED BY <2>1, <2>2, BindingsFreed
<1>2. ASSUME NEW a, DropStmt(a) PROVE BindingsOwned'
  BY <1>0, <1>2, BindingsFreed DEF DropStmt
<1>3. ASSUME NEW d, FreeDesc(d) PROVE BindingsOwned'
  <2>1. CASE ~Embedded(d)
    BY <1>3, <2>1, BindingsFreed DEF FreeDesc
  <2>2. CASE Embedded(d)
    <3> DEFINE f == DestroyedFields(descs[d])
               r == [descs[d] EXCEPT !.fields = f]
    <3>1. /\ d \in DOMAIN descs /\ descs[d] \in Descriptor /\ descs[d].fields \in Fields
          /\ descs' = [descs EXCEPT ![d] = r] /\ heap' = heap \ Freed({d})
      BY <1>3, <2>2 DEF FreeDesc, HandlesInv, TypeOK, Descriptor
    <3>2. r.fields = f
      BY <3>1 DEF Descriptor
    <3>3. CASE descs[d].type = "ARD"
      <4>1. f.bindings = None /\ f.allocated = 0
        BY <3>1, <3>3, FieldValues DEF DestroyedFields
      <4>2. heap \ {HeldBy(descs[d])} \subseteq heap'
        BY <3>1 DEF Freed, HeldBy
      <4> HIDE DEF f
      <4>3. Proper(r) /\ HeldBy(r) = None
        BY <3>2, <4>1 DEF Proper, HeldBy
      <4> HIDE DEF r
      <4> QED BY <3>1, <4>2, <4>3, BindingsMoved
    <3>4. CASE descs[d].type # "ARD"
      <4>1. f = descs[d].fields /\ heap' = heap
        BY <3>1, <3>4 DEF DestroyedFields, Freed
      <4>2. Proper(r) /\ HeldBy(r) = HeldBy(descs[d])
        BY <3>1, <3>2, <4>1 DEF Proper, HeldBy, BindingsOwned
      <4> HIDE DEF r
      <4> QED BY <3>1, <4>1, <4>2, BindingsMoved
    <3> QED BY <3>3, <3>4
  <2> QED BY <2>1, <2>2
<1> QED BY <1>1, <1>2, <1>3

LEMMA BindColBindings ==
  ASSUME HandlesInv, BindingsOwned, NEW a, NEW n \in 1..BindMax, BindCol(a, n)
  PROVE  BindingsOwned'
<1> DEFINE x == stmts[a].ard
<1>1. x \in DOMAIN descs /\ descs[x] \in Descriptor /\ descs[x].fields \in Fields
  BY DEF HandlesInv, TypeOK, BindCol, Descriptor
<1>2. CASE UNCHANGED <<descs, heap>>
  BY <1>2, BindingsSame
<1>3. CASE ~UNCHANGED <<descs, heap>>
  <2>1. PICK b \in FreeBlocks :
          /\ heap' = (heap \ {descs[x].fields.bindings}) \cup {b}
          /\ descs' = [descs EXCEPT ![x].fields.bindings = b, ![x].fields.allocated = n]
    BY <1>3 DEF BindCol
  <2> DEFINE f == [descs[x].fields EXCEPT !.bindings = b, !.allocated = n]
             r == [descs[x] EXCEPT !.fields = f]
  <2>2. descs' = [descs EXCEPT ![x] = r] /\ r.fields = f
    BY <1>1, <2>1 DEF Descriptor, Fields
  <2>3. f.bindings = b /\ f.allocated = n /\ n # 0
    BY <1>1, FieldValues, HandlesAssumption
  <2>4. b # None /\ b \in heap' \ heap
    BY <2>1, HandlesAssumption DEF FreeBlocks
  <2> HIDE DEF f, x
  <2>5. Proper(r) /\ HeldBy(r) = b
    BY <2>2, <2>3, <2>4 DEF Proper, HeldBy
  <2>6. heap \ {HeldBy(descs[x])} \subseteq heap'
    BY <2>1 DEF HeldBy
  <2> HIDE DEF r
  <2> QED BY <1>1, <2>2, <2>4, <2>5, <2>6, BindingsMoved
<1> QED BY <1>2, <1>3

LEMMA CopyDescBindings ==
  ASSUME HandlesInv, BindingsOwned, NEW d, NEW t, CopyDesc(d, t)
  PROVE  BindingsOwned'
<1> DEFINE src == Pick(d = t, DestroyedFields(descs[d]), descs[d].fields)
           kept == Pick(descs[t].type = "none", {}, Freed({t}))
<1>1. /\ d \in DOMAIN descs /\ t \in DOMAIN descs
      /\ descs[d] \in Descriptor /\ descs[t] \in Descriptor
  BY DEF HandlesInv, TypeOK, CopyDesc
<1>2. src \in Fields
  BY <1>1, DestroyedInFields DEF Pick, Descriptor
<1>3. PICK b \in Pick(src.allocated > 0, FreeBlocks, {None}) :
        /\ heap' = (heap \ kept) \cup ({b} \ {None})
        /\ descs' = [descs EXCEPT ![t].type = descs[d].type, ![t].fields = CopyFields(src, b)]
  BY DEF CopyDesc
<1> DEFINE f == CopyFields(src, b)
           r == [descs[t] EXCEPT !.type = descs[d].type, !.fields = f]
<1>4. descs' = [descs EXCEPT ![t] = r] /\ r.fields = f
  BY <1>1, <1>3 DEF Descriptor
<1>5. heap \ {HeldBy(descs[t])} \subseteq heap'
  BY <1>3 DEF Freed, Pick, HeldBy
<1>6. src.allocated \in Nat
  BY <1>2, HandlesAssumption DEF Fields
<1>7. CASE src.allocated > 0
  <2>1. b \in FreeBlocks
    BY <1>3, <1>7 DEF Pick
  <2>2. b # None /\ b \in heap' \ heap
    BY <1>3, <2>1, HandlesAssumption DEF FreeBlocks
  <2>3. f.bindings = b /\ f.allocated # 0
    BY <1>2, <1>6, <1>7, FieldValues DEF CopyFields
  <2> HIDE DEF f
  <2>4. Proper(r) /\ HeldBy(r) = b
    BY <1>4, <2>2, <2>3 DEF Proper, HeldBy
  <2> HIDE DEF r
  <2> QED BY <1>1, <1>4, <1>5, <2>2, <2>4, BindingsMoved
<1>8. CASE ~(src.allocated > 0)
  <2>1. f.bindings = None /\ f.allocated = 0
    BY <1>2, <1>6, <1>8, FieldValues DEF CopyFields
  <2> HIDE DEF f
  <2>2. Proper(r) /\ HeldBy(r) = None
    BY <1>4, <2>1 DEF Proper, HeldBy
  <2> HIDE DEF r
  <2> QED BY <1>1, <1>4, <1>5, <2>2, BindingsMoved
<1> QED BY <1>7, <1>8

LEMMA NextBindings ==
  ASSUME HandlesInv, BindingsOwned, Next
  PROVE  BindingsOwned'
<1>1. CASE SQLAllocHandle
  BY <1>1, AllocBindings, BindingsSame
     DEF SQLAllocHandle, AllocEnv, AllocConnect, AllocConnectFull, vars
<1>2. CASE SQLFreeHandle
  <2>1. ASSUME NEW e, FreeEnv(e) PROVE BindingsOwned'
    BY <2>1, FreeBindings DEF FreeEnv
  <2>2. ASSUME NEW c, FreeConnect(c) PROVE BindingsOwned'
    BY <2>2, FreeBindings DEF FreeConnect
  <2> QED BY <1>2, <2>1, <2>2, FreeBindings DEF SQLFreeHandle
<1>3. CASE SQLCopyDesc
  BY <1>3, CopyDescBindings, BindingsSame DEF SQLCopyDesc, CopyDescFails, vars
<1>4. CASE SQLDisconnect
  <2>1. ASSUME NEW c, Disconnect(c) PROVE BindingsOwned'
    BY <2>1, FreeBindings DEF Disconnect
  <2> QED BY <1>4, <2>1 DEF SQLDisconnect
<1>5. CASE SQLBrowseConnect \/ SQLEndTran \/ SQLSetConnectAttr \/ SQLSetStmtAttr
  BY <1>5, BindingsSame
     DEF SQLBrowseConnect, SQLEndTran, SQLSetConnectAttr, SQLSetStmtAttr, BrowseConnect,
         Transact, SetIsolation, Refused, SetConnectCursor, SetConnectRowset, SetRowDesc, vars
<1>6. CASE SQLBindCol
  BY <1>6, BindColBindings DEF SQLBindCol
<1> QED BY <1>1, <1>2, <1>3, <1>4, <1>5, <1>6 DEF Next

-----------------------------------------------------------------------------
(* Every variable keeps its type.                                            *)
THEOREM HandlesTyped == Spec => []TypeOK
<1>1. HandlesInv => TypeOK
  BY DEF HandlesInv
<1> QED BY <1>1, InitHandles, NextKeeps, StayingKeeps, PTL DEF Spec

(* Every connection stands in one slot, every statement and descriptor on    *)
(* the list of its connection and on no other, however handles are           *)
(* allocated, copied and freed in any order (environ.cc, connection.cc,      *)
(* statement.cc, descriptor.cc).                                             *)
THEOREM AlwaysRegistered == Spec => []Registered
<1>1. HandlesInv => Registered
  BY DEF HandlesInv
<1> QED BY <1>1, InitHandles, NextKeeps, StayingKeeps, PTL DEF Spec

(* No two descriptors share an array of bindings and none keeps one that was *)
(* freed (descriptor.cc, bind.cc).                                           *)
THEOREM BindingsNeverShared == Spec => []BindingsOwned
<1>1. Init => BindingsOwned
  <2>1. Init => DOMAIN descs = {}
    BY DEF Init
  <2> QED BY <2>1 DEF BindingsOwned
<1>2. HandlesInv /\ BindingsOwned /\ [Next]_vars => HandlesInv' /\ BindingsOwned'
  BY NextKeeps, StayingKeeps, NextBindings, BindingsSame DEF vars
<1> QED BY <1>1, <1>2, InitHandles, PTL DEF Spec

-----------------------------------------------------------------------------
(* Where arrays get lost.  Only row descriptors hold arrays, and explicit    *)
(* descriptors of no type yet.                                               *)
RowHolds(d, r) ==
  /\ HeldBy(r) # None => r.type \in {"ARD", "none"}
  /\ r.type = "none" => d \in Descs
OnlyRowsHold == \A d \in DOMAIN descs : RowHolds(d, descs[d])

LossInv == HandlesInv /\ BindingsOwned /\ OnlyRowsHold

\* what a step does to the array of a descriptor: it stays where it was, is
\* freed, or was that of an untyped descriptor; a new one has a holder
Accounted ==
  /\ heap' \ heap \subseteq {HeldBy(descs'[d]) : d \in DOMAIN descs'}
  /\ \A d \in DOMAIN descs : HeldBy(descs[d]) # None =>
       \/ d \in DOMAIN descs' /\ HeldBy(descs'[d]) = HeldBy(descs[d])
       \/ HeldBy(descs[d]) \notin heap'
       \/ d \in Descs /\ descs[d].type = "none"

LostByUntyped ==
  \A b \in Lost' \ Lost :
    \E d \in DOMAIN descs \cap Descs :
       descs[d].type = "none" /\ descs[d].fields.bindings = b

LEMMA AccountedLoss ==
  ASSUME HandlesInv, heap' \subseteq Blocks, Accounted
  PROVE  LostByUntyped
<1> SUFFICES ASSUME NEW b \in Lost' \ Lost
             PROVE  \E d \in DOMAIN descs \cap Descs :
                      descs[d].type = "none" /\ descs[d].fields.bindings = b
  BY DEF LostByUntyped
<1>1. b \in heap' /\ b # None /\ \A d \in DOMAIN descs' : HeldBy(descs'[d]) # b
  BY HandlesAssumption DEF Lost, HeldBy
<1>2. b \in heap
  BY <1>1 DEF Accounted
<1>3. PICK d \in DOMAIN descs : HeldBy(descs[d]) = b
  BY <1>2 DEF Lost, HeldBy
<1>4. d \in Descs /\ descs[d].type = "none"
  BY <1>1, <1>3 DEF Accounted
<1> QED BY <1>3, <1>4 DEF HeldBy

LEMMA LossNone ==
  ASSUME OnlyRowsHold, UNCHANGED <<descs, heap>>
  PROVE  OnlyRowsHold' /\ Accounted
  BY DEF OnlyRowsHold, RowHolds, HeldBy, Accounted

\* a typed descriptor that goes takes its array with it
LEMMA LossFreed ==
  ASSUME OnlyRowsHold, NEW ds, descs' = Without(descs, ds), ds \subseteq DOMAIN descs,
         heap' = heap \ Freed(ds)
  PROVE  OnlyRowsHold' /\ Accounted
<1>1. DOMAIN descs' = DOMAIN descs \ ds /\ \A d \in DOMAIN descs' : descs'[d] = descs[d]
  BY DEF Without
<1>2. OnlyRowsHold'
  BY <1>1 DEF OnlyRowsHold, RowHolds, HeldBy
<1>3. ASSUME NEW d \in ds, HeldBy(descs[d]) # None
      PROVE  HeldBy(descs[d]) \notin heap' \/ (d \in Descs /\ descs[d].type = "none")
  <2>1. CASE descs[d].type = "ARD"
    <3>1. HeldBy(descs[d]) \in Freed(ds)
      BY <1>3, <2>1 DEF Freed, HeldBy
    <3> QED BY <3>1
  <2>2. CASE descs[d].type = "none"
    BY <2>2 DEF OnlyRowsHold, RowHolds
  <2> QED BY <1>3, <2>1, <2>2 DEF OnlyRowsHold, RowHolds
<1> QED BY <1>1, <1>2, <1>3 DEF Accounted

\* new descriptors hold nothing
LEMMA LossNew ==
  ASSUME OnlyRowsHold, NEW new, DOMAIN descs' = DOMAIN descs \cup new, UNCHANGED heap,
         new \cap DOMAIN descs = {},
         \A d \in DOMAIN descs \ new : descs'[d] = descs[d],
         \A d \in new : RowHolds(d, descs'[d])
  PROVE  OnlyRowsHold' /\ Accounted
  BY DEF OnlyRowsHold, RowHolds, HeldBy, Accounted

\* one descriptor's array is freed and perhaps replaced, or it is untyped
LEMMA LossMoved ==
  ASSUME OnlyRowsHold, NEW x \in DOMAIN descs, NEW r, descs' = [descs EXCEPT ![x] = r],
         RowHolds(x, r), heap' \subseteq heap \cup ({HeldBy(r)} \ {None}),
         \/ HeldBy(descs[x]) = None
         \/ HeldBy(r) = HeldBy(descs[x])
         \/ HeldBy(descs[x]) \notin heap'
         \/ x \in Descs /\ descs[x].type = "none"
  PROVE  OnlyRowsHold' /\ Accounted
<1>1. DOMAIN descs' = DOMAIN descs /\ descs'[x] = r
  OBVIOUS
<1>2. \A d \in DOMAIN descs \ {x} : descs'[d] = descs[d]
  OBVIOUS
<1>3. OnlyRowsHold'
  BY <1>1, <1>2 DEF OnlyRowsHold, RowHolds, HeldBy
<1>4. heap' \ heap \subseteq {HeldBy(descs'[d]) : d \in DOMAIN descs'}
  BY <1>1
<1> QED BY <1>1, <1>2, <1>3, <1>4 DEF Accounted

LEMMA AllocLoss ==
  ASSUME LossInv
  PROVE  /\ \A c \in Conns, a \in Stmts :
              AllocStmt(c, a) => OnlyRowsHold' /\ Accounted
         /\ \A c \in Conns, d \in Descs :
              AllocDesc(c, d) => OnlyRowsHold' /\ Accounted
<1> USE DEF LossInv
<1>1. \A k, c : LET r == EmbeddedDescriptor(k, c) IN HeldBy(r) = None /\ r.type = k
  BY DEF EmbeddedDescriptor, ZeroFields, HeldBy
<1>2. ASSUME NEW c \in Conns, NEW a \in Stmts, AllocStmt(c, a)
      PROVE  OnlyRowsHold' /\ Accounted
  <2> DEFINE f == [InitializeARDFields EXCEPT !.rowset = conns[c].rowset]
             q == [EmbeddedDescriptor("ARD", c) EXCEPT !.fields = f]
  <2>1. HeldBy(q) = None /\ q.type = "ARD"
    BY DEF EmbeddedDescriptor, InitializeARDFields, HeldBy
  <2>2. /\ DOMAIN descs' = DOMAIN descs \cup Implicit(a) /\ UNCHANGED heap
        /\ \A d \in DOMAIN descs \ Implicit(a) : descs'[d] = descs[d]
        /\ \A d \in Implicit(a) : \/ descs'[d] = q
                                  \/ d[2] \in Kinds /\ descs'[d] = EmbeddedDescriptor(d[2], c)
    BY <1>2 DEF AllocStmt, Implicit
  <2> HIDE DEF q
  <2>3. \A d \in Implicit(a) : HeldBy(descs'[d]) = None /\ descs'[d].type # "none"
    BY <1>1, <2>1, <2>2 DEF Kinds
  <2>4. Implicit(a) \cap DOMAIN descs = {}
    <3>1. \A d \in DOMAIN descs \ Descs : \E b \in DOMAIN stmts : d \in Implicit(b)
      BY DEF HandlesInv, Registered, OwnersLive, ImplicitOf
    <3> QED BY <1>2, <3>1, ImplicitApart DEF AllocStmt
  <2> DEFINE new == Implicit(a)
  <2>5. \A d \in new : RowHolds(d, descs'[d])
    BY <2>3 DEF RowHolds
  <2> HIDE DEF new
  <2> QED BY <2>2, <2>4, <2>5, LossNew DEF new
<1>3. ASSUME NEW c \in Conns, NEW d \in Descs, AllocDesc(c, d)
      PROVE  OnlyRowsHold' /\ Accounted
  <2> DEFINE new == {d}
  <2>1. /\ DOMAIN descs' = DOMAIN descs \cup new /\ UNCHANGED heap
        /\ \A x \in DOMAIN descs \ new : descs'[x] = descs[x]
        /\ descs'[d] = EmbeddedDescriptor("none", c)
        /\ new \cap DOMAIN descs = {}
    BY <1>3 DEF AllocDesc, With, Pick
  <2>2. \A x \in new : RowHolds(x, descs'[x])
    BY <1>1, <2>1 DEF RowHolds
  <2> HIDE DEF new
  <2> QED BY <2>1, <2>2, LossNew
<1> QED BY <1>2, <1>3

LEMMA FreeLoss ==
  ASSUME LossInv
  PROVE  /\ \A cs \in SUBSET DOMAIN conns : Cleanup(cs) => OnlyRowsHold' /\ Accounted
         /\ \A a : DropStmt(a) => OnlyRowsHold' /\ Accounted
         /\ \A d : FreeDesc(d) => OnlyRowsHold' /\ Accounted
<1> USE DEF LossInv
<1>0. \A a \in DOMAIN stmts : Implicit(a) \subseteq DOMAIN descs
  BY DEF HandlesInv, Registered, OwnersLive, ImplicitOf
<1>1. ASSUME NEW cs \in SUBSET DOMAIN conns, Cleanup(cs)
      PROVE  OnlyRowsHold' /\ Accounted
  <2> DEFINE ds == DescsOf(cs) \cup UNION {Implicit(a) : a \in StmtsOf(cs)}
  <2>1. descs' = Without(descs, ds) /\ heap' = heap \ Freed(ds)
    BY <1>1 DEF Cleanup
  <2>2. ds \subseteq DOMAIN descs
    BY <1>0 DEF HandlesInv, Registered, OwnersLive, DescsOf, StmtsOf
  <2> HIDE DEF ds
  <2> QED BY <2>1, <2>2, LossFreed
<1>2. ASSUME NEW a, DropStmt(a) PROVE OnlyRowsHold' /\ Accounted
  BY <1>0, <1>2, LossFreed DEF DropStmt
<1>3. ASSUME NEW d, FreeDesc(d) PROVE OnlyRowsHold' /\ Accounted
  <2>1. CASE ~Embedded(d)
    BY <1>3, <2>1, LossFreed DEF FreeDesc
  <2>2. CASE Embedded(d)
    <3> DEFINE f == DestroyedFields(descs[d])
               r == [descs[d] EXCEPT !.fields = f]
    <3>1. /\ d \in DOMAIN descs /\ descs[d] \in Descriptor /\ descs[d].fields \in Fields
          /\ descs' = [descs EXCEPT ![d] = r] /\ heap' = heap \ Freed({d})
      BY <1>3, <2>2 DEF FreeDesc, HandlesInv, TypeOK, Descriptor
    <3>2. r.fields = f /\ r.type = descs[d].type
      BY <3>1 DEF Descriptor
    <3>3. RowHolds(d, descs[d])
      BY <3>1 DEF OnlyRowsHold
    <3>4. CASE descs[d].type = "ARD"
      <4>1. f.bindings = None
        BY <3>1, <3>4, FieldValues DEF DestroyedFields
      <4>2. HeldBy(descs[d]) # None => HeldBy(descs[d]) \notin heap'
        BY <3>1, <3>4 DEF Freed, HeldBy
      <4> HIDE DEF f
      <4>3. RowHolds(d, r)
        BY <3>2, <3>4, <4>1 DEF RowHolds, HeldBy
      <4> HIDE DEF r
      <4> QED BY <3>1, <4>2, <4>3, LossMoved
    <3>5. CASE descs[d].type # "ARD"
      <4>1. f = descs[d].fields /\ heap' = heap
        BY <3>1, <3>5 DEF DestroyedFields, Freed
      <4>2. RowHolds(d, r) /\ HeldBy(r) = HeldBy(descs[d])
        BY <3>2, <3>3, <4>1 DEF RowHolds, HeldBy
      <4> HIDE DEF r
      <4> QED BY <3>1, <4>1, <4>2, LossMoved
    <3> QED BY <3>4, <3>5
  <2> QED BY <2>1, <2>2
<1> QED BY <1>1, <1>2, <1>3

LEMMA BindColLoss ==
  ASSUME LossInv, NEW a, NEW n \in 1..BindMax, BindCol(a, n)
  PROVE  OnlyRowsHold' /\ Accounted
<1> USE DEF LossInv
<1> DEFINE x == stmts[a].ard
<1>1. /\ x \in DOMAIN descs /\ descs[x] \in Descriptor /\ descs[x].fields \in Fields
      /\ descs[x].type \in {"none", "ARD"}
  BY DEF HandlesInv, TypeOK, BindCol, Descriptor
<1>2. CASE UNCHANGED <<descs, heap>>
  BY <1>2, LossNone
<1>3. CASE ~UNCHANGED <<descs, heap>>
  <2>1. PICK b \in FreeBlocks :
          /\ heap' = (heap \ {descs[x].fields.bindings}) \cup {b}
          /\ descs' = [descs EXCEPT ![x].fields.bindings = b, ![x].fields.allocated = n]
    BY <1>3 DEF BindCol
  <2> DEFINE f == [descs[x].fields EXCEPT !.bindings = b, !.allocated = n]
             r == [descs[x] EXCEPT !.fields = f]
  <2>2. descs' = [descs EXCEPT ![x] = r] /\ r.fields = f /\ r.type = descs[x].type
    BY <1>1, <2>1 DEF Descriptor, Fields
  <2>3. f.bindings = b
    BY <1>1, FieldValues
  <2>4. b # None /\ b \in Blocks \ heap
    BY <2>1, HandlesAssumption DEF FreeBlocks
  <2>5. RowHolds(x, descs[x])
    BY <1>1 DEF OnlyRowsHold
  <2>6. HeldBy(descs[x]) # None => HeldBy(descs[x]) \notin heap'
    BY <1>1, <2>1, <2>4 DEF HeldBy, BindingsOwned
  <2> HIDE DEF f
  <2>7. RowHolds(x, r) /\ HeldBy(r) = b
    BY <1>1, <2>2, <2>3, <2>5 DEF RowHolds, HeldBy
  <2>8. heap' \subseteq heap \cup ({HeldBy(r)} \ {None})
    BY <2>1, <2>4, <2>7
  <2> HIDE DEF r, x
  <2> QED BY <1>1, <2>2, <2>6, <2>7, <2>8, LossMoved
<1> QED BY <1>2, <1>3

LEMMA CopyDescLoss ==
  ASSUME LossInv, NEW d, NEW t, CopyDesc(d, t)
  PROVE  OnlyRowsHold' /\ Accounted
<1> USE DEF LossInv
<1> DEFINE src == Pick(d = t, DestroyedFields(descs[d]), descs[d].fields)
           kept == Pick(descs[t].type = "none", {}, Freed({t}))
<1>1. /\ d \in DOMAIN descs /\ t \in DOMAIN descs
      /\ descs[d] \in Descriptor /\ descs[t] \in Descriptor
      /\ descs[d].type \in Kinds
      /\ RowHolds(d, descs[d]) /\ RowHolds(t, descs[t])
  BY DEF HandlesInv, TypeOK, CopyDesc, CannotCopy, Descriptor, OnlyRowsHold
<1>2. src \in Fields
  BY <1>1, DestroyedInFields DEF Pick, Descriptor
<1>3. PICK b \in Pick(src.allocated > 0, FreeBlocks, {None}) :
        /\ heap' = (heap \ kept) \cup ({b} \ {None})
        /\ descs' = [descs EXCEPT ![t].type = descs[d].type, ![t].fields = CopyFields(src, b)]
  BY DEF CopyDesc
<1> DEFINE f == CopyFields(src, b)
           r == [descs[t] EXCEPT !.type = descs[d].type, !.fields = f]
<1>4. descs' = [descs EXCEPT ![t] = r] /\ r.fields = f /\ r.type = descs[d].type
  BY <1>1, <1>3 DEF Descriptor
<1>5. src.allocated \in Nat
  BY <1>2, HandlesAssumption DEF Fields
<1>6. HeldBy(r) = b
  <2>1. CASE src.allocated > 0
    BY <1>2, <1>4, <1>5, <2>1, FieldValues DEF CopyFields, HeldBy
  <2>2. CASE ~(src.allocated > 0)
    BY <1>2, <1>3, <1>4, <1>5, <2>2, FieldValues DEF CopyFields, HeldBy, Pick
  <2> QED BY <2>1, <2>2
<1>7. b # None => src.allocated > 0 /\ b \in Blocks \ heap
  BY <1>3 DEF Pick, FreeBlocks
<1>8. src.allocated > 0 => descs[d].type = "ARD"
  <2> SUFFICES ASSUME src.allocated > 0 PROVE descs[d].type = "ARD"
    OBVIOUS
  <2>1. src = descs[d].fields \/ descs[d].type = "ARD"
    BY DEF Pick, DestroyedFields
  <2>2. descs[d].fields.allocated # 0 => HeldBy(descs[d]) # None
    BY <1>1 DEF BindingsOwned, HeldBy
  <2>3. descs[d].type # "none"
    BY <1>1 DEF Kinds
  <2> QED BY <1>1, <1>5, <2>1, <2>2, <2>3 DEF RowHolds
<1>9. HeldBy(descs[t]) # None /\ descs[t].type # "none" => HeldBy(descs[t]) \notin heap'
  <2> SUFFICES ASSUME HeldBy(descs[t]) # None, descs[t].type # "none"
               PROVE  HeldBy(descs[t]) \notin heap'
    OBVIOUS
  <2>1. descs[t].type = "ARD"
    BY <1>1 DEF RowHolds
  <2>2. HeldBy(descs[t]) \in kept
    BY <2>1 DEF Pick, Freed, HeldBy
  <2>3. HeldBy(descs[t]) \in heap
    BY <1>1 DEF BindingsOwned, HeldBy
  <2> QED BY <1>3, <1>7, <2>2, <2>3
<1>10. descs[t].type = "none" => t \in Descs
  BY <1>1 DEF RowHolds
<1>11. heap' \subseteq heap \cup ({HeldBy(r)} \ {None})
  BY <1>3, <1>6
<1> HIDE DEF f, src
<1>12. RowHolds(t, r)
  BY <1>1, <1>4, <1>6, <1>7, <1>8 DEF RowHolds, Kinds
<1> HIDE DEF r
<1> QED BY <1>1, <1>4, <1>9, <1>10, <1>11, <1>12, LossMoved

LEMMA NextLoss ==
  ASSUME LossInv, Next
  PROVE  OnlyRowsHold' /\ Accounted
<1> USE DEF LossInv
<1>1. CASE SQLAllocHandle
  BY <1>1, AllocLoss, LossNone
     DEF SQLAllocHandle, AllocEnv, AllocConnect, AllocConnectFull, vars
<1>2. CASE SQLFreeHandle
  <2>1. ASSUME NEW e, FreeEnv(e) PROVE OnlyRowsHold' /\ Accounted
    BY <2>1, FreeLoss DEF FreeEnv
  <2>2. ASSUME NEW c, FreeConnect(c) PROVE OnlyRowsHold' /\ Accounted
    BY <2>2, FreeLoss DEF FreeConnect
  <2> QED BY <1>2, <2>1, <2>2, FreeLoss DEF SQLFreeHandle
<1>3. CASE SQLCopyDesc
  BY <1>3, CopyDescLoss, LossNone DEF SQLCopyDesc, CopyDescFails, vars
<1>4. CASE SQLDisconnect
  <2>1. ASSUME NEW c, Disconnect(c) PROVE OnlyRowsHold' /\ Accounted
    BY <2>1, FreeLoss DEF Disconnect
  <2> QED BY <1>4, <2>1 DEF SQLDisconnect
<1>5. CASE SQLBrowseConnect \/ SQLEndTran \/ SQLSetConnectAttr \/ SQLSetStmtAttr
  BY <1>5, LossNone
     DEF SQLBrowseConnect, SQLEndTran, SQLSetConnectAttr, SQLSetStmtAttr, BrowseConnect,
         Transact, SetIsolation, Refused, SetConnectCursor, SetConnectRowset, SetRowDesc, vars
<1>6. CASE SQLBindCol
  BY <1>6, BindColLoss DEF SQLBindCol
<1> QED BY <1>1, <1>2, <1>3, <1>4, <1>5, <1>6 DEF Next

(* The memory of bindings is lost in one way only, that of an explicit       *)
(* descriptor a statement bound columns in before anything was copied into   *)
(* it: DC_Destructor does not know its type and frees nothing                *)
(* (descriptor.cc), and every other way of freeing or overwriting a          *)
(* descriptor frees its array first.                                         *)
THEOREM LossIsNamed == Spec => LostOnlyUntyped
<1>1. Init => LossInv
  <2>1. Init => DOMAIN descs = {}
    BY DEF Init
  <2> QED BY <2>1, InitHandles DEF LossInv, BindingsOwned, OnlyRowsHold
<1>2. LossInv /\ [Next]_vars => LossInv'
  BY NextKeeps, StayingKeeps, NextBindings, BindingsSame, NextLoss, LossNone DEF LossInv, vars
<1>3. LossInv /\ [Next]_vars => [LostByUntyped]_vars
  <2> SUFFICES ASSUME LossInv, Next PROVE LostByUntyped
    BY DEF vars
  <2>1. heap' \subseteq Blocks
    BY NextKeeps DEF LossInv, HandlesInv, TypeOK
  <2> QED BY <2>1, NextLoss, AccountedLoss DEF LossInv
<1>4. Spec => [][LostByUntyped]_vars
  BY <1>1, <1>2, <1>3, PTL DEF Spec
<1> QED BY <1>4 DEF LostOnlyUntyped, LostByUntyped

-----------------------------------------------------------------------------
(* Numbers.                                                                  *)

\* every set of numbers with a member has a least one
LEMMA LeastNat ==
  ASSUME NEW T, T \subseteq Nat, T # {}
  PROVE  \E x \in T : \A y \in T : x <= y
<1> DEFINE R == OpToRel(<, Nat)
<1>1. IsWellFoundedOn(R, Nat)
  BY NatLessThanWellFounded
<1>2. \A x, y \in Nat : x < y => <<x, y>> \in R
  BY DEF OpToRel
<1> HIDE DEF R
<1>3. \E x \in T : \A y \in T : ~(<<y, x>> \in R)
  BY <1>1, WFMin
<1>4. PICK x \in T : \A y \in T : ~(<<y, x>> \in R)
  BY <1>3
<1>5. ASSUME NEW y \in T PROVE x <= y
  <2>1. x \in Nat /\ y \in Nat /\ ~(y < x)
    BY <1>2, <1>4
  <2>2. QED BY <2>1
<1>6. QED BY <1>5

\* a set that holds zero and the successor of its members up to n holds them all
LEMMA UpTo ==
  ASSUME NEW n \in Nat, NEW S, 0 \in S, \A i \in 0..(n - 1) : i \in S => i + 1 \in S
  PROVE  0..n \subseteq S
<1> DEFINE T == {i \in 0..n : i \notin S}
<1>1. SUFFICES ASSUME T # {} PROVE FALSE
  OBVIOUS
<1>2. PICK x \in T : \A y \in T : x <= y
  <2>1. T \subseteq Nat
    OBVIOUS
  <2> HIDE DEF T
  <2>2. QED BY <1>1, <2>1, LeastNat
<1>3. x \in 1..n /\ x - 1 \in 0..(n - 1) /\ x - 1 \in 0..n /\ x - 1 + 1 = x /\ ~(x <= x - 1)
  BY <1>2
<1>4. x - 1 \in S
  BY <1>2, <1>3
<1>5. QED BY <1>2, <1>3, <1>4

-----------------------------------------------------------------------------
(* Texts that are made piece by piece, from their beginning or from their    *)
(* end: a recursion over positions has a solution, and it is a text.         *)

Appended(n, p, f) == f = [i \in 0..n |-> IF i = 0 THEN <<>> ELSE f[i - 1] \o p[i]]

LEMMA AppendedSolved ==
  ASSUME NEW size \in Nat, NEW p
  PROVE  \E f : Appended(size, p, f)
<1> DEFINE S == {n \in Nat : \E f : Appended(n, p, f)}
<1>1. 0 \in S
  <2> DEFINE f == [i \in 0..0 |-> <<>>]
  <2>1. Appended(0, p, f)
    BY DEF Appended
  <2>2. QED BY <2>1
<1>2. ASSUME NEW n \in 0..(size - 1), n \in S PROVE n + 1 \in S
  <2>1. PICK f : Appended(n, p, f)
    BY <1>2
  <2> DEFINE g == [i \in 0..(n + 1) |-> IF i <= n THEN f[i] ELSE f[n] \o p[n + 1]]
  <2>2. \A i \in 0..n : g[i] = f[i]
    OBVIOUS
  <2>3. ASSUME NEW i \in 0..(n + 1)
        PROVE  g[i] = IF i = 0 THEN <<>> ELSE g[i - 1] \o p[i]
    <3>1. CASE i = 0
      BY <2>1, <3>1 DEF Appended
    <3>2. CASE i \in 1..n
      <4>1. g[i] = f[i] /\ g[i - 1] = f[i - 1] /\ i # 0 /\ i \in 0..n
        BY <2>2, <3>2
      <4>2. f[i] = f[i - 1] \o p[i]
        BY <2>1, <4>1 DEF Appended
      <4>3. QED BY <4>1, <4>2
    <3>3. CASE i = n + 1
      BY <2>2, <3>3
    <3>4. QED BY <3>1, <3>2, <3>3
  <2>4. g = [i \in 0..(n + 1) |-> g[i]]
    OBVIOUS
  <2> HIDE DEF g
  <2>5. Appended(n + 1, p, g)
    BY <2>3, <2>4 DEF Appended
  <2>6. QED BY <2>5
<1>3. 0..size \subseteq S
  <2> HIDE DEF S
  <2>1. QED BY <1>1, <1>2, UpTo
<1>4. QED BY <1>3

LEMMA AppendedAt ==
  ASSUME NEW n \in Nat, NEW p, NEW f, Appended(n, p, f)
  PROVE  f[0] = <<>> /\ \A i \in 1..n : f[i] = f[i - 1] \o p[i]
<1>1. ASSUME NEW i \in 0..n PROVE f[i] = IF i = 0 THEN <<>> ELSE f[i - 1] \o p[i]
  BY Zenon DEF Appended
<1>2. 0 \in 0..n /\ \A i \in 1..n : i \in 0..n /\ i # 0
  OBVIOUS
<1>3. QED BY <1>1, <1>2, Zenon

LEMMA AppendedIsSeq ==
  ASSUME NEW X, NEW n \in Nat, NEW p, \A i \in 1..n : p[i] \in Seq(X), NEW f, Appended(n, p, f)
  PROVE  \A i \in 0..n : f[i] \in Seq(X)
<1> DEFINE S == {i \in 0..n : f[i] \in Seq(X)}
<1>0. f[0] = <<>> /\ \A i \in 1..n : f[i] = f[i - 1] \o p[i]
  BY AppendedAt, Zenon
<1>1. 0 \in S
  <2>1. 0 \in 0..n /\ <<>> \in Seq(X)
    OBVIOUS
  <2>2. QED BY <1>0, <2>1, Zenon
<1>2. ASSUME NEW i \in 0..(n - 1), i \in S PROVE i + 1 \in S
  <2>1. i + 1 \in 1..n /\ i + 1 - 1 = i /\ i + 1 \in 0..n
    OBVIOUS
  <2>2. f[i + 1] = f[i] \o p[i + 1]
    <3>1. PICK j \in 1..n : j = i + 1 /\ j - 1 = i
      BY <2>1
    <3>2. f[j] = f[j - 1] \o p[j]
      BY <1>0, <3>1, Zenon
    <3>3. QED BY <3>1, <3>2, Zenon
  <2>3. f[i] \in Seq(X) /\ p[i + 1] \in Seq(X)
    BY <1>2, <2>1
  <2>4. f[i] \o p[i + 1] \in Seq(X)
    BY <2>3, ConcatProperties
  <2>5. QED BY <2>1, <2>2, <2>4, Zenon
<1> HIDE DEF S
<1>3. 0..n \subseteq S
  BY <1>1, <1>2, UpTo
<1>4. QED BY <1>3 DEF S

-----------------------------------------------------------------------------
(* Texts that are joined of texts.                                           *)

AgreeUpTo(n, p, q) == \A i \in 1..n : p[i] = q[i]

AgreeFrom0(n, f, g) == \A i \in 0..n : f[i] = g[i]

LEMMA AppendedSame ==
  ASSUME NEW p, NEW q, NEW f, NEW g, NEW n \in Nat, NEW m \in Nat, n <= m,
         AgreeUpTo(n, p, q), Appended(n, p, f), Appended(m, q, g)
  PROVE  AgreeFrom0(n, f, g)
<1>0. \A i \in 1..n : p[i] = q[i]
  BY DEF AgreeUpTo
<1> DEFINE S == {i \in 0..n : f[i] = g[i]}
<1>1. f[0] = <<>> /\ \A i \in 1..n : f[i] = f[i - 1] \o p[i]
  BY AppendedAt, Zenon
<1>2. g[0] = <<>> /\ \A i \in 1..m : g[i] = g[i - 1] \o q[i]
  BY AppendedAt, Zenon
<1>3. 0 \in S
  BY <1>1, <1>2
<1>4. ASSUME NEW i \in 0..(n - 1), i \in S PROVE i + 1 \in S
  <2>1. i + 1 \in 1..n /\ i + 1 \in 1..m /\ i + 1 \in 0..n /\ i + 1 - 1 = i
    OBVIOUS
  <2>2. PICK j \in 1..n : j = i + 1 /\ j - 1 = i
    BY <2>1
  <2>3. f[j] = f[j - 1] \o p[j] /\ g[j] = g[j - 1] \o q[j] /\ p[j] = q[j] /\ f[i] = g[i]
    BY <1>0, <1>1, <1>2, <1>4, <2>1, <2>2, Zenon
  <2>4. QED BY <2>1, <2>2, <2>3, Zenon
<1>5. 0..n \subseteq S
  <2> HIDE DEF S
  <2>1. QED BY <1>3, <1>4, UpTo
<1>6. QED BY <1>5 DEF AgreeFrom0

Flattening(ss) ==
  CHOOSE flatten : flatten = [i \in 1..Len(ss) |-> IF i = 1 THEN ss[i] ELSE flatten[i-1] \o ss[i]]
LEMMA FlattenDefined ==
  ASSUME NEW ss
  PROVE  FlattenSeq(ss) = IF Len(ss) = 0 THEN ss ELSE Flattening(ss)[Len(ss)]
  BY DEF FlattenSeq, Flattening

LEMMA FlattenAt ==
  ASSUME NEW X, NEW ss \in Seq(Seq(X))
  PROVE  \E f : Appended(Len(ss), ss, f) /\ FlattenSeq(ss) = f[Len(ss)]
<1>1. PICK n \in Nat : n = Len(ss)
  OBVIOUS
<1>2. PICK h : Appended(n, ss, h)
  BY AppendedSolved, Zenon
<1>3. h[0] = <<>> /\ \A i \in 1..n : h[i] = h[i - 1] \o ss[i]
  BY <1>2, AppendedAt, Zenon
<1>4. \A i \in 1..n : ss[i] \in Seq(X)
  BY <1>1
<1>5. \A i \in 0..n : h[i] \in Seq(X)
  BY <1>2, <1>4, AppendedIsSeq, Zenon
<1>6. CASE n = 0
  <2>1. FlattenSeq(ss) = <<>>
    <3>1. ss = <<>> /\ Len(ss) = 0
      BY <1>1, <1>6, EmptySeq
    <3>2. QED BY <3>1, FlattenDefined, Zenon
  <2>2. QED BY <1>1, <1>2, <1>3, <1>6, <2>1
<1>7. CASE n # 0
  <2> DEFINE Solves(f) == f = [i \in 1..n |-> IF i = 1 THEN ss[i] ELSE f[i - 1] \o ss[i]]
             g == [i \in 1..n |-> h[i]]
             G == Flattening(ss)
             k == [i \in 0..n |-> IF i = 0 THEN <<>> ELSE G[i]]
  <2>1. Solves(g)
    <3>1. ASSUME NEW i \in 1..n
          PROVE  g[i] = IF i = 1 THEN ss[i] ELSE g[i - 1] \o ss[i]
      <4>1. CASE i = 1
        <5>1. h[1] = <<>> \o ss[1] /\ ss[1] \in Seq(X)
          <6>1. 1 \in 1..n /\ 1 - 1 = 0
            BY <1>7
          <6>2. h[1] = h[1 - 1] \o ss[1]
            BY <1>3, <6>1, Zenon
          <6>3. QED BY <1>3, <1>4, <6>1, <6>2, Zenon
        <5>2. <<>> \o ss[1] = ss[1]
          BY <5>1, ConcatEmptySeq, Zenon
        <5>3. QED BY <4>1, <5>1, <5>2
      <4>2. CASE i # 1
        <5>1. i - 1 \in 1..n
          BY <4>2
        <5>2. QED BY <1>3, <4>2, <5>1
      <4>3. QED BY <4>1, <4>2
    <3>2. QED BY <3>1
  <2>2. Solves(G)
    <3> HIDE DEF g
    <3>1. G = CHOOSE f : Solves(f)
      BY <1>1 DEF Flattening
    <3> HIDE DEF Solves, G
    <3>2. QED BY <2>1, <3>1
  <2> HIDE DEF G
  <2>3. ASSUME NEW i \in 1..n PROVE G[i] = IF i = 1 THEN ss[i] ELSE G[i - 1] \o ss[i]
    BY <2>2, Zenon
  <2>4. ASSUME NEW i \in 0..n PROVE k[i] = IF i = 0 THEN <<>> ELSE k[i - 1] \o ss[i]
    <3>1. CASE i = 0
      BY <3>1
    <3>2. CASE i = 1
      <4>1. k[1] = ss[1] /\ k[0] = <<>> /\ ss[1] \in Seq(X)
        BY <1>4, <2>3, <3>2
      <4>2. <<>> \o ss[1] = ss[1]
        BY <4>1, ConcatEmptySeq, Zenon
      <4>3. QED BY <3>2, <4>1, <4>2
    <3>3. CASE i # 0 /\ i # 1
      <4>1. i \in 1..n /\ i - 1 \in 1..n
        BY <3>3
      <4>2. k[i] = G[i] /\ k[i - 1] = G[i - 1]
        BY <4>1
      <4>3. QED BY <2>3, <3>3, <4>1, <4>2
    <3>4. QED BY <3>1, <3>2, <3>3
  <2>5. k = [i \in 0..n |-> k[i]]
    OBVIOUS
  <2>6. k[n] = G[n] /\ FlattenSeq(ss) = G[n]
    BY <1>1, <1>7, FlattenDefined DEF G
  <2> HIDE DEF k
  <2>7. Appended(n, ss, k)
    BY <2>4, <2>5 DEF Appended
  <2>8. QED BY <1>1, <2>6, <2>7
<1>8. QED BY <1>6, <1>7

LEMMA FlattenEmpty == FlattenSeq(<<>>) = <<>>
  BY FlattenDefined

LEMMA FlattenIsSeq ==
  ASSUME NEW X, NEW ss \in Seq(Seq(X))
  PROVE  FlattenSeq(ss) \in Seq(X)
<1>1. PICK n \in Nat : n = Len(ss)
  OBVIOUS
<1>2. PICK f : Appended(n, ss, f) /\ FlattenSeq(ss) = f[n]
  BY <1>1, FlattenAt
<1>3. \A i \in 1..n : ss[i] \in Seq(X)
  BY <1>1
<1>4. \A i \in 0..n : f[i] \in Seq(X)
  BY <1>2, <1>3, AppendedIsSeq, Zenon
<1>5. QED BY <1>2, <1>4

\* the last of the texts joined comes last
LEMMA FlattenMore ==
  ASSUME NEW X, NEW ss \in Seq(Seq(X)), NEW tt \in Seq(Seq(X)), Len(tt) = Len(ss) + 1,
         \A i \in 1..Len(ss) : tt[i] = ss[i]
  PROVE  FlattenSeq(tt) = FlattenSeq(ss) \o tt[Len(tt)]
<1>1. PICK n \in Nat, m \in Nat : n = Len(ss) /\ m = Len(tt) /\ n <= m /\ m - 1 = n
  OBVIOUS
<1>2. PICK f : Appended(n, ss, f) /\ FlattenSeq(ss) = f[n]
  BY <1>1, FlattenAt
<1>3. PICK g : Appended(m, tt, g) /\ FlattenSeq(tt) = g[m]
  BY <1>1, FlattenAt
<1>4. g[0] = <<>> /\ \A i \in 1..m : g[i] = g[i - 1] \o tt[i]
  BY <1>3, AppendedAt, Zenon
<1>5. \A i \in 0..n : f[i] = g[i]
  <2>1. AgreeUpTo(n, ss, tt)
    BY <1>1 DEF AgreeUpTo
  <2>2. n <= m
    BY <1>1
  <2>3. Appended(n, ss, f) /\ Appended(m, tt, g)
    BY <1>2, <1>3
  <2>4. AgreeFrom0(n, f, g)
    BY <1>1, <2>1, <2>2, <2>3, AppendedSame, Zenon
  <2>5. QED BY <2>4 DEF AgreeFrom0
<1>6. g[m] = g[n] \o tt[m] /\ f[n] = g[n]
  <2>1. m \in 1..m /\ n \in 0..n
    BY <1>1
  <2>2. g[m] = g[m - 1] \o tt[m]
    BY <1>4, <2>1, Zenon
  <2>3. QED BY <1>1, <1>5, <2>1, <2>2, Zenon
<1>7. QED BY <1>1, <1>2, <1>3, <1>6, Zenon

-----------------------------------------------------------------------------
(* Texts of letters: what is put in place of one of them.                    *)

\* letters: strings (which the provers do not know the literals to be)
Letter == STRING \cup {Apos, Quote, NewLine, Comma}
Text == Seq(Letter)
Value == Text \cup {NULL}
NoText == NULL \notin Text

LEMMA MarksAre ==
  /\ Quote \in Letter /\ Comma \in Letter /\ NewLine \in Letter /\ Apos \in Letter
  /\ Quote # Comma /\ Quote # NewLine /\ Comma # NewLine /\ Quote # " "
  /\ Apos # Quote /\ Apos # Comma /\ Apos # NewLine
<1>1. Quote \in Letter /\ Comma \in Letter /\ NewLine \in Letter /\ Apos \in Letter
  BY DEF Letter
<1>2. /\ Quote # Comma /\ Quote # NewLine /\ Comma # NewLine /\ Quote # " "
      /\ Apos # Quote /\ Apos # Comma /\ Apos # NewLine
  BY Zenon DEF Quote, Comma, NewLine, Apos
<1>3. QED BY <1>1, <1>2

LEMMA OneOf ==
  ASSUME NEW X, NEW c \in X PROVE <<c>> \in Seq(X) /\ Len(<<c>>) = 1 /\ <<c>>[1] = c
  OBVIOUS
LEMMA TwoOf ==
  ASSUME NEW X, NEW c \in X, NEW d \in X
  PROVE  <<c, d>> \in Seq(X) /\ Len(<<c, d>>) = 2 /\ <<c, d>>[1] = c /\ <<c, d>>[2] = d
         /\ <<c>> \o <<d>> = <<c, d>>
<1>1. <<c, d>> \in Seq(X) /\ Len(<<c, d>>) = 2 /\ <<c, d>>[1] = c /\ <<c, d>>[2] = d
  OBVIOUS
<1>2. /\ <<c>> \o <<d>> \in Seq(X) /\ Len(<<c>> \o <<d>>) = 2
      /\ (<<c>> \o <<d>>)[1] = c /\ (<<c>> \o <<d>>)[2] = d
  OBVIOUS
<1>3. <<c>> \o <<d>> = <<c, d>>
  <2>1. \A i \in 1..2 : i = 1 \/ i = 2
    OBVIOUS
  <2>2. \A i \in 1..2 : (<<c>> \o <<d>>)[i] = <<c, d>>[i]
    BY <1>1, <1>2, <2>1, Zenon
  <2> DEFINE a == <<c>> \o <<d>>
             b == <<c, d>>
  <2> HIDE DEF a, b
  <2>3. a \in Seq(X) /\ b \in Seq(X) /\ Len(a) = 2 /\ Len(b) = 2 /\ \A i \in 1..2 : a[i] = b[i]
    BY <1>1, <1>2, <2>2, Zenon DEF a, b
  <2>4. a = b
    BY <2>3, SeqEqual
  <2>5. QED BY <2>4 DEF a, b
<1>4. QED BY <1>1, <1>3

LEMMA ReplacedNone == ASSUME NEW c, NEW by PROVE Replaced(<<>>, c, by) = <<>>
<1> DEFINE ss == [i \in 1..Len(<<>>) |-> IF <<>>[i] = c THEN by ELSE << <<>>[i] >>]
<1>1. ss = <<>>
  OBVIOUS
<1> HIDE DEF ss
<1>2. QED BY <1>1, FlattenEmpty DEF Replaced, ss

\* what each letter of a text is replaced with
ByLetter(text, c, by) == [i \in 1..Len(text) |-> IF text[i] = c THEN by ELSE <<text[i]>>]

LEMMA ReplacedLetters ==
  ASSUME NEW text \in Text, NEW c, NEW by \in Text
  PROVE  /\ ByLetter(text, c, by) \in Seq(Text) /\ Len(ByLetter(text, c, by)) = Len(text)
         /\ Replaced(text, c, by) \in Text
<1> DEFINE ss == [i \in 1..Len(text) |-> IF text[i] = c THEN by ELSE <<text[i]>>]
<1>1. ASSUME NEW i \in 1..Len(text) PROVE ss[i] \in Text
  BY DEF Text
<1>2. Len(text) \in Nat
  BY DEF Text
<1>3. ss \in [1..Len(text) -> Text]
  BY <1>1
<1>4. ss \in Seq(Text) /\ Len(ss) = Len(text)
  <2> HIDE DEF ss
  <2>1. QED BY <1>2, <1>3
<1> HIDE DEF ss
<1>5. FlattenSeq(ss) \in Text
  BY <1>4, FlattenIsSeq DEF Text
<1>6. QED BY <1>4, <1>5, Zenon DEF Replaced, ByLetter, ss

LEMMA ReplacedMore ==
  ASSUME NEW text \in Text, NEW c, NEW by \in Text, NEW d \in Letter
  PROVE  Replaced(text \o <<d>>, c, by)
           = Replaced(text, c, by) \o (IF d = c THEN by ELSE <<d>>)
<1> DEFINE more == text \o <<d>>
           ss == ByLetter(text, c, by)
           tt == ByLetter(more, c, by)
<1>1. PICK n \in Nat : n = Len(text)
  BY DEF Text
<1>2. more \in Text /\ Len(more) = n + 1 /\ more[n + 1] = d /\ \A i \in 1..n : more[i] = text[i]
  BY <1>1 DEF Text
<1> HIDE DEF more
<1>3. ss \in Seq(Text) /\ Len(ss) = n
  BY <1>1, ReplacedLetters, Zenon
<1>4. tt \in Seq(Text) /\ Len(tt) = n + 1
  BY <1>2, ReplacedLetters, Zenon
<1>5. \A i \in 1..n : tt[i] = ss[i]
  BY <1>1, <1>2 DEF ByLetter
<1>6. tt[n + 1] = IF d = c THEN by ELSE <<d>>
  BY <1>2 DEF ByLetter
<1> HIDE DEF ss, tt
<1>7. FlattenSeq(tt) = FlattenSeq(ss) \o tt[Len(tt)]
  BY <1>3, <1>4, <1>5, FlattenMore DEF Text
<1>8. FlattenSeq(tt) = FlattenSeq(ss) \o (IF d = c THEN by ELSE <<d>>)
  BY <1>4, <1>6, <1>7, Zenon
<1>9. Replaced(more, c, by) = FlattenSeq(tt) /\ Replaced(text, c, by) = FlattenSeq(ss)
  BY Zenon DEF Replaced, ByLetter, ss, tt
<1>10. QED BY <1>8, <1>9, Zenon DEF more

\* what holds of no text and of a text with one more letter holds of all
LEMMA EveryText ==
  ASSUME NEW S, <<>> \in S, \A text \in Text, d \in Letter : text \in S => text \o <<d>> \in S
  PROVE  Text \subseteq S
<1> SUFFICES ASSUME NEW text \in Text PROVE text \in S
  OBVIOUS
<1>1. PICK n \in Nat : n = Len(text)
  BY DEF Text
<1> DEFINE T == {k \in 0..n : SubSeq(text, 1, k) \in S}
<1>2. 0 \in T
  <2>1. SubSeq(text, 1, 0) = <<>>
    <3>1. 1 \in Int /\ 0 \in Int /\ 0 < 1
      OBVIOUS
    <3>2. QED BY <3>1, SubSeqEmpty
  <2>2. 0 \in 0..n
    BY <1>1
  <2>3. QED BY <2>1, <2>2, Zenon
<1>3. ASSUME NEW k \in 0..(n - 1), k \in T PROVE k + 1 \in T
  <2>1. k + 1 \in 1..Len(text) /\ 1 \in 1..Len(text) /\ k + 1 - 1 = k
    BY <1>1
  <2>2. SubSeq(text, 1, k + 1) = SubSeq(text, 1, k) \o <<text[k + 1]>>
    BY <2>1, SubSeqRecursiveSecond DEF Text
  <2>3. SubSeq(text, 1, k) \in Text /\ text[k + 1] \in Letter
    BY <1>1, <2>1 DEF Text
  <2>4. SubSeq(text, 1, k + 1) \in S
    BY <1>3, <2>2, <2>3
  <2>5. QED BY <1>1, <2>1, <2>4
<1>4. 0..n \subseteq T
  <2> HIDE DEF T
  <2>1. QED BY <1>2, <1>3, UpTo
<1>5. SubSeq(text, 1, n) \in S
  BY <1>4
<1>6. QED BY <1>1, <1>5, SubSeqFull DEF Text


-----------------------------------------------------------------------------
(* Quotation marks at the end of a text, and pairs of them.                  *)

LEMMA LetterAdded ==
  ASSUME NEW text \in Text, NEW d \in Letter
  PROVE  /\ text \o <<d>> \in Text /\ Len(text \o <<d>>) = Len(text) + 1
         /\ (text \o <<d>>)[Len(text) + 1] = d
         /\ \A i \in 1..Len(text) : (text \o <<d>>)[i] = text[i]
         /\ \A i \in 1..Len(text) : SubSeq(text \o <<d>>, 1, i) = SubSeq(text, 1, i)
         /\ SubSeq(text \o <<d>>, 1, Len(text) + 1) = text \o <<d>>
<1>1. text \in Seq(Letter) /\ <<d>> \in Seq(Letter) /\ Len(<<d>>) = 1 /\ Len(text) \in Nat
  BY OneOf DEF Text
<1>2. text \o <<d>> \in Seq(Letter) /\ Len(text \o <<d>>) = Len(text) + 1
  BY <1>1, ConcatProperties
<1>3. /\ (text \o <<d>>)[Len(text) + 1] = d
      /\ \A i \in 1..Len(text) : (text \o <<d>>)[i] = text[i]
  BY <1>1
<1>4. ASSUME NEW i \in 1..Len(text) PROVE SubSeq(text \o <<d>>, 1, i) = SubSeq(text, 1, i)
  <2>1. 1 \in 1..Len(text)
    BY <1>1
  <2>2. QED BY <1>1, <2>1, SubSeqOfConcat1, Zenon
<1>5. SubSeq(text \o <<d>>, 1, Len(text) + 1) = text \o <<d>>
  BY <1>2, SubSeqFull
<1>6. QED BY <1>2, <1>3, <1>4, <1>5 DEF Text

\* the last letter that is no quotation mark stands at k
EndsAt(text, k) ==
  /\ k \in 0..Len(text)
  /\ k # 0 => text[k] # Quote
  /\ \A i \in (k + 1)..Len(text) : text[i] = Quote

LEMMA QuotesAre ==
  ASSUME NEW text \in Text, NEW k, EndsAt(text, k)
  PROVE  QuotesAtEnd(text) = Len(text) - k
<1> DEFINE I == {i \in 1..Len(text) : text[i] # Quote}
<1>1. Len(text) \in Nat
  BY DEF Text
<1>2. QuotesAtEnd(text) = Len(text) - IF I # {} THEN Max(I) ELSE 0
  BY DEF QuotesAtEnd, SelectLastInSeq
<1>3. CASE k = 0
  <2>1. I = {}
    BY <1>1, <1>3 DEF EndsAt
  <2>2. QED BY <1>2, <1>3, <2>1
<1>4. CASE k # 0
  <2>1. k \in I /\ \A i \in I : k >= i
    BY <1>1, <1>4 DEF EndsAt
  <2>2. \A x \in I : x \in Nat
    OBVIOUS
  <2> HIDE DEF I
  <2>3. PICK x \in I : (\A y \in I : x >= y) /\ Max(I) = x
    BY <2>1 DEF Max
  <2>4. x = k
    BY <2>1, <2>2, <2>3
  <2>5. QED BY <1>2, <2>1, <2>3, <2>4
<1>5. QED BY <1>3, <1>4

LEMMA EndsMore ==
  ASSUME NEW text \in Text, NEW d \in Letter, NEW k, EndsAt(text, k)
  PROVE  EndsAt(text \o <<d>>, IF d = Quote THEN k ELSE Len(text) + 1)
<1> DEFINE more == text \o <<d>>
<1>1. Len(text) \in Nat
  BY DEF Text
<1>2. Len(more) = Len(text) + 1 /\ more[Len(text) + 1] = d /\ \A i \in 1..Len(text) : more[i] = text[i]
  BY LetterAdded
<1> HIDE DEF more
<1>3. EndsAt(more, IF d = Quote THEN k ELSE Len(text) + 1)
  BY <1>1, <1>2 DEF EndsAt
<1>4. QED BY <1>3 DEF more

LEMMA EndsSomewhere ==
  ASSUME NEW text \in Text PROVE \E k : EndsAt(text, k)
<1> DEFINE S == {t \in Text : \E k : EndsAt(t, k)}
<1>1. <<>> \in S
  <2>1. <<>> \in Text
    BY DEF Text
  <2>2. EndsAt(<<>>, 0)
    BY DEF EndsAt
  <2>3. QED BY <2>1, <2>2
<1>2. ASSUME NEW t \in Text, NEW d \in Letter, t \in S PROVE t \o <<d>> \in S
  BY <1>2, EndsMore, LetterAdded
<1> HIDE DEF S
<1>3. Text \subseteq S
  BY <1>1, <1>2, EveryText, Zenon
<1>4. QED BY <1>3 DEF S

LEMMA QuotesMore ==
  ASSUME NEW text \in Text, NEW d \in Letter
  PROVE  /\ QuotesAtEnd(text \o <<d>>) = IF d = Quote THEN QuotesAtEnd(text) + 1 ELSE 0
         /\ QuotesAtEnd(text) \in Nat
<1>1. PICK k : EndsAt(text, k)
  BY EndsSomewhere
<1>2. EndsAt(text \o <<d>>, IF d = Quote THEN k ELSE Len(text) + 1)
  BY <1>1, EndsMore
<1>3. Len(text) \in Nat /\ text \o <<d>> \in Text /\ Len(text \o <<d>>) = Len(text) + 1
  BY LetterAdded DEF Text
<1>4. QuotesAtEnd(text) = Len(text) - k /\ k \in 0..Len(text)
  BY <1>1, QuotesAre DEF EndsAt
<1>5. QuotesAtEnd(text \o <<d>>) = Len(text) + 1 - (IF d = Quote THEN k ELSE Len(text) + 1)
  <2> DEFINE more == text \o <<d>>
             j == IF d = Quote THEN k ELSE Len(text) + 1
  <2>1. more \in Text /\ EndsAt(more, j) /\ Len(more) = Len(text) + 1
    BY <1>2, <1>3
  <2> HIDE DEF more, j
  <2>2. QuotesAtEnd(more) = Len(text) + 1 - j
    <3>1. QuotesAtEnd(more) = Len(more) - j
      BY <2>1, QuotesAre, Zenon
    <3>2. j \in 0..Len(more)
      BY <2>1 DEF EndsAt
    <3>3. QED BY <1>3, <2>1, <3>1, <3>2
  <2>3. QED BY <2>2, Zenon DEF more, j
<1>6. QED BY <1>3, <1>4, <1>5

LEMMA NoQuotes == QuotesAtEnd(<<>>) = 0
<1>1. <<>> \in Text /\ Len(<<>>) = 0
  BY DEF Text
<1>2. EndsAt(<<>>, 0)
  BY DEF EndsAt
<1>3. QuotesAtEnd(<<>>) = Len(<<>>) - 0
  BY <1>1, <1>2, QuotesAre
<1>4. QED BY <1>1, <1>3

\* what a letter of a text becomes when pairs of quotation marks are read
ReadAs(text, i) == IF text[i] = Quote /\ QuotesAtEnd(SubSeq(text, 1, i)) % 2 = 0 THEN <<>> ELSE <<text[i]>>

LEMMA UnescapedIs ==
  ASSUME NEW text \in Text
  PROVE  /\ [i \in 1..Len(text) |-> ReadAs(text, i)] \in Seq(Text)
         /\ Len([i \in 1..Len(text) |-> ReadAs(text, i)]) = Len(text)
         /\ Unescaped(text) = FlattenSeq([i \in 1..Len(text) |-> ReadAs(text, i)])
         /\ Unescaped(text) \in Text
<1> DEFINE ss == [i \in 1..Len(text) |-> ReadAs(text, i)]
<1>1. ASSUME NEW i \in 1..Len(text) PROVE ReadAs(text, i) \in Text
  BY DEF Text, ReadAs
<1>2. Len(text) \in Nat
  BY DEF Text
<1>3. ss \in Seq(Text) /\ Len(ss) = Len(text)
  <2>1. ss \in [1..Len(text) -> Text]
    BY <1>1
  <2> HIDE DEF ss
  <2>2. QED BY <1>2, <2>1
<1>4. Unescaped(text) = FlattenSeq(ss)
  BY DEF Unescaped, ReadAs
<1> HIDE DEF ss
<1>5. FlattenSeq(ss) \in Text
  BY <1>3, FlattenIsSeq DEF Text
<1>6. QED BY <1>3, <1>4, <1>5 DEF ss

LEMMA UnescapedMore ==
  ASSUME NEW text \in Text, NEW d \in Letter
  PROVE  Unescaped(text \o <<d>>) =
           Unescaped(text) \o (IF d = Quote /\ QuotesAtEnd(text \o <<d>>) % 2 = 0 THEN <<>> ELSE <<d>>)
<1> DEFINE more == text \o <<d>>
           ss == [i \in 1..Len(text) |-> ReadAs(text, i)]
           tt == [i \in 1..Len(more) |-> ReadAs(more, i)]
           last == IF d = Quote /\ QuotesAtEnd(more) % 2 = 0 THEN <<>> ELSE <<d>>
<1>1. /\ more \in Text /\ Len(more) = Len(text) + 1 /\ more[Len(text) + 1] = d /\ Len(text) \in Nat
      /\ \A i \in 1..Len(text) : more[i] = text[i] /\ SubSeq(more, 1, i) = SubSeq(text, 1, i)
      /\ SubSeq(more, 1, Len(text) + 1) = more
  BY LetterAdded DEF Text
<1> HIDE DEF more
<1>2. ss \in Seq(Text) /\ Len(ss) = Len(text) /\ Unescaped(text) = FlattenSeq(ss)
  BY UnescapedIs
<1>3. tt \in Seq(Text) /\ Len(tt) = Len(text) + 1 /\ Unescaped(more) = FlattenSeq(tt)
  BY <1>1, UnescapedIs
<1>4. ASSUME NEW i \in 1..Len(text) PROVE tt[i] = ss[i]
  <2>1. tt[i] = ReadAs(more, i) /\ ss[i] = ReadAs(text, i)
    BY <1>1
  <2>2. more[i] = text[i] /\ SubSeq(more, 1, i) = SubSeq(text, 1, i)
    BY <1>1
  <2>3. ReadAs(more, i) = ReadAs(text, i)
    BY <2>2, Zenon DEF ReadAs
  <2>4. QED BY <2>1, <2>3, Zenon
<1>5. tt[Len(text) + 1] = last
  <2>1. tt[Len(text) + 1] = ReadAs(more, Len(text) + 1)
    BY <1>1
  <2> HIDE DEF tt
  <2>2. QED BY <1>1, <2>1, Zenon DEF ReadAs
<1> HIDE DEF ss, tt, last
<1>6. FlattenSeq(tt) = FlattenSeq(ss) \o tt[Len(tt)]
  <2>1. ss \in Seq(Seq(Letter)) /\ tt \in Seq(Seq(Letter))
    BY <1>2, <1>3 DEF Text
  <2>2. Len(tt) = Len(ss) + 1 /\ \A i \in 1..Len(ss) : tt[i] = ss[i]
    BY <1>2, <1>3, <1>4
  <2>3. QED BY <2>1, <2>2, FlattenMore
<1>7. Unescaped(more) = Unescaped(text) \o last
  BY <1>2, <1>3, <1>5, <1>6
<1>8. QED BY <1>7, Zenon DEF last, more

-----------------------------------------------------------------------------
(* A text with its quotation marks doubled reads as the text it was, and no  *)
(* comma or line end of it is taken for the end of a value.                  *)

Escaped(text) == Replaced(text, Quote, <<Quote, Quote>>)
IsMark(c) == c \in {Comma, NewLine}

\* no comma or line end within a text in quotation marks ends it
Uncut(text) == \A x \in 1..Len(text) : IsMark(text[x]) => QuotesAtEnd(SubSeq(text, 1, x - 1)) % 2 = 0
Even(text) == QuotesAtEnd(text) % 2 = 0

LEMMA UncutMore ==
  ASSUME NEW text \in Text, Uncut(text), NEW d \in Letter, d = Quote \/ Even(text)
  PROVE  Uncut(text \o <<d>>)
<1> DEFINE more == text \o <<d>>
<1>1. /\ more \in Text /\ Len(more) = Len(text) + 1 /\ more[Len(text) + 1] = d /\ Len(text) \in Nat
      /\ \A i \in 1..Len(text) : more[i] = text[i] /\ SubSeq(more, 1, i) = SubSeq(text, 1, i)
  BY LetterAdded DEF Text
<1>2. SubSeq(more, 1, Len(text)) = text
  <2>1. CASE Len(text) = 0
    <3>1. SubSeq(more, 1, 0) = <<>>
      <4>1. 1 \in Int /\ 0 \in Int /\ 0 < 1
        OBVIOUS
      <4>2. QED BY <4>1, SubSeqEmpty
    <3>2. text = <<>>
      BY <2>1, EmptySeq DEF Text
    <3>3. QED BY <2>1, <3>1, <3>2
  <2>2. CASE Len(text) # 0
    <3>1. Len(text) \in 1..Len(text) /\ SubSeq(text, 1, Len(text)) = text
      BY <1>1, <2>2, SubSeqFull DEF Text
    <3>2. QED BY <1>1, <3>1, Zenon
  <2>3. QED BY <2>1, <2>2
<1>3. \A i \in 0..Len(text) : SubSeq(more, 1, i) = SubSeq(text, 1, i)
  <2>1. SubSeq(more, 1, 0) = <<>> /\ SubSeq(text, 1, 0) = <<>>
    <3>1. 1 \in Int /\ 0 \in Int /\ 0 < 1
      OBVIOUS
    <3>2. QED BY <3>1, SubSeqEmpty
  <2>2. \A i \in 0..Len(text) : i = 0 \/ i \in 1..Len(text)
    BY <1>1
  <2>3. QED BY <1>1, <2>1, <2>2, Zenon
<1> HIDE DEF more
<1>4. ASSUME NEW x \in 1..Len(more), IsMark(more[x]) PROVE QuotesAtEnd(SubSeq(more, 1, x - 1)) % 2 = 0
  <2>1. CASE x = Len(text) + 1
    <3>1. d # Quote
      BY <1>1, <1>4, <2>1, MarksAre, Zenon DEF IsMark
    <3>2. x - 1 = Len(text)
      BY <1>1, <2>1
    <3>3. QED BY <1>2, <3>1, <3>2, Zenon DEF Even
  <2>2. CASE x # Len(text) + 1
    <3>1. x \in 1..Len(text) /\ x - 1 \in 0..Len(text)
      BY <1>1, <2>2
    <3>2. QuotesAtEnd(SubSeq(text, 1, x - 1)) % 2 = 0
      BY <1>1, <1>4, <3>1, Zenon DEF Uncut
    <3>3. QED BY <1>3, <3>1, <3>2, Zenon
  <2>3. QED BY <2>1, <2>2
<1>5. Uncut(more)
  BY <1>4 DEF Uncut
<1>6. QED BY <1>5 DEF more

LEMMA EscapedSound ==
  ASSUME NEW text \in Text
  PROVE  /\ Escaped(text) \in Text /\ Unescaped(Escaped(text)) = text
         /\ Even(Escaped(text)) /\ Uncut(Escaped(text))
<1> DEFINE S == {t \in Text : /\ Unescaped(Escaped(t)) = t
                              /\ Even(Escaped(t)) /\ Uncut(Escaped(t))}
<1>0. <<Quote, Quote>> \in Text /\ <<Quote>> \in Text /\ <<Quote>> \o <<Quote>> = <<Quote, Quote>>
      /\ Quote \in Letter
  BY MarksAre, OneOf, TwoOf DEF Text
<1>1. <<>> \in S
  <2>1. Escaped(<<>>) = <<>> /\ <<>> \in Text /\ Len(<<>>) = 0
    BY ReplacedNone DEF Escaped, Text
  <2>2. Unescaped(<<>>) = <<>>
    <3>1. [i \in 1..Len(<<>>) |-> ReadAs(<<>>, i)] = <<>>
      OBVIOUS
    <3>2. QED BY <2>1, <3>1, FlattenEmpty, UnescapedIs, Zenon
  <2>3. Even(<<>>)
    BY NoQuotes DEF Even
  <2>4. Uncut(<<>>)
    BY DEF Uncut
  <2>5. QED BY <2>1, <2>2, <2>3, <2>4
<1>2. ASSUME NEW t \in Text, NEW d \in Letter, t \in S PROVE t \o <<d>> \in S
  <2> DEFINE e == Escaped(t)
             e1 == e \o <<d>>
  <2>1. e \in Text /\ Unescaped(e) = t /\ Even(e) /\ Uncut(e) /\ t \o <<d>> \in Text
    BY <1>0, <1>2, ReplacedLetters, LetterAdded DEF Escaped
  <2>2. Escaped(t \o <<d>>) = e \o (IF d = Quote THEN <<Quote, Quote>> ELSE <<d>>)
    <3>1. PICK by \in Text : by = <<Quote, Quote>>
      BY <1>0
    <3>2. Replaced(t \o <<d>>, Quote, by) = Replaced(t, Quote, by) \o (IF d = Quote THEN by ELSE <<d>>)
      BY ReplacedMore
    <3>3. QED BY <3>1, <3>2, Zenon DEF Escaped
  <2> HIDE DEF e
  <2>3. e1 \in Text /\ Uncut(e1) /\ QuotesAtEnd(e) \in Nat
    BY <2>1, LetterAdded, UncutMore, QuotesMore
  <2>4. QuotesAtEnd(e1) = IF d = Quote THEN QuotesAtEnd(e) + 1 ELSE 0
    BY <2>1, QuotesMore
  <2>5. Unescaped(e1) = Unescaped(e) \o (IF d = Quote /\ QuotesAtEnd(e1) % 2 = 0 THEN <<>> ELSE <<d>>)
    BY <2>1, UnescapedMore
  <2> HIDE DEF e1
  <2>6. Unescaped(e1) = t \o <<d>>
    <3>1. ~(d = Quote /\ QuotesAtEnd(e1) % 2 = 0)
      BY <2>1, <2>3, <2>4 DEF Even
    <3>2. QED BY <2>1, <2>5, <3>1, Zenon
  <2>7. CASE d # Quote
    <3>1. Escaped(t \o <<d>>) = e1
      BY <2>2, <2>7, Zenon DEF e1
    <3>2. Even(e1)
      BY <2>4, <2>7 DEF Even
    <3>3. QED BY <2>1, <2>3, <2>6, <3>1, <3>2
  <2>8. CASE d = Quote
    <3> DEFINE e2 == e1 \o <<Quote>>
    <3>1. e2 \in Text /\ Uncut(e2)
      BY <1>0, <2>3, LetterAdded, UncutMore
    <3>2. QuotesAtEnd(e2) = QuotesAtEnd(e1) + 1
      BY <1>0, <2>3, QuotesMore
    <3>3. Unescaped(e2) = Unescaped(e1) \o (IF QuotesAtEnd(e2) % 2 = 0 THEN <<>> ELSE <<Quote>>)
      <4>1. Unescaped(e2) = Unescaped(e1) \o (IF Quote = Quote /\ QuotesAtEnd(e2) % 2 = 0 THEN <<>> ELSE <<Quote>>)
        BY <1>0, <2>3, UnescapedMore
      <4> HIDE DEF e2
      <4>2. QED BY <4>1, Zenon
    <3>4. Escaped(t \o <<d>>) = e2
      <4>1. Escaped(t \o <<d>>) = e \o (<<Quote>> \o <<Quote>>)
        BY <1>0, <2>2, <2>8, Zenon
      <4>2. e \o (<<Quote>> \o <<Quote>>) = (e \o <<Quote>>) \o <<Quote>>
        BY <1>0, <2>1, ConcatAssociative DEF Text
      <4>3. QED BY <2>8, <4>1, <4>2, Zenon DEF e1
    <3> HIDE DEF e2
    <3>5. QuotesAtEnd(e2) % 2 = 0
      <4>1. QuotesAtEnd(e2) = QuotesAtEnd(e) + 2 /\ QuotesAtEnd(e) % 2 = 0
        BY <2>1, <2>3, <2>4, <2>8, <3>2 DEF Even
      <4>2. QED BY <2>3, <4>1
    <3>6. Unescaped(e2) = t \o <<d>>
      <4>1. Unescaped(e2) = (t \o <<d>>) \o <<>>
        BY <2>6, <3>3, <3>5, Zenon
      <4>2. QED BY <2>1, <4>1, ConcatEmptySeq DEF Text
    <3>7. QED BY <2>1, <3>1, <3>4, <3>5, <3>6 DEF Even
  <2>9. QED BY <2>7, <2>8
<1> HIDE DEF S
<1>3. Text \subseteq S
  BY <1>1, <1>2, EveryText, Zenon
<1>4. Escaped(text) \in Text
  BY <1>0, ReplacedLetters DEF Escaped
<1>5. QED BY <1>3, <1>4 DEF S

\* a text without commas, line ends and quotation marks reads as itself
LEMMA DoubledIs ==
  ASSUME NoText, NEW v \in Value
  PROVE  Doubled(v) \in Value /\ (v # NULL => Doubled(v) \in Text) /\ (Doubled(v) = NULL <=> v = NULL)
<1>1. <<Apos, Apos>> \in Text
  BY MarksAre, TwoOf DEF Text
<1>2. v # NULL => v \in Text /\ Replaced(v, Apos, <<Apos, Apos>>) \in Text
  BY <1>1, ReplacedLetters DEF Value
<1>3. QED BY <1>2 DEF Doubled, Value, NoText

\* what a value is written as, and how it is told from others when it is read
Field(f, v) ==
  \/ f = <<>> /\ v = NULL
  \/ /\ f # <<>> /\ f[1] # Quote
     /\ \A x \in 1..Len(f) : ~IsMark(f[x])
     /\ Unescaped(f) = v
  \/ \E body \in Text : f = <<Quote>> \o body \o <<Quote>> /\ Even(body) /\ Uncut(body) /\ Unescaped(body) = v

LEMMA WrittenAs ==
  ASSUME NoText, NEW v \in Value
  PROVE  CsvValue(v) \in Text /\ Field(CsvValue(v), Doubled(v))
<1>1. CASE v = NULL
  <2>1. CsvValue(v) = <<>> /\ Doubled(v) = NULL
    BY <1>1 DEF CsvValue, Doubled
  <2>2. <<>> \in Text
    BY DEF Text
  <2>3. QED BY <2>1, <2>2 DEF Field
<1>2. CASE v # NULL
  <2> DEFINE t == Doubled(v)
             e == Escaped(t)
             q == <<Quote>> \o e \o <<Quote>>
  <2>1. t \in Text
    BY <1>2, DoubledIs
  <2>2. CsvValue(v) = IF RequiresQuotes(e) THEN q ELSE e
    BY <1>2 DEF CsvValue, Quoted, Escaped
  <2> HIDE DEF t
  <2>3. e \in Text /\ Unescaped(e) = t /\ Even(e) /\ Uncut(e)
    BY <2>1, EscapedSound
  <2> HIDE DEF e
  <2>4. CASE RequiresQuotes(e)
    <3>1. q \in Text
      <4>1. <<Quote>> \in Seq(Letter) /\ e \in Seq(Letter)
        BY <2>3, MarksAre, OneOf DEF Text
      <4>2. <<Quote>> \o e \in Seq(Letter)
        BY <4>1, ConcatProperties
      <4>3. <<Quote>> \o e \o <<Quote>> \in Seq(Letter)
        BY <4>1, <4>2, ConcatProperties
      <4>4. QED BY <4>3 DEF Text
    <3>2. Field(q, t)
      BY <2>3 DEF Field
    <3>3. CsvValue(v) = q
      BY <2>2, <2>4, Zenon
    <3>4. QED BY <3>1, <3>2, <3>3, Zenon DEF t
  <2>5. CASE ~RequiresQuotes(e)
    <3>1. e # <<>> /\ \A i \in 1..Len(e) : e[i] \notin {" ", Comma, NewLine, Quote}
      BY <2>5, Zenon DEF RequiresQuotes
    <3>2. 1 \in 1..Len(e)
      <4>1. e \in Seq(Letter)
        BY <2>3 DEF Text
      <4>2. Len(e) \in Nat \ {0}
        BY <3>1, <4>1, EmptySeq, Zenon
      <4>3. QED BY <4>2
    <3>3. e[1] # Quote /\ \A i \in 1..Len(e) : ~IsMark(e[i])
      BY <3>1, <3>2 DEF IsMark
    <3>4. Field(e, t)
      BY <2>3, <3>1, <3>3, Zenon DEF Field
    <3>5. CsvValue(v) = e
      BY <2>2, <2>5, Zenon
    <3>6. QED BY <2>3, <3>4, <3>5, Zenon DEF t
  <2>6. QED BY <2>4, <2>5
<1>3. QED BY <1>1, <1>2

-----------------------------------------------------------------------------
(* A text within another, and the value that is read there.                  *)

\* f stands in the text from p on
Stands(text, p, f) == p + Len(f) - 1 <= Len(text) /\ \A i \in 1..Len(f) : text[p + i - 1] = f[i]

LEMMA HeldPart ==
  ASSUME NEW text \in Text, NEW f \in Text, NEW p \in Nat \ {0}, Stands(text, p, f),
         NEW m \in Nat \ {0}, NEW n \in Nat, n <= Len(f)
  PROVE  SubSeq(text, p + m - 1, p + n - 1) = SubSeq(f, m, n)
<1>1. /\ Len(text) \in Nat /\ Len(f) \in Nat
      /\ \A i \in 1..Len(text) : text[i] \in Letter
      /\ \A i \in 1..Len(f) : f[i] \in Letter
  BY DEF Text
<1> DEFINE a == SubSeq(text, p + m - 1, p + n - 1)
           b == SubSeq(f, m, n)
<1>2. \A i \in (p + m - 1)..(p + n - 1) : text[i] \in Letter
  BY <1>1 DEF Stands
<1>3. \A i \in m..n : f[i] \in Letter
  BY <1>1
<1>4. /\ a \in Seq(Letter)
      /\ Len(a) = IF p + m - 1 <= p + n - 1 THEN p + n - 1 - (p + m - 1) + 1 ELSE 0
      /\ \A i \in 1..(p + n - 1 - (p + m - 1) + 1) : a[i] = text[p + m - 1 + i - 1]
  <2>1. p + m - 1 \in Int /\ p + n - 1 \in Int
    OBVIOUS
  <2>2. QED BY <1>2, <2>1, SubSeqProperties
<1>5. /\ b \in Seq(Letter) /\ Len(b) = IF m <= n THEN n - m + 1 ELSE 0
      /\ \A i \in 1..(n - m + 1) : b[i] = f[m + i - 1]
  <2>1. m \in Int /\ n \in Int
    OBVIOUS
  <2>2. QED BY <1>3, <2>1, SubSeqProperties
<1> HIDE DEF a, b
<1>6. Len(a) = Len(b)
  BY <1>4, <1>5
<1>7. ASSUME NEW i \in 1..Len(a) PROVE a[i] = b[i]
  <2>1. m <= n /\ i \in 1..(n - m + 1) /\ i \in 1..(p + n - 1 - (p + m - 1) + 1)
    BY <1>4
  <2>2. m + i - 1 \in 1..Len(f) /\ p + m - 1 + i - 1 = p + (m + i - 1) - 1
    BY <1>1, <2>1
  <2>3. a[i] = text[p + (m + i - 1) - 1] /\ b[i] = f[m + i - 1]
    BY <1>4, <1>5, <2>1, <2>2
  <2>4. text[p + (m + i - 1) - 1] = f[m + i - 1]
    BY <2>2, Zenon DEF Stands
  <2>5. QED BY <2>3, <2>4, Zenon
<1>8. a = b
  BY <1>4, <1>5, <1>6, <1>7, SeqEqual
<1>9. QED BY <1>8 DEF a, b

LEMMA HeldWhole ==
  ASSUME NEW text \in Text, NEW f \in Text, NEW p \in Nat \ {0}, Stands(text, p, f)
  PROVE  SubSeq(text, p, p + Len(f) - 1) = f
<1>1. Len(f) \in Nat /\ SubSeq(f, 1, Len(f)) = f
  BY SubSeqFull DEF Text
<1>2. SubSeq(text, p + 1 - 1, p + Len(f) - 1) = SubSeq(f, 1, Len(f))
  BY <1>1, HeldPart
<1>3. p + 1 - 1 = p
  OBVIOUS
<1>4. QED BY <1>1, <1>2, <1>3, Zenon

LEMMA HeldWithin ==
  ASSUME NEW text, NEW f, NEW g, NEW p \in Nat \ {0}, NEW q \in Nat \ {0},
         Len(text) \in Nat, Len(f) \in Nat, Len(g) \in Nat, Stands(text, p, f), Stands(f, q, g)
  PROVE  Stands(text, p + q - 1, g)
<1>1. p + q - 1 + Len(g) - 1 <= Len(text)
  BY DEF Stands
<1>2. ASSUME NEW i \in 1..Len(g) PROVE text[p + q - 1 + i - 1] = g[i]
  <2>1. q + i - 1 \in 1..Len(f) /\ p + q - 1 + i - 1 = p + (q + i - 1) - 1
    BY DEF Stands
  <2>2. text[p + (q + i - 1) - 1] = f[q + i - 1] /\ f[q + i - 1] = g[i]
    BY <2>1, Zenon DEF Stands
  <2>3. QED BY <2>1, <2>2, Zenon
<1>3. QED BY <1>1, <1>2 DEF Stands

LEMMA LeastIs ==
  ASSUME NEW T, T \subseteq Int, NEW e \in T, \A x \in T : e <= x
  PROVE  T # {} /\ Min(T) = e
<1>1. PICK x \in T : (\A y \in T : x <= y) /\ Min(T) = x
  BY DEF Min
<1>2. x = e
  BY <1>1
<1>3. QED BY <1>1, <1>2

ValueAt(text, p) == IF text[p] = Quote THEN QuotedValue(text, p) ELSE PlainValue(text, p)

LEMMA PlainRead ==
  ASSUME NEW text \in Text, NEW s \in 1..Len(text), NEW e \in s..Len(text), IsMark(text[e]),
         \A x \in s..(e - 1) : ~IsMark(text[x])
  PROVE  PlainValue(text, s) =
           [value |-> IF SubSeq(text, s, e - 1) = <<>> THEN NULL ELSE Unescaped(SubSeq(text, s, e - 1)),
            end |-> e]
<1> DEFINE ends == {x \in s..Len(text) : text[x] \in {Comma, NewLine}}
           f == IF ends = {} THEN Len(text) + 1 ELSE Min(ends)
<1>1. Len(text) \in Nat
  BY DEF Text
<1>2. e \in ends /\ ends \subseteq Int
  BY <1>1 DEF IsMark
<1>3. \A x \in ends : e <= x
  BY <1>1 DEF IsMark
<1> HIDE DEF ends
<1>4. f = e
  BY <1>2, <1>3, LeastIs
<1> HIDE DEF f
<1>5. PlainValue(text, s) =
        [value |-> IF SubSeq(text, s, f - 1) = <<>> THEN NULL ELSE Unescaped(SubSeq(text, s, f - 1)),
         end |-> f]
  BY Zenon DEF PlainValue, Before, f, ends
<1>6. QED BY <1>4, <1>5, Zenon

LEMMA QuotedRead ==
  ASSUME NEW text \in Text, NEW s \in 1..Len(text), NEW e \in (s + 1)..Len(text), IsMark(text[e]),
         Closed(SubSeq(text, s + 1, e - 1)),
         \A x \in (s + 1)..(e - 1) : IsMark(text[x]) => ~Closed(SubSeq(text, s + 1, x - 1))
  PROVE  QuotedValue(text, s) = [value |-> Unescaped(Front(SubSeq(text, s + 1, e - 1))), end |-> e]
<1> DEFINE ends == {x \in (s + 1)..Len(text) : /\ text[x] \in {Comma, NewLine}
                                               /\ Closed(SubSeq(text, s + 1, x - 1))}
           f == IF ends = {} THEN Len(text) + 1 ELSE Min(ends)
<1>1. Len(text) \in Nat
  BY DEF Text
<1>2. e \in ends /\ ends \subseteq Int
  BY <1>1 DEF IsMark
<1>3. \A x \in ends : e <= x
  BY <1>1 DEF IsMark
<1> HIDE DEF ends
<1>4. f = e
  BY <1>2, <1>3, LeastIs
<1> HIDE DEF f
<1>5. QuotedValue(text, s) =
        [value |-> Unescaped(IF Closed(SubSeq(text, s + 1, f - 1)) THEN Front(SubSeq(text, s + 1, f - 1))
                             ELSE SubSeq(text, s + 1, f - 1)),
         end |-> f]
  BY Zenon DEF QuotedValue, Before, f, ends
<1>6. QED BY <1>4, <1>5, Zenon

\* what was written as a field, and stands before a comma or a line end, is
\* read as the value, up to there
LEMMA FieldRead ==
  ASSUME NEW text \in Text, NEW s \in 1..Len(text), NEW f \in Text, NEW v, Field(f, v), Stands(text, s, f),
         s + Len(f) <= Len(text), IsMark(text[s + Len(f)])
  PROVE  ValueAt(text, s) = [value |-> v, end |-> s + Len(f)]
<1>1. Len(text) \in Nat /\ Len(f) \in Nat /\ s \in Nat \ {0}
  BY DEF Text
<1>2. PICK e \in s..Len(text) : e = s + Len(f)
  BY <1>1
<1>3. SubSeq(text, s, e - 1) = f
  BY <1>1, <1>2, HeldWhole
<1>4. CASE f = <<>> /\ v = NULL
  <2>1. e = s
    BY <1>2, <1>4
  <2>2. text[s] # Quote
    <3>1. IsMark(text[s])
      BY <1>2, <2>1
    <3>2. QED BY <3>1, MarksAre, Zenon DEF IsMark
  <2>3. \A x \in s..(e - 1) : ~IsMark(text[x])
    BY <1>1, <2>1
  <2>4. PlainValue(text, s) = [value |-> NULL, end |-> e]
    BY <1>2, <1>3, <1>4, <2>3, PlainRead
  <2>5. QED BY <1>2, <1>4, <2>2, <2>4, Zenon DEF ValueAt
<1>5. CASE f # <<>> /\ f[1] # Quote /\ (\A x \in 1..Len(f) : ~IsMark(f[x])) /\ Unescaped(f) = v
  <2>1. 1 \in 1..Len(f) /\ s + 1 - 1 = s
    <3>1. f \in Seq(Letter)
      BY DEF Text
    <3>2. Len(f) \in Nat \ {0}
      BY <1>5, <3>1, EmptySeq, Zenon
    <3>3. QED BY <3>2
  <2>2. text[s] = f[1]
    BY <2>1, Zenon DEF Stands
  <2>3. ASSUME NEW x \in s..(e - 1) PROVE ~IsMark(text[x])
    <3>1. x - s + 1 \in 1..Len(f) /\ s + (x - s + 1) - 1 = x
      BY <1>1, <1>2
    <3>2. text[s + (x - s + 1) - 1] = f[x - s + 1]
      BY <3>1, Zenon DEF Stands
    <3>3. QED BY <1>5, <3>1, <3>2, Zenon
  <2>4. PlainValue(text, s) = [value |-> v, end |-> e]
    BY <1>2, <1>3, <1>5, <2>3, PlainRead
  <2>5. QED BY <1>2, <1>5, <2>2, <2>4, Zenon DEF ValueAt
<1>6. ASSUME NEW body \in Text, f = <<Quote>> \o body \o <<Quote>>, Even(body), Uncut(body), Unescaped(body) = v
      PROVE  ValueAt(text, s) = [value |-> v, end |-> s + Len(f)]
  <2> DEFINE field == body \o <<Quote>>
             n == Len(body)
  <2>1. /\ field \in Text /\ Len(field) = n + 1 /\ field[n + 1] = Quote /\ n \in Nat
        /\ \A i \in 1..n : field[i] = body[i]
    <3>0. Len(body) \in Nat
      BY DEF Text
    <3>1. Quote \in Letter /\ Len(body) \in Nat
      BY <3>0, MarksAre, Zenon
    <3>2. /\ body \o <<Quote>> \in Text /\ Len(body \o <<Quote>>) = Len(body) + 1
          /\ (body \o <<Quote>>)[Len(body) + 1] = Quote
          /\ \A i \in 1..Len(body) : (body \o <<Quote>>)[i] = body[i]
      BY <3>1, LetterAdded
    <3>3. QED BY <3>1, <3>2, Zenon
  <2>2. /\ Len(f) = n + 2 /\ f[1] = Quote /\ f[n + 2] = Quote
        /\ \A i \in 1..n : f[i + 1] = body[i]
    <3>1. <<Quote>> \in Seq(Letter) /\ body \in Seq(Letter) /\ Len(<<Quote>>) = 1 /\ <<Quote>>[1] = Quote
      BY MarksAre, OneOf DEF Text
    <3>2. /\ <<Quote>> \o body \in Seq(Letter) /\ Len(<<Quote>> \o body) = n + 1
          /\ (<<Quote>> \o body)[1] = Quote /\ \A i \in 1..n : (<<Quote>> \o body)[i + 1] = body[i]
      BY <2>1, <3>1
    <3> DEFINE g == <<Quote>> \o body
    <3> HIDE DEF g
    <3>3. /\ g \in Seq(Letter) /\ Len(g) = n + 1 /\ g[1] = Quote /\ \A i \in 1..n : g[i + 1] = body[i]
          /\ f = g \o <<Quote>>
      BY <1>6, <3>2 DEF g
    <3>4. QED BY <2>1, <3>1, <3>3
  <2>3. QuotesAtEnd(field) % 2 = 1
    <3>1. QuotesAtEnd(field) = QuotesAtEnd(body) + 1 /\ QuotesAtEnd(body) \in Nat
      BY MarksAre, QuotesMore
    <3>2. QuotesAtEnd(body) % 2 = 0
      BY <1>6, Zenon DEF Even
    <3>3. \A q \in Nat : q % 2 = 0 => (q + 1) % 2 = 1
      OBVIOUS
    <3>4. QED BY <3>1, <3>2, <3>3, Zenon
  <2>4. Front(field) = body
    <3>1. Front(field) = SubSeq(field, 1, n)
      <4>1. Len(field) - 1 = n
        BY <2>1
      <4>2. QED BY <4>1, Zenon DEF Front
    <3>2. Stands(field, 1, body)
      BY <2>1 DEF Stands
    <3>3. 1 \in Nat \ {0} /\ 1 + n - 1 = n
      BY <2>1
    <3>4. SubSeq(field, 1, 1 + Len(body) - 1) = body
      BY <2>1, <3>2, <3>3, HeldWhole, Zenon
    <3>5. QED BY <3>1, <3>3, <3>4, Zenon
  <2> HIDE DEF field, n
  <2>5. Stands(text, s + 1, field) /\ Stands(text, s + 1, body)
    <3>1. \A i \in 1..(n + 2) : text[s + i - 1] = f[i]
      BY <2>2 DEF Stands
    <3>2. \A i \in 1..(n + 1) : text[s + 1 + i - 1] = f[i + 1]
      <4>1. ASSUME NEW i \in 1..(n + 1) PROVE text[s + 1 + i - 1] = f[i + 1]
        <5>1. i + 1 \in 1..(n + 2) /\ s + (i + 1) - 1 = s + 1 + i - 1
          BY <1>1, <2>1
        <5>2. QED BY <3>1, <5>1, Zenon
      <4>2. QED BY <4>1
    <3>3. ASSUME NEW i \in 1..(n + 1) PROVE text[s + 1 + i - 1] = field[i]
      <4>1. CASE i = n + 1
        <5>1. f[n + 2] = field[n + 1] /\ i + 1 = n + 2
          BY <2>1, <2>2, <4>1
        <5>2. QED BY <3>2, <4>1, <5>1, Zenon
      <4>2. CASE i # n + 1
        <5>1. i \in 1..n
          BY <2>1, <4>2
        <5>2. QED BY <2>1, <2>2, <3>2, <5>1, Zenon
      <4>3. QED BY <4>1, <4>2
    <3>4. s + 1 + (n + 1) - 1 <= Len(text)
      BY <1>1, <2>1, <2>2
    <3>5. Stands(text, s + 1, field)
      BY <2>1, <3>3, <3>4 DEF Stands
    <3>6. \A i \in 1..n : text[s + 1 + i - 1] = body[i]
      BY <2>1, <3>3
    <3>7. QED BY <1>1, <2>1, <3>4, <3>5, <3>6 DEF Stands, n
  <2>6. SubSeq(text, s + 1, e - 1) = field
    <3>1. s + 1 + Len(field) - 1 = e - 1 /\ s + 1 \in Nat \ {0}
      BY <1>1, <1>2, <2>1, <2>2
    <3>2. SubSeq(text, s + 1, s + 1 + Len(field) - 1) = field
      BY <2>1, <2>5, <3>1, HeldWhole, Zenon
    <3>3. QED BY <3>1, <3>2, Zenon
  <2>7. ASSUME NEW x \in (s + 1)..(e - 1), IsMark(text[x]) PROVE ~Closed(SubSeq(text, s + 1, x - 1))
    <3>1. x \in (s + 1)..(s + n + 1) /\ x - s \in 1..(n + 1)
      BY <1>1, <1>2, <2>1, <2>2
    <3>2. text[x] = field[x - s]
      <4>1. s + 1 + (x - s) - 1 = x
        BY <1>1
      <4>2. text[s + 1 + (x - s) - 1] = field[x - s]
        BY <2>1, <2>5, <3>1, Zenon DEF Stands
      <4>3. QED BY <4>1, <4>2, Zenon
    <3>3. x - s # n + 1
      BY <2>1, <2>7, <3>2, MarksAre, Zenon DEF IsMark
    <3>4. x - s \in 1..n
      BY <2>1, <3>1, <3>3
    <3>5. QuotesAtEnd(SubSeq(body, 1, x - s - 1)) % 2 = 0
      BY <1>6, <2>1, <2>7, <3>2, <3>4, Zenon DEF Uncut, n
    <3>6. SubSeq(text, s + 1, x - 1) = SubSeq(body, 1, x - s - 1)
      <4>1. PICK p \in Nat \ {0}, k \in Nat :
              /\ p = s + 1 /\ k = x - s - 1 /\ p + 1 - 1 = s + 1 /\ p + k - 1 = x - 1 /\ k <= Len(body)
        BY <1>1, <2>1, <3>4 DEF n
      <4>2. Stands(text, p, body)
        BY <2>5, <4>1
      <4>3. SubSeq(text, p + 1 - 1, p + k - 1) = SubSeq(body, 1, k)
        BY <4>1, <4>2, HeldPart
      <4>4. QED BY <4>1, <4>3, Zenon
    <3>7. QuotesAtEnd(SubSeq(text, s + 1, x - 1)) % 2 = 0
      BY <3>5, <3>6, Zenon
    <3>8. 0 # 1
      OBVIOUS
    <3>9. QED BY <3>7, <3>8, Zenon DEF Closed
  <2>8. e \in (s + 1)..Len(text) /\ IsMark(text[e])
    BY <1>1, <1>2, <2>1, <2>2
  <2>9. Closed(SubSeq(text, s + 1, e - 1))
    BY <2>3, <2>6, Zenon DEF Closed
  <2>10. QuotedValue(text, s) = [value |-> Unescaped(Front(SubSeq(text, s + 1, e - 1))), end |-> e]
    BY <2>7, <2>8, <2>9, QuotedRead
  <2>11. QuotedValue(text, s) = [value |-> v, end |-> e]
    BY <1>6, <2>4, <2>6, <2>10, Zenon
  <2>12. text[s] = Quote
    <3>1. 1 \in 1..Len(f) /\ s + 1 - 1 = s
      BY <1>1, <2>1, <2>2
    <3>2. QED BY <2>2, <3>1, Zenon DEF Stands
  <2>13. QED BY <1>2, <2>11, <2>12, Zenon DEF ValueAt
<1>7. QED BY <1>4, <1>5, <1>6, Zenon DEF Field

-----------------------------------------------------------------------------
(* A line: the recursion of GetLine has a solution, and it reads the values  *)
(* that stand there one after another.                                       *)

LineAt(text, p, f) ==
  IF p > Len(text) THEN [values |-> <<>>, next |-> p]
  ELSE IF text[p] = NewLine THEN [values |-> <<NULL>>, next |-> p + 1]
  ELSE LineWith(text, ValueAt(text, p), f)
LineFrom(text, s, f) == f = [p \in s..(Len(text) + 2) |-> LineAt(text, p, f)]
AgreeOn(a, b, f, g) == \A q \in a..b : f[q] = g[q]

LEMMA BeforeBounds ==
  ASSUME NEW n \in Nat, NEW p \in Nat, p <= n + 1, NEW T, T \subseteq p..n
  PROVE  (IF T = {} THEN n + 1 ELSE Min(T)) \in p..(n + 1)
<1>1. CASE T = {}
  BY <1>1
<1>2. CASE T # {}
  <2>1. T \subseteq Nat
    OBVIOUS
  <2>2. \E x \in T : \A y \in T : x <= y
    BY <1>2, <2>1, LeastNat, Zenon
  <2>3. Min(T) \in T
    BY <2>2 DEF Min
  <2>4. Min(T) \in p..(n + 1)
    <3>1. PICK x \in p..n : x = Min(T)
      BY <2>3, Zenon
    <3>2. x \in p..(n + 1)
      OBVIOUS
    <3>3. QED BY <3>1, <3>2, Zenon
  <2>5. QED BY <1>2, <2>4
<1>3. QED BY <1>1, <1>2

LEMMA ValueEnds ==
  ASSUME NEW text \in Text, NEW p \in 1..Len(text)
  PROVE  ValueAt(text, p).end \in p..(Len(text) + 1)
<1>1. Len(text) \in Nat /\ p \in Nat /\ p + 1 \in Nat /\ p <= Len(text) + 1 /\ p + 1 <= Len(text) + 1
  BY DEF Text
<1> DEFINE T == {x \in p..Len(text) : text[x] \in {Comma, NewLine}}
           U == {x \in (p + 1)..Len(text) : /\ text[x] \in {Comma, NewLine}
                                            /\ Closed(SubSeq(text, p + 1, x - 1))}
<1>2. PlainValue(text, p).end = IF T = {} THEN Len(text) + 1 ELSE Min(T)
  BY Zenon DEF PlainValue, Before
<1>3. QuotedValue(text, p).end = IF U = {} THEN Len(text) + 1 ELSE Min(U)
  BY Zenon DEF QuotedValue, Before
<1>4. T \subseteq p..Len(text) /\ U \subseteq (p + 1)..Len(text)
  OBVIOUS
<1> HIDE DEF T, U
<1>5. PlainValue(text, p).end \in p..(Len(text) + 1)
  BY <1>1, <1>2, <1>4, BeforeBounds
<1>6. QuotedValue(text, p).end \in (p + 1)..(Len(text) + 1)
  BY <1>1, <1>3, <1>4, BeforeBounds
<1>7. QED BY <1>1, <1>5, <1>6 DEF ValueAt

LEMMA LineSame ==
  ASSUME NEW text \in Text, NEW p \in 1..(Len(text) + 2), NEW f, NEW g,
         AgreeOn(p + 1, Len(text) + 2, f, g)
  PROVE  LineAt(text, p, f) = LineAt(text, p, g)
<1>1. CASE p > Len(text)
  BY <1>1 DEF LineAt
<1>2. CASE ~(p > Len(text))
  <2>1. p \in 1..Len(text)
    BY <1>2
  <2> DEFINE q == ValueAt(text, p).end + 1
  <2>2. q \in (p + 1)..(Len(text) + 2)
    BY <2>1, ValueEnds DEF Text
  <2>3. f[q] = g[q]
    BY <2>2, Zenon DEF AgreeOn
  <2>4. LineWith(text, ValueAt(text, p), f) = LineWith(text, ValueAt(text, p), g)
    BY <2>3, Zenon DEF LineWith
  <2>5. QED BY <2>4, Zenon DEF LineAt
<1>3. QED BY <1>1, <1>2

LEMMA LineSolved ==
  ASSUME NEW text \in Text, NEW s \in 1..(Len(text) + 2)
  PROVE  \E f : LineFrom(text, s, f)
<1>1. PICK L \in Nat : L = Len(text) + 2
  BY DEF Text
<1> DEFINE S == {k \in 0..(L - s) : \E f : LineFrom(text, L - k, f)}
<1>2. 0 \in S
  <2> DEFINE f == [p \in L..L |-> [values |-> <<>>, next |-> p]]
  <2>1. ASSUME NEW p \in L..L PROVE f[p] = LineAt(text, p, f)
    <3>1. p > Len(text)
      BY <1>1, <2>1 DEF Text
    <3>2. LineAt(text, p, f) = [values |-> <<>>, next |-> p]
      BY <3>1, Zenon DEF LineAt
    <3>3. f[p] = [values |-> <<>>, next |-> p]
      OBVIOUS
    <3>4. QED BY <3>2, <3>3, Zenon
  <2>2. f = [p \in L..L |-> f[p]]
    OBVIOUS
  <2> HIDE DEF f
  <2>3. f = [p \in L..L |-> LineAt(text, p, f)]
    BY <2>1, <2>2, Zenon
  <2>4. LineFrom(text, L, f)
    BY <1>1, <2>3, Zenon DEF LineFrom
  <2>5. L - 0 = L /\ 0 \in 0..(L - s)
    BY <1>1
  <2>6. QED BY <2>4, <2>5, Zenon
<1>3. ASSUME NEW k \in 0..(L - s - 1), k \in S PROVE k + 1 \in S
  <2>1. PICK f : LineFrom(text, L - k, f)
    BY <1>3
  <2>2. PICK m \in 1..L : m = L - (k + 1) /\ m + 1 = L - k
    <3>1. L - (k + 1) \in 1..L /\ L - (k + 1) + 1 = L - k
      BY <1>1
    <3>2. QED BY <3>1
  <2> DEFINE g == [p \in m..L |-> IF p = m THEN LineAt(text, m, f) ELSE f[p]]
  <2>3. \A p \in (m + 1)..L : g[p] = f[p]
    <3>1. \A p \in (m + 1)..L : p \in m..L /\ p # m
      BY <1>1, <2>2
    <3>2. QED BY <3>1, Zenon
  <2>4. g = [p \in m..L |-> g[p]] /\ g[m] = LineAt(text, m, f)
    <3>1. m \in m..L
      BY <1>1, <2>2
    <3>2. QED BY <3>1, Zenon
  <2> HIDE DEF g
  <2>5. ASSUME NEW p \in m..L PROVE LineAt(text, p, f) = LineAt(text, p, g)
    <3>1. AgreeOn(p + 1, Len(text) + 2, f, g)
      BY <1>1, <2>3 DEF AgreeOn
    <3>2. p \in 1..(Len(text) + 2)
      BY <1>1
    <3>3. QED BY <3>1, <3>2, LineSame
  <2>6. ASSUME NEW p \in m..L PROVE g[p] = LineAt(text, p, g)
    <3>1. CASE p = m
      BY <2>4, <2>5, <3>1
    <3>2. CASE p # m
      <4>1. p \in (m + 1)..L
        BY <1>1, <3>2
      <4>2. f = [q \in (m + 1)..L |-> LineAt(text, q, f)]
        BY <1>1, <2>1, <2>2, Zenon DEF LineFrom
      <4>3. f[p] = LineAt(text, p, f)
        BY <4>1, <4>2, Zenon
      <4>4. QED BY <2>3, <2>5, <4>1, <4>3, Zenon
    <3>3. QED BY <3>1, <3>2
  <2>7. g = [p \in m..L |-> LineAt(text, p, g)]
    BY <2>4, <2>6, Zenon
  <2>8. LineFrom(text, m, g)
    BY <1>1, <2>7, Zenon DEF LineFrom
  <2>9. k + 1 \in 0..(L - s)
    BY <1>1
  <2>10. QED BY <2>2, <2>8, <2>9, Zenon
<1> HIDE DEF S
<1>4. 0..(L - s) \subseteq S
  <2>1. PICK n \in Nat : n = L - s /\ n - 1 = L - s - 1
    BY <1>1
  <2>2. 0..n \subseteq S
    BY <1>2, <1>3, <2>1, UpTo
  <2>3. QED BY <2>1, <2>2
<1>5. L - s \in S /\ L - (L - s) = s
  BY <1>1, <1>4
<1>6. QED BY <1>5, Zenon DEF S

LEMMA LineOf ==
  ASSUME NEW text \in Text, NEW s \in 1..(Len(text) + 2)
  PROVE  \E f : GetLine(text, s) = f[s] /\ \A p \in s..(Len(text) + 2) : f[p] = LineAt(text, p, f)
<1> DEFINE G == CHOOSE f : LineFrom(text, s, f)
<1>1. LineFrom(text, s, G)
  BY LineSolved
<1>2. GetLine(text, s) = G[s]
  BY Zenon DEF GetLine, LineFrom, LineAt, ValueAt
<1> HIDE DEF G
<1>3. \A p \in s..(Len(text) + 2) : G[p] = LineAt(text, p, G)
  BY <1>1, Zenon DEF LineFrom
<1>4. QED BY <1>2, <1>3

\* a line is read with where the next one starts, and this is further on
LineTo(text, p, x) ==
  /\ x = [values |-> x.values, next |-> x.next]
  /\ x.next \in p..(Len(text) + 2)
  /\ p <= Len(text) => p < x.next

LEMMA LineToIs ==
  ASSUME NEW text, NEW p, NEW a, NEW b \in p..(Len(text) + 2), p <= Len(text) => p < b
  PROVE  LineTo(text, p, [values |-> a, next |-> b])
  BY DEF LineTo
LEMMA ValueBefore ==
  ASSUME NEW a, NEW b, NEW c, NEW r, r = [values |-> a, next |-> b]
  PROVE  [r EXCEPT !.values = <<c>> \o @] = [values |-> <<c>> \o a, next |-> b]
<1>1. r.values = a
  OBVIOUS
<1> DEFINE d == <<c>> \o r.values
<1> HIDE DEF d
<1>2. [r EXCEPT !.values = d] = [values |-> d, next |-> b]
  OBVIOUS
<1>3. d = <<c>> \o a
  BY <1>1, Zenon DEF d
<1>4. QED BY <1>2, <1>3, Zenon DEF d

LEMMA LineTyped ==
  ASSUME NEW text \in Text, NEW s \in 1..(Len(text) + 2), NEW f,
         \A p \in s..(Len(text) + 2) : f[p] = LineAt(text, p, f)
  PROVE  \A p \in s..(Len(text) + 2) : LineTo(text, p, f[p])
<1>0. Len(text) \in Nat
  BY DEF Text
<1>1. PICK L \in Nat, n \in Nat : L = Len(text) + 2 /\ n = L - s /\ s \in 1..L
  BY <1>0
<1> DEFINE S == {k \in 0..n : \A p \in (L - k)..L : LineTo(text, p, f[p])}
<1>2. ASSUME NEW p \in s..L, \A q \in (p + 1)..L : LineTo(text, q, f[q])
      PROVE  LineTo(text, p, f[p])
  <2>1. f[p] = LineAt(text, p, f)
    BY <1>1, Zenon
  <2>2. CASE p > Len(text)
    <3>1. f[p] = [values |-> <<>>, next |-> p]
      BY <2>1, <2>2, Zenon DEF LineAt
    <3>2. p \in p..(Len(text) + 2) /\ ~(p <= Len(text))
      BY <1>0, <1>1, <2>2
    <3>3. QED BY <3>1, <3>2, LineToIs, Zenon
  <2>3. CASE ~(p > Len(text)) /\ text[p] = NewLine
    <3>1. f[p] = [values |-> <<NULL>>, next |-> p + 1]
      BY <2>1, <2>3, Zenon DEF LineAt
    <3>2. p + 1 \in p..(Len(text) + 2) /\ p < p + 1
      BY <1>0, <1>1, <2>3
    <3>3. QED BY <3>1, <3>2, LineToIs, Zenon
  <2>4. CASE ~(p > Len(text)) /\ text[p] # NewLine
    <3> DEFINE v == ValueAt(text, p)
    <3>1. p \in 1..Len(text)
      BY <1>0, <1>1, <2>4
    <3>2. PICK e \in p..(Len(text) + 1) : e = v.end
      BY <3>1, ValueEnds, Zenon
    <3>3. f[p] = LineWith(text, v, f)
      BY <2>1, <2>4, Zenon DEF LineAt
    <3> HIDE DEF v
    <3>4. CASE e <= Len(text) /\ text[e] = NewLine
      <4>1. f[p] = [values |-> <<v.value>>, next |-> e + 1]
        BY <3>2, <3>3, <3>4, Zenon DEF LineWith
      <4>2. e + 1 \in p..(Len(text) + 2) /\ p < e + 1
        BY <1>0, <1>1, <3>1
      <4>3. QED BY <4>1, <4>2, LineToIs, Zenon
    <3>5. CASE ~(e <= Len(text) /\ text[e] = NewLine)
      <4>1. f[p] = [f[e + 1] EXCEPT !.values = <<v.value>> \o @]
        BY <3>2, <3>3, <3>5, Zenon DEF LineWith
      <4>2. e + 1 \in (p + 1)..L
        BY <1>0, <1>1, <3>1
      <4>3. LineTo(text, e + 1, f[e + 1])
        BY <1>2, <4>2, Zenon
      <4>4. PICK a, b : f[e + 1] = [values |-> a, next |-> b] /\ b \in (e + 1)..(Len(text) + 2)
        BY <4>3, Zenon DEF LineTo
      <4>5. f[p] = [values |-> <<v.value>> \o a, next |-> b]
        <5>1. PICK r, c : r = f[e + 1] /\ c = v.value
          OBVIOUS
        <5>2. [r EXCEPT !.values = <<c>> \o @] = [values |-> <<c>> \o a, next |-> b]
          <6>1. r = [values |-> a, next |-> b]
            BY <4>4, <5>1
          <6>2. QED BY <6>1, ValueBefore, Zenon
        <5>3. QED BY <4>1, <5>1, <5>2, Zenon
      <4>6. b \in p..(Len(text) + 2) /\ p < b
        BY <1>0, <1>1, <3>1, <4>4
      <4>7. QED BY <4>5, <4>6, LineToIs, Zenon
    <3>6. QED BY <3>4, <3>5
  <2>5. QED BY <2>2, <2>3, <2>4
<1>3. 0 \in S
  <2>1. ASSUME NEW p \in (L - 0)..L PROVE p \in s..L /\ \A q \in (p + 1)..L : FALSE
    <3>1. p = L
      BY <1>1
    <3>2. QED BY <1>1, <3>1
  <2>2. \A p \in (L - 0)..L : LineTo(text, p, f[p])
    BY <1>2, <2>1, Zenon
  <2>3. 0 \in 0..n
    BY <1>1
  <2>4. QED BY <2>2, <2>3
<1>4. ASSUME NEW k \in 0..(n - 1), k \in S PROVE k + 1 \in S
  <2>1. PICK m \in s..L : m = L - (k + 1) /\ m + 1 = L - k
    <3>1. L - (k + 1) \in s..L /\ L - (k + 1) + 1 = L - k
      BY <1>1
    <3>2. QED BY <3>1
  <2>2. \A q \in (m + 1)..L : LineTo(text, q, f[q])
    BY <1>4, <2>1
  <2>3. LineTo(text, m, f[m])
    BY <1>2, <2>2
  <2>4. \A q \in m..L : q = m \/ q \in (m + 1)..L
    BY <1>1
  <2>5. \A q \in (L - (k + 1))..L : LineTo(text, q, f[q])
    BY <2>1, <2>2, <2>3, <2>4, Zenon
  <2>6. k + 1 \in 0..n
    BY <1>1
  <2>7. QED BY <2>5, <2>6
<1> HIDE DEF S
<1>5. 0..n \subseteq S
  BY <1>3, <1>4, UpTo
<1>6. n \in S /\ L - n = s
  BY <1>1, <1>5
<1>7. QED BY <1>1, <1>6, Zenon DEF S

\* fields that stand one after another from s on, with a comma between them
\* and a line end after the last
RowAt(text, s, n, fs, vs, from, to) ==
  /\ \A j \in 1..n : /\ fs[j] \in Text /\ Field(fs[j], vs[j])
                     /\ from[j] \in s..Len(text) /\ Stands(text, from[j], fs[j])
                     /\ to[j] = from[j] + Len(fs[j]) /\ to[j] <= Len(text)
  /\ \A j \in 1..(n - 1) : text[to[j]] = Comma /\ from[j + 1] = to[j] + 1
  /\ from[1] = s /\ text[to[n]] = NewLine

LEMMA RowRead ==
  ASSUME NEW V, NEW text \in Text, NEW s \in 1..Len(text), NEW n \in Nat \ {0}, NEW fs, NEW from, NEW to,
         NEW vs \in Seq(V), Len(vs) = n, RowAt(text, s, n, fs, vs, from, to)
  PROVE  GetLine(text, s) = [values |-> vs, next |-> to[n] + 1]
<1>0. Len(text) \in Nat /\ s \in Nat \ {0} /\ s \in 1..(Len(text) + 2)
  BY DEF Text
<1>1. PICK f : GetLine(text, s) = f[s] /\ \A p \in s..(Len(text) + 2) : f[p] = LineAt(text, p, f)
  BY <1>0, LineOf
<1> DEFINE Reads(j) == f[from[j]] = [values |-> SubSeq(vs, j, n), next |-> to[n] + 1]
           S == {k \in 0..(n - 1) : Reads(n - k)}
<1>2. ASSUME NEW j \in 1..n
      PROVE  /\ fs[j] \in Text /\ Len(fs[j]) \in Nat /\ from[j] \in s..Len(text)
             /\ to[j] = from[j] + Len(fs[j]) /\ to[j] \in from[j]..Len(text)
             /\ IsMark(text[to[j]]) /\ (text[to[j]] = NewLine <=> j = n)
             /\ ValueAt(text, from[j]) = [value |-> vs[j], end |-> to[j]]
  <2>1. /\ fs[j] \in Text /\ Field(fs[j], vs[j]) /\ from[j] \in s..Len(text) /\ Stands(text, from[j], fs[j])
        /\ to[j] = from[j] + Len(fs[j]) /\ to[j] <= Len(text)
    BY Zenon DEF RowAt
  <2>2. Len(fs[j]) \in Nat
    BY <2>1 DEF Text
  <2>3. to[j] \in from[j]..Len(text)
    BY <1>0, <2>1, <2>2
  <2>4. j = n \/ j \in 1..(n - 1)
    OBVIOUS
  <2>5. text[to[j]] = IF j = n THEN NewLine ELSE Comma
    BY <2>4, Zenon DEF RowAt
  <2>6. IsMark(text[to[j]]) /\ (text[to[j]] = NewLine <=> j = n)
    BY <2>5, MarksAre, Zenon DEF IsMark
  <2>7. PICK g \in Text, p \in 1..Len(text) : g = fs[j] /\ p = from[j]
    BY <1>0, <2>1
  <2>8. ValueAt(text, p) = [value |-> vs[j], end |-> p + Len(g)]
    <3>1. /\ Field(g, vs[j]) /\ Stands(text, p, g)
          /\ p + Len(g) <= Len(text) /\ IsMark(text[p + Len(g)])
      BY <2>1, <2>6, <2>7, Zenon
    <3>2. QED BY <3>1, FieldRead
  <2>9. QED BY <2>1, <2>2, <2>3, <2>6, <2>7, <2>8, Zenon
<1>3. ASSUME NEW j \in 1..n
      PROVE  f[from[j]] = IF j = n THEN [values |-> <<vs[j]>>, next |-> to[j] + 1]
                          ELSE [f[to[j] + 1] EXCEPT !.values = <<vs[j]>> \o @]
  <2>1. from[j] \in s..(Len(text) + 2) /\ ~(from[j] > Len(text)) /\ to[j] <= Len(text)
    <3>0. PICK p \in s..Len(text) : p = from[j]
      BY <1>2, Zenon
    <3>1. PICK q \in p..Len(text) : p = from[j] /\ q = to[j]
      BY <1>2, <3>0, Zenon
    <3>2. p \in s..(Len(text) + 2) /\ ~(p > Len(text)) /\ q <= Len(text)
      BY <1>0
    <3>3. QED BY <3>1, <3>2, Zenon
  <2>2. f[from[j]] = LineAt(text, from[j], f)
    BY <1>1, <2>1, Zenon
  <2>3. CASE text[from[j]] # NewLine
    <3>1. f[from[j]] = LineWith(text, [value |-> vs[j], end |-> to[j]], f)
      BY <1>2, <2>1, <2>2, <2>3, Zenon DEF LineAt
    <3>2. QED BY <1>2, <2>1, <3>1, Zenon DEF LineWith
  <2>4. CASE text[from[j]] = NewLine
    \* an empty value, the last
    <3>1. f[from[j]] = [values |-> <<NULL>>, next |-> from[j] + 1]
      BY <2>1, <2>2, <2>4, Zenon DEF LineAt
    <3>2. fs[j] = <<>> /\ vs[j] = NULL
      <4>1. Field(fs[j], vs[j]) /\ Stands(text, from[j], fs[j])
        BY Zenon DEF RowAt
      <4>2. ASSUME fs[j] # <<>> PROVE fs[j][1] = NewLine /\ 1 \in 1..Len(fs[j])
        <5>1. fs[j] \in Seq(Letter)
          BY <1>2 DEF Text
        <5>2. Len(fs[j]) \in Nat \ {0}
          BY <4>2, <5>1, EmptySeq, Zenon
        <5>3. 1 \in 1..Len(fs[j]) /\ from[j] + 1 - 1 = from[j]
          <6>1. PICK p \in s..Len(text) : p = from[j]
            BY <1>2
          <6>2. p + 1 - 1 = p
            BY <1>0
          <6>3. QED BY <5>2, <6>1, <6>2
        <5>4. QED BY <2>4, <4>1, <5>3, Zenon DEF Stands
      <4>3. ASSUME NEW body \in Text, fs[j] = <<Quote>> \o body \o <<Quote>> PROVE FALSE
        <5>1. fs[j] # <<>> /\ fs[j][1] = Quote
          <6>1. body \in Seq(Letter)
            BY DEF Text
          <6>2. <<Quote>> \in Seq(Letter) /\ Len(<<Quote>>) = 1 /\ <<Quote>>[1] = Quote
            BY MarksAre, OneOf
          <6>3. fs[j] = <<Quote>> \o (body \o <<Quote>>)
            BY <4>3, <6>1, <6>2, ConcatAssociative
          <6>4. PICK g \in Seq(Letter) : g = body \o <<Quote>>
            BY <6>1, <6>2, ConcatProperties
          <6>5. /\ (<<Quote>> \o g)[1] = Quote /\ <<Quote>> \o g # <<>>
            BY <6>2
          <6>6. QED BY <6>3, <6>4, <6>5, Zenon
        <5>2. QED BY <4>2, <5>1, MarksAre, Zenon
      <4>4. QED BY <4>1, <4>2, <4>3, Zenon DEF Field, IsMark
    <3>3. to[j] = from[j]
      <4>1. Len(fs[j]) = 0
        BY <3>2
      <4>2. PICK p \in s..Len(text) : p = from[j] /\ to[j] = p + 0
        BY <1>2, <4>1
      <4>3. QED BY <1>0, <4>2
    <3>4. QED BY <1>2, <2>4, <3>1, <3>2, <3>3, Zenon
  <2>5. QED BY <2>3, <2>4
<1>4. 0 \in S
  <2>1. n \in 1..n /\ n - 0 = n /\ 0 \in 0..(n - 1)
    OBVIOUS
  <2>2. SubSeq(vs, n, n) = <<vs[n]>>
    <3>1. n \in 1..Len(vs) /\ n \in n..Len(vs) /\ n < n + 1 /\ n + 1 \in Int /\ n \in Int
      OBVIOUS
    <3>2. SubSeq(vs, n, n) = <<vs[n]>> \o SubSeq(vs, n + 1, n)
      BY <3>1, SubSeqRecursiveFirst
    <3>3. SubSeq(vs, n + 1, n) = <<>>
      BY <3>1, SubSeqEmpty
    <3>4. vs[n] \in V
      OBVIOUS
    <3>5. <<vs[n]>> \in Seq(V)
      BY <3>4, OneOf
    <3>6. QED BY <3>2, <3>3, <3>5, ConcatEmptySeq, Zenon
  <2>3. QED BY <1>3, <2>1, <2>2, Zenon
<1>5. ASSUME NEW k \in 0..(n - 1 - 1), k \in S PROVE k + 1 \in S
  <2>1. PICK j \in 1..(n - 1) : j = n - (k + 1) /\ j + 1 = n - k
    OBVIOUS
  <2>2. f[from[j + 1]] = [values |-> SubSeq(vs, j + 1, n), next |-> to[n] + 1]
    BY <1>5, <2>1
  <2>3. j \in 1..n /\ j # n /\ n \in j..Len(vs) /\ j \in 1..Len(vs)
    OBVIOUS
  <2>4. from[j + 1] = to[j] + 1
    BY Zenon DEF RowAt
  <2>5. f[from[j]] = [f[from[j + 1]] EXCEPT !.values = <<vs[j]>> \o @]
    BY <1>3, <2>3, <2>4, Zenon
  <2>6. f[from[j]] = [values |-> <<vs[j]>> \o SubSeq(vs, j + 1, n), next |-> to[n] + 1]
    <3>1. PICK r, c, a, b : r = f[from[j + 1]] /\ c = vs[j] /\ a = SubSeq(vs, j + 1, n) /\ b = to[n] + 1
      OBVIOUS
    <3>2. [r EXCEPT !.values = <<c>> \o @] = [values |-> <<c>> \o a, next |-> b]
      <4>1. r = [values |-> a, next |-> b]
        BY <2>2, <3>1
      <4>2. QED BY <4>1, ValueBefore, Zenon
    <3>3. QED BY <2>5, <3>1, <3>2, Zenon
  <2>7. SubSeq(vs, j, n) = <<vs[j]>> \o SubSeq(vs, j + 1, n)
    BY <2>3, SubSeqRecursiveFirst
  <2>8. k + 1 \in 0..(n - 1)
    OBVIOUS
  <2>9. QED BY <2>1, <2>6, <2>7, <2>8, Zenon
<1> HIDE DEF S
<1>6. 0..(n - 1) \subseteq S
  <2>1. PICK m \in Nat : m = n - 1
    OBVIOUS
  <2>2. 0..m \subseteq S
    BY <1>4, <1>5, <2>1, UpTo
  <2>3. QED BY <2>1, <2>2
<1>7. Reads(1)
  <2>1. n - 1 \in S /\ n - (n - 1) = 1
    BY <1>6
  <2>2. QED BY <2>1, Zenon DEF S
<1>8. from[1] = s /\ SubSeq(vs, 1, n) = vs
  BY SubSeqFull DEF RowAt
<1>9. QED BY <1>1, <1>7, <1>8, Zenon

-----------------------------------------------------------------------------
(* Where the texts stand that another one is joined of.                      *)

LEMMA HeldMore ==
  ASSUME NEW X, NEW f \in Seq(X), NEW u \in Seq(X), NEW g \in Seq(X), NEW p \in Nat \ {0}, Stands(f, p, g)
  PROVE  Stands(f \o u, p, g)
<1>1. /\ Len(f) \in Nat /\ Len(u) \in Nat /\ Len(g) \in Nat /\ Len(f \o u) = Len(f) + Len(u)
      /\ \A i \in 1..Len(f) : (f \o u)[i] = f[i]
  OBVIOUS
<1> DEFINE t == f \o u
<1> HIDE DEF t
<1>2. Len(t) = Len(f) + Len(u) /\ \A i \in 1..Len(f) : t[i] = f[i]
  BY <1>1 DEF t
<1>3. ASSUME NEW i \in 1..Len(g) PROVE t[p + i - 1] = g[i]
  <2>1. PICK j \in 1..Len(f) : j = p + i - 1
    <3>1. p + i - 1 \in 1..Len(f)
      BY <1>1 DEF Stands
    <3>2. QED BY <3>1
  <2>2. f[p + i - 1] = g[i]
    BY Zenon DEF Stands
  <2>3. QED BY <1>2, <2>1, <2>2, Zenon
<1>4. p + Len(g) - 1 <= Len(t)
  BY <1>1, <1>2 DEF Stands
<1>5. QED BY <1>3, <1>4, Zenon DEF Stands, t

LEMMA HeldLast ==
  ASSUME NEW X, NEW f \in Seq(X), NEW u \in Seq(X)
  PROVE  Stands(f \o u, Len(f) + 1, u)
<1>1. /\ Len(f) \in Nat /\ Len(u) \in Nat /\ Len(f \o u) = Len(f) + Len(u)
      /\ \A i \in 1..Len(f) + Len(u) : (f \o u)[i] = IF i <= Len(f) THEN f[i] ELSE u[i - Len(f)]
  BY ConcatProperties
<1> DEFINE t == f \o u
<1> HIDE DEF t
<1>2. /\ Len(t) = Len(f) + Len(u)
      /\ \A i \in 1..Len(f) + Len(u) : t[i] = IF i <= Len(f) THEN f[i] ELSE u[i - Len(f)]
  BY <1>1 DEF t
<1>3. ASSUME NEW i \in 1..Len(u) PROVE t[Len(f) + 1 + i - 1] = u[i]
  <2>1. PICK j \in 1..Len(f) + Len(u) : j = Len(f) + 1 + i - 1 /\ ~(j <= Len(f)) /\ j - Len(f) = i
    BY <1>1
  <2>2. t[j] = u[j - Len(f)]
    BY <1>2, <2>1
  <2>3. QED BY <2>1, <2>2, Zenon
<1>4. Stands(t, Len(f) + 1, u)
  BY <1>1, <1>2, <1>3 DEF Stands
<1>5. QED BY <1>4 DEF t

\* the members of ss stand in the text one after another, each up to its place
PlacedIn(text, ss, n, at) ==
  /\ \A i \in 0..n : at[i] \in Nat
  /\ at[0] = 0 /\ at[n] = Len(text)
  /\ \A i \in 1..n : at[i] = at[i - 1] + Len(ss[i]) /\ Stands(text, at[i - 1] + 1, ss[i])

LEMMA FlattenPlaces ==
  ASSUME NEW X, NEW ss \in Seq(Seq(X))
  PROVE  \E at : PlacedIn(FlattenSeq(ss), ss, Len(ss), at)
<1>1. PICK n \in Nat : n = Len(ss)
  OBVIOUS
<1>2. PICK f : Appended(n, ss, f) /\ FlattenSeq(ss) = f[n]
  BY <1>1, FlattenAt
<1>3. f[0] = <<>> /\ \A i \in 1..n : f[i] = f[i - 1] \o ss[i]
  BY <1>2, AppendedAt, Zenon
<1>4. \A i \in 1..n : ss[i] \in Seq(X)
  BY <1>1
<1>5. \A i \in 0..n : f[i] \in Seq(X)
  BY <1>2, <1>4, AppendedIsSeq, Zenon
<1>6. \A i \in 0..n : Len(f[i]) \in Nat
  <2>1. ASSUME NEW i \in 0..n PROVE Len(f[i]) \in Nat
    <3>1. f[i] \in Seq(X)
      BY <1>5
    <3>2. QED BY <3>1
  <2>2. QED BY <2>1
<1> DEFINE S == {m \in 0..n : \A i \in 1..m : Stands(f[m], Len(f[i - 1]) + 1, ss[i])}
<1>7. 0 \in S
  OBVIOUS
<1>8. ASSUME NEW m \in 0..(n - 1), m \in S PROVE m + 1 \in S
  <2>1. m + 1 \in 1..n /\ m + 1 - 1 = m /\ m + 1 \in 0..n /\ m \in 0..n
    BY <1>1
  <2>2. PICK k \in 1..n : k = m + 1 /\ k - 1 = m
    BY <2>1
  <2>3. f[k] = f[m] \o ss[k] /\ f[m] \in Seq(X) /\ ss[k] \in Seq(X)
    BY <1>3, <1>4, <1>5, <2>1, <2>2, Zenon
  <2>4. ASSUME NEW i \in 1..k PROVE Stands(f[k], Len(f[i - 1]) + 1, ss[i])
    <3>1. CASE i = k
      <4>1. Stands(f[m] \o ss[k], Len(f[m]) + 1, ss[k])
        BY <2>3, HeldLast
      <4>2. QED BY <2>2, <2>3, <3>1, <4>1, Zenon
    <3>2. CASE i # k
      <4>1. i \in 1..m /\ i \in 1..n /\ i - 1 \in 0..n
        BY <2>1, <2>2, <3>2
      <4>2. PICK p \in Nat \ {0} : p = Len(f[i - 1]) + 1
        BY <1>6, <4>1
      <4>3. Stands(f[m], p, ss[i]) /\ ss[i] \in Seq(X)
        BY <1>4, <1>8, <4>1, <4>2
      <4>4. Stands(f[m] \o ss[k], p, ss[i])
        BY <2>3, <4>3, HeldMore
      <4>5. QED BY <2>3, <4>2, <4>4, Zenon
    <3>3. QED BY <3>1, <3>2
  <2>5. QED BY <2>1, <2>2, <2>4
<1> HIDE DEF S
<1>9. 0..n \subseteq S
  BY <1>7, <1>8, UpTo
<1>10. \A i \in 1..n : Stands(f[n], Len(f[i - 1]) + 1, ss[i])
  <2>1. n \in S
    BY <1>9
  <2>2. QED BY <2>1 DEF S
<1> DEFINE at == [i \in 0..n |-> Len(f[i])]
<1>11. \A i \in 0..n : at[i] = Len(f[i])
  OBVIOUS
<1> HIDE DEF at
<1>12. 0 \in 0..n /\ n \in 0..n /\ Len(<<>>) = 0
  OBVIOUS
<1>13. ASSUME NEW i \in 1..n PROVE at[i] = at[i - 1] + Len(ss[i]) /\ Stands(f[n], at[i - 1] + 1, ss[i])
  <2>1. i \in 0..n /\ i - 1 \in 0..n
    OBVIOUS
  <2>2. PICK j \in 0..n : j = i - 1
    BY <2>1
  <2>3. f[i] = f[j] \o ss[i] /\ f[j] \in Seq(X) /\ ss[i] \in Seq(X)
    BY <1>3, <1>4, <1>5, <2>2, Zenon
  <2>4. Len(f[j] \o ss[i]) = Len(f[j]) + Len(ss[i])
    BY <2>3, ConcatProperties
  <2>5. QED BY <1>10, <1>11, <2>1, <2>2, <2>3, <2>4, Zenon
<1>14. at[0] = 0 /\ at[n] = Len(f[n])
  BY <1>3, <1>11, <1>12, Zenon
<1>15. \A i \in 0..n : at[i] \in Nat
  BY <1>6, <1>11, Zenon
<1>16. PlacedIn(f[n], ss, n, at)
  BY <1>13, <1>14, <1>15, Zenon DEF PlacedIn
<1>17. QED BY <1>1, <1>2, <1>16, Zenon

\* where the fields of a line stand
FieldsAt(text, s, n, fs, from, to) ==
  /\ \A j \in 1..n : /\ from[j] \in s..Len(text) /\ Stands(text, from[j], fs[j])
                     /\ to[j] = from[j] + Len(fs[j]) /\ to[j] <= Len(text)
  /\ \A j \in 1..(n - 1) : text[to[j]] = Comma /\ from[j + 1] = to[j] + 1
  /\ from[1] = s /\ text[to[n]] = NewLine

Pieces(fs) == [i \in 1..Len(fs) |-> IF i = 1 THEN fs[i] ELSE <<Comma>> \o fs[i]]

LEMMA CommaFirst ==
  ASSUME NEW f \in Text
  PROVE  /\ <<Comma>> \o f \in Text /\ Len(<<Comma>> \o f) = Len(f) + 1
         /\ (<<Comma>> \o f)[1] = Comma /\ Stands(<<Comma>> \o f, 2, f)
<1>1. <<Comma>> \in Seq(Letter) /\ Len(<<Comma>>) = 1 /\ <<Comma>>[1] = Comma /\ f \in Seq(Letter) /\ Len(f) \in Nat
  <2>1. <<Comma>> \in Seq(Letter) /\ Len(<<Comma>>) = 1 /\ <<Comma>>[1] = Comma
    BY MarksAre, OneOf
  <2>2. f \in Seq(Letter) /\ Len(f) \in Nat
    BY DEF Text
  <2>3. QED BY <2>1, <2>2
<1>2. <<Comma>> \o f \in Seq(Letter) /\ Len(<<Comma>> \o f) = Len(f) + 1 /\ (<<Comma>> \o f)[1] = Comma
  BY <1>1
<1>3. Stands(<<Comma>> \o f, Len(<<Comma>>) + 1, f)
  BY <1>1, HeldLast
<1>4. Len(<<Comma>>) + 1 = 2
  BY <1>1
<1>5. QED BY <1>2, <1>3, <1>4, Zenon DEF Text

LEMMA PiecesAre ==
  ASSUME NEW fs \in Seq(Text)
  PROVE  /\ Pieces(fs) \in Seq(Text) /\ Len(Pieces(fs)) = Len(fs)
         /\ Joined(fs, <<Comma>>) = FlattenSeq(Pieces(fs)) /\ Joined(fs, <<Comma>>) \in Text
<1> DEFINE ss == [i \in 1..Len(fs) |-> IF i = 1 THEN fs[i] ELSE <<Comma>> \o fs[i]]
<1>1. Len(fs) \in Nat /\ \A i \in 1..Len(fs) : fs[i] \in Text
  OBVIOUS
<1>2. \A i \in 1..Len(fs) : <<Comma>> \o fs[i] \in Text
  BY <1>1, CommaFirst
<1>3. ss \in [1..Len(fs) -> Text]
  BY <1>1, <1>2
<1>4. ss = Pieces(fs) /\ Joined(fs, <<Comma>>) = FlattenSeq(ss)
  BY DEF Pieces, Joined
<1> HIDE DEF ss
<1>5. ss \in Seq(Text) /\ Len(ss) = Len(fs)
  BY <1>1, <1>3
<1>6. FlattenSeq(ss) \in Text
  BY <1>5, FlattenIsSeq DEF Text
<1>7. QED BY <1>4, <1>5, <1>6, Zenon

LEMMA FieldsPlaced ==
  ASSUME NEW text \in Text, NEW s \in Nat \ {0}, NEW fs \in Seq(Text), NEW n \in Nat \ {0}, n = Len(fs),
         Stands(text, s, Joined(fs, <<Comma>>) \o <<NewLine>>)
  PROVE  \E from, to : /\ FieldsAt(text, s, n, fs, from, to)
                       /\ to[n] = s + Len(Joined(fs, <<Comma>>))
<1> DEFINE line == Joined(fs, <<Comma>>)
           ss == Pieces(fs)
<1>1. Len(text) \in Nat /\ \A j \in 1..n : fs[j] \in Text /\ Len(fs[j]) \in Nat
  <2>1. Len(text) \in Nat /\ \A j \in 1..n : fs[j] \in Seq(Letter)
    BY DEF Text
  <2>2. \A j \in 1..n : Len(fs[j]) \in Nat
    BY <2>1
  <2>3. QED BY <2>1, <2>2 DEF Text
<1>2. ss \in Seq(Text) /\ Len(ss) = n /\ line = FlattenSeq(ss) /\ line \in Text
  BY PiecesAre
<1>3. \A j \in 1..n : ss[j] = IF j = 1 THEN fs[j] ELSE <<Comma>> \o fs[j]
  BY DEF Pieces
<1>4. \A j \in 2..n : /\ Len(ss[j]) = Len(fs[j]) + 1 /\ ss[j][1] = Comma /\ Stands(ss[j], 2, fs[j])
  <2>1. ASSUME NEW j \in 2..n PROVE /\ Len(ss[j]) = Len(fs[j]) + 1 /\ ss[j][1] = Comma /\ Stands(ss[j], 2, fs[j])
    <3>1. j \in 1..n /\ j # 1
      OBVIOUS
    <3>2. PICK f \in Text : f = fs[j]
      BY <1>1, <3>1
    <3>3. ss[j] = <<Comma>> \o f
      BY <1>3, <3>1, <3>2, Zenon
    <3>4. QED BY <3>2, <3>3, CommaFirst, Zenon
  <2>2. QED BY <2>1
<1> HIDE DEF ss
<1>5. PICK at : PlacedIn(line, ss, n, at)
  <2>1. ss \in Seq(Seq(Letter))
    BY <1>2 DEF Text
  <2> HIDE DEF line
  <2>2. \E at : PlacedIn(FlattenSeq(ss), ss, Len(ss), at)
    BY <2>1, FlattenPlaces
  <2>3. QED BY <1>2, <2>2, Zenon
<1> HIDE DEF line
<1>6. Stands(text, s, line) /\ s + Len(line) <= Len(text) /\ text[s + Len(line)] = NewLine /\ Len(line) \in Nat
  <2>1. Stands(text, s, line \o <<NewLine>>)
    BY DEF line
  <2>2. /\ Len(line \o <<NewLine>>) = Len(line) + 1 /\ (line \o <<NewLine>>)[Len(line) + 1] = NewLine
        /\ \A i \in 1..Len(line) : (line \o <<NewLine>>)[i] = line[i]
    BY <1>2, MarksAre, LetterAdded
  <2> DEFINE more == line \o <<NewLine>>
  <2> HIDE DEF more
  <2>3. /\ Stands(text, s, more) /\ Len(more) = Len(line) + 1 /\ more[Len(line) + 1] = NewLine
        /\ \A i \in 1..Len(line) : more[i] = line[i]
    BY <2>1, <2>2, Zenon DEF more
  <2>4. Len(line) \in Nat
    BY <1>2 DEF Text
  <2>5. \A i \in 1..(Len(line) + 1) : text[s + i - 1] = more[i]
    BY <2>3, Zenon DEF Stands
  <2>6. s + Len(line) <= Len(text)
    BY <2>3, <2>4 DEF Stands
  <2>7. \A i \in 1..Len(line) : text[s + i - 1] = line[i]
    BY <2>3, <2>4, <2>5
  <2>8. text[s + Len(line)] = NewLine
    <3>1. Len(line) + 1 \in 1..(Len(line) + 1) /\ s + (Len(line) + 1) - 1 = s + Len(line)
      BY <2>4
    <3>2. QED BY <2>3, <2>5, <3>1, Zenon
  <2>9. QED BY <1>1, <2>4, <2>6, <2>7, <2>8 DEF Stands
<1> DEFINE from == [j \in 1..n |-> s + at[j - 1] + (IF j = 1 THEN 0 ELSE 1)]
           to == [j \in 1..n |-> s + at[j]]
<1>7. \A i \in 0..n : at[i] \in Nat
  BY Zenon, <1>5 DEF PlacedIn
<1>8. ASSUME NEW j \in 1..n
      PROVE  /\ at[j] = at[j - 1] + Len(ss[j]) /\ at[j - 1] \in Nat /\ at[j] \in Nat
             /\ Stands(text, s + at[j - 1], ss[j])
  <2>1. at[j] = at[j - 1] + Len(ss[j]) /\ Stands(line, at[j - 1] + 1, ss[j])
    BY <1>5, Zenon DEF PlacedIn
  <2>2. j \in 0..n /\ j - 1 \in 0..n
    OBVIOUS
  <2>3. at[j - 1] \in Nat /\ at[j] \in Nat
    BY <1>7, <2>2, Zenon
  <2>4. Len(ss[j]) \in Nat
    <3>1. ss[j] \in Seq(Letter)
      BY <1>2 DEF Text
    <3>2. QED BY <3>1
  <2>5. PICK q \in Nat \ {0}, g \in {ss[j]} : q = at[j - 1] + 1 /\ g = ss[j] /\ s + q - 1 = s + at[j - 1]
    BY <2>3
  <2>6. Stands(text, s + q - 1, g)
    BY <1>1, <1>6, <2>1, <2>4, <2>5, HeldWithin
  <2>7. QED BY <2>1, <2>3, <2>5, <2>6, Zenon
<1>9. ASSUME NEW j \in 2..n
      PROVE  /\ text[s + at[j - 1]] = Comma /\ Stands(text, s + at[j - 1] + 1, fs[j])
  <2>1. j \in 1..n
    OBVIOUS
  <2>2. PICK p \in Nat \ {0} : p = s + at[j - 1]
    BY <1>8, <2>1
  <2>3. Stands(text, p, ss[j]) /\ Stands(ss[j], 2, fs[j]) /\ ss[j][1] = Comma /\ Len(ss[j]) = Len(fs[j]) + 1
    BY <1>4, <1>8, <2>1, <2>2, Zenon
  <2>4. Len(fs[j]) \in Nat /\ Len(ss[j]) \in Nat /\ 1 \in 1..Len(ss[j]) /\ p + 1 - 1 = p /\ p + 2 - 1 = p + 1
    BY <1>1, <2>1, <2>3
  <2>5. text[p] = Comma
    BY <2>3, <2>4, Zenon DEF Stands
  <2>6. Stands(text, p + 2 - 1, fs[j])
    <3>1. PICK g, h : g = ss[j] /\ h = fs[j]
      OBVIOUS
    <3>2. 2 \in Nat \ {0}
      OBVIOUS
    <3>3. Stands(text, p + 2 - 1, h)
      BY <1>1, <2>3, <2>4, <3>1, <3>2, HeldWithin
    <3>4. QED BY <3>1, <3>3
  <2>7. QED BY <2>2, <2>4, <2>5, <2>6, Zenon
<1>10. ASSUME NEW j \in 1..n
       PROVE  /\ Stands(text, from[j], fs[j]) /\ from[j] \in Nat /\ from[j] >= s
              /\ to[j] = from[j] + Len(fs[j]) /\ to[j] = s + at[j]
  <2>1. to[j] = s + at[j] /\ from[j] = s + at[j - 1] + (IF j = 1 THEN 0 ELSE 1)
    OBVIOUS
  <2> HIDE DEF from, to
  <2>2. CASE j = 1
    <3>1. from[j] = s + at[j - 1] /\ from[j] \in Nat /\ from[j] >= s
      BY <1>8, <2>1, <2>2
    <3>2. ss[j] = fs[j]
      BY <1>3, <2>2
    <3>3. Stands(text, from[j], fs[j])
      BY <1>8, <3>1, <3>2, Zenon
    <3>4. to[j] = from[j] + Len(fs[j])
      BY <1>1, <1>8, <2>1, <3>1, <3>2
    <3>5. QED BY <2>1, <3>1, <3>3, <3>4
  <2>3. CASE j # 1
    <3>1. j \in 2..n
      BY <2>3
    <3>2. from[j] = s + at[j - 1] + 1 /\ from[j] \in Nat /\ from[j] >= s
      BY <1>8, <2>1, <2>3
    <3>3. Stands(text, from[j], fs[j])
      BY <1>9, <3>1, <3>2, Zenon
    <3>4. Len(ss[j]) = Len(fs[j]) + 1
      BY <1>4, <3>1
    <3>5. to[j] = from[j] + Len(fs[j])
      <4>1. PICK a \in Nat, b \in Nat : a = at[j - 1] /\ b = Len(fs[j])
        BY <1>1, <1>8
      <4>2. at[j] = a + (b + 1)
        BY <1>8, <3>4, <4>1, Zenon
      <4>3. from[j] = s + a + 1 /\ to[j] = s + (a + (b + 1))
        BY <2>1, <3>2, <4>1, <4>2, Zenon
      <4>4. s + (a + (b + 1)) = s + a + 1 + b
        OBVIOUS
      <4>5. QED BY <4>1, <4>3, <4>4, Zenon
    <3>6. QED BY <2>1, <3>2, <3>3, <3>5
  <2>4. QED BY <2>2, <2>3
<1>11. at[0] = 0 /\ at[n] = Len(line)
  BY <1>5, Zenon DEF PlacedIn
<1>12. from[1] = s /\ to[n] = s + Len(line)
  <2>1. 1 \in 1..n /\ n \in 1..n /\ 1 - 1 = 0
    OBVIOUS
  <2>2. QED BY <1>11, <2>1
<1>13. ASSUME NEW j \in 1..(n - 1) PROVE text[to[j]] = Comma /\ from[j + 1] = to[j] + 1
  <2>1. j + 1 \in 2..n /\ j + 1 \in 1..n /\ j \in 1..n /\ j + 1 - 1 = j /\ j + 1 # 1
    OBVIOUS
  <2>2. to[j] = s + at[j] /\ from[j + 1] = s + at[j] + 1
    BY <2>1
  <2> HIDE DEF from, to
  <2>3. PICK i \in 2..n : i = j + 1 /\ i - 1 = j
    BY <2>1
  <2>4. text[s + at[j]] = Comma
    BY <1>9, <2>3
  <2>5. QED BY <2>2, <2>4, Zenon
<1> HIDE DEF from, to
<1>14. ASSUME NEW j \in 1..n PROVE to[j] <= Len(text) /\ from[j] \in s..Len(text)
  <2>1. PICK a \in Nat : a = at[j] /\ a <= Len(line)
    <3> DEFINE T == {k \in 0..n : at[k] <= at[n]}
               S == {k \in 0..n : at[n - k] <= at[n]}
    <3>1. 0 \in S
      <4>1. n - 0 = n /\ n \in 0..n /\ 0 \in 0..n
        OBVIOUS
      <4>2. at[n] <= at[n]
        BY <1>7, <4>1
      <4>3. QED BY <4>1, <4>2
    <3>2. ASSUME NEW k \in 0..(n - 1), k \in S PROVE k + 1 \in S
      <4>1. PICK m \in 1..n : m = n - k /\ m - 1 = n - (k + 1) /\ k + 1 \in 0..n
        <5>1. n - k \in 1..n /\ n - k - 1 = n - (k + 1) /\ k + 1 \in 0..n
          OBVIOUS
        <5>2. QED BY <5>1
      <4>2. at[m] <= at[n]
        BY <3>2, <4>1
      <4>3. at[m] = at[m - 1] + Len(ss[m]) /\ at[m - 1] \in Nat /\ at[m] \in Nat
        BY <1>8
      <4>4. Len(ss[m]) \in Nat
        <5>1. ss[m] \in Seq(Letter)
          BY <1>2 DEF Text
        <5>2. QED BY <5>1
      <4>5. at[n] \in Nat
        BY <1>6, <1>11
      <4>6. at[m - 1] <= at[n]
        BY <4>2, <4>3, <4>4, <4>5
      <4>7. QED BY <4>1, <4>6
    <3> HIDE DEF S
    <3>3. 0..n \subseteq S
      BY <3>1, <3>2, UpTo
    <3>4. n - j \in S /\ n - (n - j) = j
      BY <3>3
    <3>5. at[j] <= at[n]
      BY <3>4, Zenon DEF S
    <3>6. QED BY <1>8, <1>11, <3>5
  <2>2. to[j] = s + a
    BY <1>10, <2>1
  <2>3. to[j] <= Len(text)
    BY <1>1, <1>6, <2>1, <2>2
  <2>4. from[j] + Len(fs[j]) <= Len(text) /\ from[j] \in Nat /\ from[j] >= s /\ Len(fs[j]) \in Nat
    BY <1>1, <1>10, <2>3
  <2>5. QED BY <1>1, <2>3, <2>4
<1>15. FieldsAt(text, s, n, fs, from, to)
  BY <1>6, <1>10, <1>12, <1>13, <1>14, Zenon DEF FieldsAt
<1>16. QED BY <1>12, <1>15 DEF line

-----------------------------------------------------------------------------
(* The lines of a text, one after another.                                   *)

LinesAt(text, p, f) == IF p > Len(text) THEN <<>> ELSE <<GetLine(text, p).values>> \o f[GetLine(text, p).next]
LinesFrom(text, s, f) == f = [p \in s..(Len(text) + 2) |-> LinesAt(text, p, f)]

LEMMA LineEnds ==
  ASSUME NEW text \in Text, NEW p \in 1..Len(text)
  PROVE  GetLine(text, p).next \in (p + 1)..(Len(text) + 2)
<1>0. Len(text) \in Nat
  BY DEF Text
<1>1. p \in 1..(Len(text) + 2) /\ p \in p..(Len(text) + 2) /\ p <= Len(text)
  BY <1>0
<1>2. PICK f : GetLine(text, p) = f[p] /\ \A q \in p..(Len(text) + 2) : f[q] = LineAt(text, q, f)
  BY <1>1, LineOf
<1>3. \A q \in p..(Len(text) + 2) : LineTo(text, q, f[q])
  BY <1>1, <1>2, LineTyped
<1>4. LineTo(text, p, f[p])
  BY <1>1, <1>3, Zenon
<1>5. PICK b \in p..(Len(text) + 2) : b = GetLine(text, p).next /\ p < b
  BY <1>1, <1>2, <1>4, Zenon DEF LineTo
<1>6. b \in (p + 1)..(Len(text) + 2)
  BY <1>0, <1>5
<1>7. QED BY <1>5, <1>6, Zenon

LEMMA LinesSame ==
  ASSUME NEW text \in Text, NEW p \in 1..(Len(text) + 2), NEW f, NEW g,
         AgreeOn(p + 1, Len(text) + 2, f, g)
  PROVE  LinesAt(text, p, f) = LinesAt(text, p, g)
<1>1. CASE p > Len(text)
  BY <1>1 DEF LinesAt
<1>2. CASE ~(p > Len(text))
  <2>1. p \in 1..Len(text)
    BY <1>2
  <2>2. f[GetLine(text, p).next] = g[GetLine(text, p).next]
    BY <2>1, LineEnds, Zenon DEF AgreeOn
  <2>3. QED BY <2>2, Zenon DEF LinesAt
<1>3. QED BY <1>1, <1>2

LEMMA LinesSolved ==
  ASSUME NEW text \in Text
  PROVE  \E f : LinesFrom(text, 1, f)
<1>1. PICK L \in Nat : L = Len(text) + 2 /\ L >= 2
  BY DEF Text
<1> DEFINE S == {k \in 0..(L - 1) : \E f : LinesFrom(text, L - k, f)}
<1>2. 0 \in S
  <2> DEFINE f == [p \in L..L |-> <<>>]
  <2>1. ASSUME NEW p \in L..L PROVE f[p] = LinesAt(text, p, f)
    <3>1. p > Len(text)
      BY <1>1, <2>1 DEF Text
    <3>2. LinesAt(text, p, f) = <<>>
      BY <3>1, Zenon DEF LinesAt
    <3>3. f[p] = <<>>
      OBVIOUS
    <3>4. QED BY <3>2, <3>3, Zenon
  <2>2. f = [p \in L..L |-> f[p]]
    OBVIOUS
  <2> HIDE DEF f
  <2>3. f = [p \in L..L |-> LinesAt(text, p, f)]
    BY <2>1, <2>2, Zenon
  <2>4. LinesFrom(text, L, f)
    BY <1>1, <2>3, Zenon DEF LinesFrom
  <2>5. L - 0 = L /\ 0 \in 0..(L - 1)
    BY <1>1
  <2>6. QED BY <2>4, <2>5, Zenon
<1>3. ASSUME NEW k \in 0..(L - 1 - 1), k \in S PROVE k + 1 \in S
  <2>1. PICK f : LinesFrom(text, L - k, f)
    BY <1>3
  <2>2. PICK m \in 1..L : m = L - (k + 1) /\ m + 1 = L - k
    <3>1. L - (k + 1) \in 1..L /\ L - (k + 1) + 1 = L - k
      BY <1>1
    <3>2. QED BY <3>1
  <2> DEFINE g == [p \in m..L |-> IF p = m THEN LinesAt(text, m, f) ELSE f[p]]
  <2>3. \A p \in (m + 1)..L : g[p] = f[p]
    <3>1. \A p \in (m + 1)..L : p \in m..L /\ p # m
      BY <1>1, <2>2
    <3>2. QED BY <3>1, Zenon
  <2>4. g = [p \in m..L |-> g[p]] /\ g[m] = LinesAt(text, m, f)
    <3>1. m \in m..L
      BY <1>1, <2>2
    <3>2. QED BY <3>1, Zenon
  <2> HIDE DEF g
  <2>5. ASSUME NEW p \in m..L PROVE LinesAt(text, p, f) = LinesAt(text, p, g)
    <3>1. AgreeOn(p + 1, Len(text) + 2, f, g)
      BY <1>1, <2>3 DEF AgreeOn
    <3>2. p \in 1..(Len(text) + 2)
      BY <1>1
    <3>3. QED BY <3>1, <3>2, LinesSame
  <2>6. ASSUME NEW p \in m..L PROVE g[p] = LinesAt(text, p, g)
    <3>1. CASE p = m
      BY <2>4, <2>5, <3>1
    <3>2. CASE p # m
      <4>1. p \in (m + 1)..L
        BY <1>1, <3>2
      <4>2. f = [q \in (m + 1)..L |-> LinesAt(text, q, f)]
        BY <1>1, <2>1, <2>2, Zenon DEF LinesFrom
      <4>3. f[p] = LinesAt(text, p, f)
        BY <4>1, <4>2, Zenon
      <4>4. QED BY <2>3, <2>5, <4>1, <4>3, Zenon
    <3>3. QED BY <3>1, <3>2
  <2>7. g = [p \in m..L |-> LinesAt(text, p, g)]
    BY <2>4, <2>6, Zenon
  <2>8. LinesFrom(text, m, g)
    BY <1>1, <2>7, Zenon DEF LinesFrom
  <2>9. k + 1 \in 0..(L - 1)
    BY <1>1
  <2>10. QED BY <2>2, <2>8, <2>9, Zenon
<1> HIDE DEF S
<1>4. 0..(L - 1) \subseteq S
  <2>1. PICK n \in Nat : n = L - 1 /\ n - 1 = L - 1 - 1
    BY <1>1
  <2>2. 0..n \subseteq S
    BY <1>2, <1>3, <2>1, UpTo
  <2>3. QED BY <2>1, <2>2
<1>5. L - 1 \in S /\ L - (L - 1) = 1
  BY <1>1, <1>4
<1>6. QED BY <1>5, Zenon DEF S

LEMMA LinesOf ==
  ASSUME NEW text \in Text
  PROVE  \E f : CsvLines(text) = f[1] /\ \A p \in 1..(Len(text) + 2) : f[p] = LinesAt(text, p, f)
<1> DEFINE G == CHOOSE f : LinesFrom(text, 1, f)
<1>1. LinesFrom(text, 1, G)
  BY LinesSolved
<1>2. CsvLines(text) = G[1]
  BY Zenon DEF CsvLines, LinesFrom, LinesAt
<1> HIDE DEF G
<1>3. \A p \in 1..(Len(text) + 2) : G[p] = LinesAt(text, p, G)
  BY <1>1, Zenon DEF LinesFrom
<1>4. QED BY <1>2, <1>3

\* lines that follow on each other are read in turn
LEMMA LinesRead ==
  ASSUME NEW V, NEW text \in Text, NEW n \in Nat, NEW rows \in Seq(V), Len(rows) = n, NEW start,
         \A i \in 1..n : /\ start[i] \in 1..Len(text)
                         /\ GetLine(text, start[i]) = [values |-> rows[i], next |-> start[i + 1]],
         start[1] = 1, start[n + 1] = Len(text) + 1
  PROVE  CsvLines(text) = rows
<1>0. Len(text) \in Nat
  BY DEF Text
<1>1. PICK f : CsvLines(text) = f[1] /\ \A p \in 1..(Len(text) + 2) : f[p] = LinesAt(text, p, f)
  BY LinesOf
<1> DEFINE S == {k \in 0..n : f[start[n + 1 - k]] = SubSeq(rows, n + 1 - k, n)}
<1>2. 0 \in S
  <2>1. Len(text) + 1 \in 1..(Len(text) + 2) /\ Len(text) + 1 > Len(text) /\ n + 1 - 0 = n + 1 /\ 0 \in 0..n
    BY <1>0
  <2>2. f[Len(text) + 1] = <<>>
    BY <1>1, <2>1, Zenon DEF LinesAt
  <2>3. SubSeq(rows, n + 1, n) = <<>>
    <3>1. n + 1 \in Int /\ n \in Int /\ n < n + 1
      OBVIOUS
    <3>2. QED BY <3>1, SubSeqEmpty
  <2>4. QED BY <2>1, <2>2, <2>3, Zenon
<1>3. ASSUME NEW k \in 0..(n - 1), k \in S PROVE k + 1 \in S
  <2>1. PICK j \in 1..n : j = n + 1 - (k + 1) /\ j + 1 = n + 1 - k /\ k + 1 \in 0..n
    <3>1. n + 1 - (k + 1) \in 1..n /\ n + 1 - (k + 1) + 1 = n + 1 - k /\ k + 1 \in 0..n
      OBVIOUS
    <3>2. QED BY <3>1
  <2>2. f[start[j + 1]] = SubSeq(rows, j + 1, n)
    BY <1>3, <2>1
  <2>3. PICK p \in 1..Len(text) : p = start[j] /\ GetLine(text, p) = [values |-> rows[j], next |-> start[j + 1]]
    OBVIOUS
  <2>4. p \in 1..(Len(text) + 2) /\ ~(p > Len(text))
    BY <1>0
  <2>5. f[p] = <<GetLine(text, p).values>> \o f[GetLine(text, p).next]
    BY <1>1, <2>4, Zenon DEF LinesAt
  <2>6. GetLine(text, p).values = rows[j] /\ GetLine(text, p).next = start[j + 1]
    BY <2>3
  <2>7. f[p] = <<rows[j]>> \o SubSeq(rows, j + 1, n)
    BY <2>2, <2>5, <2>6, Zenon
  <2>8. SubSeq(rows, j, n) = <<rows[j]>> \o SubSeq(rows, j + 1, n)
    <3>1. j \in 1..Len(rows) /\ n \in j..Len(rows)
      OBVIOUS
    <3>2. QED BY <3>1, SubSeqRecursiveFirst
  <2>9. QED BY <2>1, <2>3, <2>7, <2>8, Zenon
<1> HIDE DEF S
<1>4. 0..n \subseteq S
  BY <1>2, <1>3, UpTo
<1>5. n \in S /\ n + 1 - n = 1
  BY <1>4
<1>6. f[start[1]] = SubSeq(rows, 1, n)
  BY <1>5, Zenon DEF S
<1>7. QED BY <1>1, <1>6, SubSeqFull

-----------------------------------------------------------------------------
(* An export: the line of names, and the rows' lines.                        *)

LEMMA CsvRowRead ==
  ASSUME NoText, NEW text \in Text, NEW s \in Nat \ {0}, NEW vals \in Seq(Value), vals # <<>>,
         Stands(text, s, GetCsvLine(vals) \o <<NewLine>>)
  PROVE  /\ s \in 1..Len(text)
         /\ GetLine(text, s) = [values |-> [j \in 1..Len(vals) |-> Doubled(vals[j])],
                                next |-> s + Len(GetCsvLine(vals)) + 1]
<1> DEFINE n == Len(vals)
           fs == [j \in 1..n |-> CsvValue(vals[j])]
           vs == [j \in 1..n |-> Doubled(vals[j])]
<1>1. n \in Nat \ {0} /\ \A j \in 1..n : vals[j] \in Value
  BY EmptySeq, Zenon, ElementOfSeq
<1>2. ASSUME NEW j \in 1..n PROVE fs[j] \in Text /\ Field(fs[j], vs[j]) /\ vs[j] \in Value
  <2>1. vals[j] \in Value
    BY <1>1
  <2>2. CsvValue(vals[j]) \in Text /\ Field(CsvValue(vals[j]), Doubled(vals[j])) /\ Doubled(vals[j]) \in Value
    BY <2>1, WrittenAs, DoubledIs
  <2>3. fs[j] = CsvValue(vals[j]) /\ vs[j] = Doubled(vals[j])
    OBVIOUS
  <2>4. QED BY <2>2, <2>3, Zenon
<1>3. GetCsvLine(vals) = Joined(fs, <<Comma>>)
  BY Zenon DEF GetCsvLine
<1>4. fs \in [1..n -> Text] /\ vs \in [1..n -> Value]
  <2>1. fs = [j \in 1..n |-> fs[j]] /\ vs = [j \in 1..n |-> vs[j]]
    OBVIOUS
  <2> HIDE DEF fs, vs
  <2>2. QED BY <1>2, <2>1
<1> HIDE DEF fs, vs, n
<1>5. fs \in Seq(Text) /\ Len(fs) = n /\ vs \in Seq(Value) /\ Len(vs) = n
  BY <1>1, <1>4
<1>6. PICK from, to : FieldsAt(text, s, n, fs, from, to) /\ to[n] = s + Len(Joined(fs, <<Comma>>))
  <2>1. Stands(text, s, Joined(fs, <<Comma>>) \o <<NewLine>>)
    BY <1>3, Zenon
  <2>2. QED BY <1>1, <1>5, <2>1, FieldsPlaced
<1>7. RowAt(text, s, n, fs, vs, from, to)
  BY <1>2, <1>6, Zenon DEF RowAt, FieldsAt
<1>8. s \in 1..Len(text)
  <2>1. 1 \in 1..n
    BY <1>1
  <2>2. s \in s..Len(text)
    BY <1>6, <2>1, Zenon DEF FieldsAt
  <2>3. QED BY <2>2
<1>9. GetLine(text, s) = [values |-> vs, next |-> to[n] + 1]
  BY <1>1, <1>5, <1>7, <1>8, RowRead
<1>10. GetLine(text, s) = [values |-> vs, next |-> s + Len(GetCsvLine(vals)) + 1]
  BY <1>3, <1>6, <1>9, Zenon
<1>11. QED BY <1>8, <1>10, Zenon DEF vs, n

\* a name without quotation marks is read as it is
Unquoted(text) == \A i \in 1..Len(text) : text[i] # Quote

LEMMA UnquotedRead ==
  ASSUME NEW text \in Text, Unquoted(text)
  PROVE  Even(text) /\ Uncut(text) /\ Unescaped(text) = text
<1> DEFINE S == {t \in Text : Unquoted(t) => Even(t) /\ Uncut(t) /\ Unescaped(t) = t}
<1>1. <<>> \in S
  <2>1. <<>> \in Text /\ Len(<<>>) = 0
    BY DEF Text
  <2>2. Unescaped(<<>>) = <<>>
    <3>1. [i \in 1..Len(<<>>) |-> ReadAs(<<>>, i)] = <<>>
      OBVIOUS
    <3>2. QED BY <2>1, <3>1, FlattenEmpty, UnescapedIs, Zenon
  <2>3. Even(<<>>)
    BY NoQuotes DEF Even
  <2>4. Uncut(<<>>)
    BY DEF Uncut
  <2>5. QED BY <2>1, <2>2, <2>3, <2>4
<1>2. ASSUME NEW t \in Text, NEW d \in Letter, t \in S PROVE t \o <<d>> \in S
  <2> DEFINE more == t \o <<d>>
  <2>1. /\ more \in Text /\ Len(more) = Len(t) + 1 /\ more[Len(t) + 1] = d /\ Len(t) \in Nat
        /\ \A i \in 1..Len(t) : more[i] = t[i]
    BY LetterAdded DEF Text
  <2>2. Uncut(t) /\ Even(t) => Uncut(more)
    BY UncutMore
  <2>3. QuotesAtEnd(more) = IF d = Quote THEN QuotesAtEnd(t) + 1 ELSE 0
    BY QuotesMore
  <2>4. Unescaped(more) = Unescaped(t) \o (IF d = Quote /\ QuotesAtEnd(more) % 2 = 0 THEN <<>> ELSE <<d>>)
    BY UnescapedMore
  <2> HIDE DEF more
  <2>5. ASSUME Unquoted(more) PROVE Even(more) /\ Uncut(more) /\ Unescaped(more) = more
    <3>1. d # Quote /\ Unquoted(t)
      <4>1. Len(t) + 1 \in 1..Len(more) /\ \A i \in 1..Len(t) : i \in 1..Len(more)
        BY <2>1
      <4>2. QED BY <2>1, <2>5, <4>1, Zenon DEF Unquoted
    <3>2. Even(t) /\ Uncut(t) /\ Unescaped(t) = t
      BY <1>2, <3>1
    <3>3. Even(more)
      BY <2>3, <3>1 DEF Even
    <3>4. Unescaped(more) = t \o <<d>>
      BY <2>4, <3>1, <3>2, Zenon
    <3>5. QED BY <2>2, <3>2, <3>3, <3>4, Zenon DEF more
  <2>6. QED BY <2>1, <2>5 DEF more
<1> HIDE DEF S
<1>3. Text \subseteq S
  BY <1>1, <1>2, EveryText, Zenon
<1>4. QED BY <1>3 DEF S

InQuotes(text) == <<Quote>> \o text \o <<Quote>>

Associate(a, b, c) == (a \o b) \o c = a \o (b \o c)

LEMMA Associative ==
  ASSUME NEW X, NEW a \in Seq(X), NEW b \in Seq(X), NEW c \in Seq(X)
  PROVE  Associate(a, b, c)
  BY ConcatAssociative DEF Associate

Regroup(q, c, f, t) == (q \o (f \o ((q \o (c \o q)) \o t))) \o q = (q \o f \o q) \o (c \o (q \o t \o q))

LEMMA Regrouped ==
  ASSUME NEW X, NEW q \in Seq(X), NEW c \in Seq(X), NEW f \in Seq(X), NEW t \in Seq(X)
  PROVE  Regroup(q, c, f, t)
<1>1. PICK a \in Seq(X) : a = q \o t
  BY ConcatProperties
<1>2. PICK b \in Seq(X) : b = c \o a
  BY ConcatProperties
<1>3. PICK d \in Seq(X) : d = q \o f
  BY ConcatProperties
<1>4. PICK e \in Seq(X) : e = c \o q
  BY ConcatProperties
<1>5. PICK h \in Seq(X) : h = d \o q
  BY ConcatProperties
<1>6. (q \o e) \o t = q \o b
  <2>1. Associate(q, e, t)
    BY <1>1, <1>2, <1>3, <1>4, <1>5, Associative
  <2>2. Associate(c, q, t)
    BY <1>1, <1>2, <1>3, <1>4, <1>5, Associative
  <2>3. QED BY <1>1, <1>2, <1>4, <2>1, <2>2, Zenon DEF Associate
<1>7. PICK k \in Seq(X) : k = q \o b
  BY ConcatProperties
<1>8. q \o (f \o k) = h \o b
  <2>1. Associate(q, f, k)
    BY <1>1, <1>2, <1>3, <1>4, <1>5, <1>7, Associative
  <2>2. Associate(d, q, b)
    BY <1>1, <1>2, <1>3, <1>4, <1>5, <1>7, Associative
  <2>3. QED BY <1>3, <1>5, <1>7, <2>1, <2>2, Zenon DEF Associate
<1>9. (h \o b) \o q = h \o (c \o (a \o q))
  <2>1. Associate(h, b, q)
    BY <1>1, <1>2, <1>3, <1>4, <1>5, <1>7, Associative
  <2>2. Associate(c, a, q)
    BY <1>1, <1>2, <1>3, <1>4, <1>5, <1>7, Associative
  <2>3. QED BY <1>2, <2>1, <2>2, Zenon DEF Associate
<1>10. QED BY <1>1, <1>3, <1>4, <1>5, <1>6, <1>7, <1>8, <1>9, Zenon DEF Regroup

LEMMA InQuotesIs ==
  ASSUME NEW text \in Text, Unquoted(text)
  PROVE  InQuotes(text) \in Text /\ Field(InQuotes(text), text)
<1>1. <<Quote>> \in Seq(Letter) /\ text \in Seq(Letter)
  BY MarksAre, OneOf DEF Text
<1>2. <<Quote>> \o text \in Seq(Letter)
  BY <1>1, ConcatProperties
<1>3. InQuotes(text) \in Text
  BY <1>1, <1>2, ConcatProperties DEF InQuotes, Text
<1>4. QED BY <1>3, UnquotedRead, Zenon DEF Field, InQuotes

\* the line of names is one of fields in quotation marks
LEMMA HeadLineIs ==
  ASSUME NEW cols \in Seq(Text), cols # <<>>, \A i \in 1..Len(cols) : Unquoted(cols[i])
  PROVE  HeadLine(cols) = Joined([i \in 1..Len(cols) |-> InQuotes(cols[i])], <<Comma>>) \o <<NewLine>>
<1> DEFINE n == Len(cols)
           q == <<Quote>>
           c == <<Comma>>
           sep == <<Quote, Comma, Quote>>
           as == [i \in 1..n |-> IF i = 1 THEN cols[i] ELSE sep \o cols[i]]
           fs == [i \in 1..n |-> InQuotes(cols[i])]
           bs == Pieces(fs)
<1>1. n \in Nat \ {0} /\ \A i \in 1..n : cols[i] \in Text
  BY EmptySeq, ElementOfSeq, Zenon
<1>2. q \in Text /\ c \in Text /\ sep \in Text /\ sep = q \o (c \o q)
  <2>1. Quote \in Letter /\ Comma \in Letter
    BY MarksAre
  <2>2. q \in Seq(Letter) /\ c \in Seq(Letter) /\ sep \in Seq(Letter)
    BY <2>1
  <2>3. c \o q = <<Comma, Quote>>
    BY <2>1, TwoOf
  <2>4. PICK r \in Seq(Letter) : r = q \o <<Comma, Quote>>
    BY <2>1, TwoOf, <2>2, ConcatProperties
  <2>5. /\ Len(r) = 3 /\ r[1] = Quote /\ r[2] = Comma /\ r[3] = Quote
    <3>1. /\ Len(q) = 1 /\ q[1] = Quote /\ <<Comma, Quote>> \in Seq(Letter) /\ Len(<<Comma, Quote>>) = 2
          /\ <<Comma, Quote>>[1] = Comma /\ <<Comma, Quote>>[2] = Quote
      BY <2>1
    <3> DEFINE d == <<Comma, Quote>>
    <3> HIDE DEF q, d
    <3>2. /\ Len(q) = 1 /\ q[1] = Quote /\ d \in Seq(Letter) /\ Len(d) = 2 /\ d[1] = Comma /\ d[2] = Quote
          /\ q \in Seq(Letter) /\ r = q \o d
      BY <2>2, <2>4, <3>1, Zenon DEF d
    <3>3. /\ Len(q \o d) = 3 /\ (q \o d)[1] = q[1] /\ (q \o d)[2] = d[1] /\ (q \o d)[3] = d[2]
      <4>1. /\ Len(q \o d) = Len(q) + Len(d)
            /\ \A i \in 1..(Len(q) + Len(d)) : (q \o d)[i] = IF i <= Len(q) THEN q[i] ELSE d[i - Len(q)]
        BY <3>2, ConcatProperties
      <4>2. QED BY <3>2, <4>1
    <3>4. QED BY <3>2, <3>3, Zenon
  <2>6. sep = r
    <3>1. Len(sep) = 3 /\ sep[1] = Quote /\ sep[2] = Comma /\ sep[3] = Quote
      OBVIOUS
    <3> HIDE DEF sep
    <3>2. \A i \in 1..3 : i = 1 \/ i = 2 \/ i = 3
      OBVIOUS
    <3>3. \A i \in 1..3 : sep[i] = r[i]
      BY <2>5, <3>1, <3>2, Zenon
    <3>4. QED BY <2>2, <2>5, <3>1, <3>3, SeqEqual
  <2>7. QED BY <2>2, <2>3, <2>4, <2>6, Zenon DEF Text
<1>3. \A i \in 1..n : InQuotes(cols[i]) \in Text
  BY <1>1, InQuotesIs
<1>4. fs \in Seq(Text) /\ Len(fs) = n
  <2>1. fs \in [1..n -> Text]
    BY <1>3
  <2> HIDE DEF fs, n
  <2>2. QED BY <1>1, <2>1
<1>5. bs \in Seq(Text) /\ Len(bs) = n /\ Joined(fs, c) = FlattenSeq(bs)
  <2> HIDE DEF fs
  <2>1. QED BY <1>4, PiecesAre
<1>6. as \in Seq(Text) /\ Len(as) = n /\ Joined(cols, sep) = FlattenSeq(as)
  <2> HIDE DEF sep
  <2>1. \A i \in 1..n : sep \o cols[i] \in Text
    BY <1>1, <1>2, ConcatProperties DEF Text
  <2>2. as \in [1..n -> Text]
    BY <1>1, <2>1
  <2>3. Joined(cols, sep) = FlattenSeq(as)
    BY DEF Joined
  <2> HIDE DEF as, n
  <2>4. as \in Seq(Text) /\ Len(as) = n
    BY <1>1, <2>2
  <2>5. QED BY <2>3, <2>4, Zenon
<1>7. \A i \in 1..n : /\ as[i] = IF i = 1 THEN cols[i] ELSE sep \o cols[i]
                      /\ bs[i] = IF i = 1 THEN InQuotes(cols[i]) ELSE c \o InQuotes(cols[i])
  <2>1. \A i \in 1..n : fs[i] = InQuotes(cols[i])
    OBVIOUS
  <2>2. \A i \in 1..n : as[i] = IF i = 1 THEN cols[i] ELSE sep \o cols[i]
    OBVIOUS
  <2> HIDE DEF fs, as
  <2>3. \A i \in 1..n : bs[i] = IF i = 1 THEN fs[i] ELSE <<Comma>> \o fs[i]
    BY <1>4, Zenon DEF Pieces
  <2>4. QED BY <2>1, <2>2, <2>3, Zenon
<1>8. HeadLine(cols) = q \o Joined(cols, sep) \o <<Quote, NewLine>>
  BY DEF HeadLine
<1>9. <<Quote, NewLine>> = q \o <<NewLine>> /\ <<NewLine>> \in Text
  <2>1. Quote \in Letter /\ NewLine \in Letter
    BY MarksAre
  <2>2. <<Quote>> \o <<NewLine>> = <<Quote, NewLine>>
    BY <2>1, TwoOf
  <2>3. <<NewLine>> \in Seq(Letter)
    BY <2>1, OneOf
  <2>4. QED BY <2>2, <2>3, Zenon DEF Text
<1> HIDE DEF as, bs, fs, n, q, c, sep
<1>10. PICK f : Appended(n, as, f) /\ Joined(cols, sep) = f[n]
  <2>1. as \in Seq(Seq(Letter))
    <3>1. Text = Seq(Letter)
      BY DEF Text
    <3>2. QED BY <1>6, <3>1, Zenon
  <2>2. \E f : Appended(Len(as), as, f) /\ FlattenSeq(as) = f[Len(as)]
    BY <2>1, FlattenAt
  <2>3. QED BY <1>6, <2>2, Zenon
<1>11. PICK g : Appended(n, bs, g) /\ Joined(fs, c) = g[n]
  <2>1. bs \in Seq(Seq(Letter))
    BY <1>5 DEF Text
  <2>2. \E g : Appended(Len(bs), bs, g) /\ FlattenSeq(bs) = g[Len(bs)]
    BY <2>1, FlattenAt
  <2>3. QED BY <1>5, <2>2, Zenon
<1>12. f[0] = <<>> /\ \A i \in 1..n : f[i] = f[i - 1] \o as[i]
  BY <1>1, <1>10, AppendedAt, Zenon
<1>13. g[0] = <<>> /\ \A i \in 1..n : g[i] = g[i - 1] \o bs[i]
  BY <1>1, <1>11, AppendedAt, Zenon
<1>14. \A i \in 0..n : f[i] \in Text
  <2>1. \A i \in 1..n : as[i] \in Seq(Letter)
    <3>1. Text = Seq(Letter)
      BY DEF Text
    <3>2. QED BY <1>6, <3>1, ElementOfSeq, Zenon
  <2>2. QED BY <1>1, <1>10, <2>1, AppendedIsSeq, Zenon DEF Text
<1> DEFINE S == {k \in 0..(n - 1) : q \o f[k + 1] \o q = g[k + 1]}
<1>15. 0 \in S
  <2>1. 1 \in 1..n /\ 1 - 1 = 0 /\ 0 + 1 = 1 /\ 0 \in 0..(n - 1)
    BY <1>1
  <2>2. f[1] = <<>> \o cols[1] /\ g[1] = <<>> \o InQuotes(cols[1])
    <3>1. f[1] = f[1 - 1] \o as[1] /\ g[1] = g[1 - 1] \o bs[1]
      BY <1>12, <1>13, <2>1, Zenon
    <3>2. as[1] = cols[1] /\ bs[1] = InQuotes(cols[1])
      BY <1>7, <2>1, Zenon
    <3>3. QED BY <1>12, <1>13, <2>1, <3>1, <3>2, Zenon
  <2>3. cols[1] \in Seq(Letter) /\ InQuotes(cols[1]) \in Seq(Letter)
    BY <1>1, <1>3, <2>1 DEF Text
  <2>4. f[1] = cols[1] /\ g[1] = InQuotes(cols[1])
    BY <2>2, <2>3, ConcatEmptySeq, Zenon
  <2>5. q \o f[1] \o q = g[1]
    BY <2>4, Zenon DEF InQuotes, q
  <2>6. QED BY <2>1, <2>5, Zenon
<1>16. ASSUME NEW k \in 0..(n - 1 - 1), k \in S PROVE k + 1 \in S
  <2>1. PICK i \in 1..n, j \in 1..n : i = k + 1 /\ j = k + 1 + 1 /\ j - 1 = i /\ j # 1 /\ k + 1 \in 0..(n - 1) /\ i \in 0..n
    <3>1. PICK i \in 1..n : i = k + 1 /\ k + 1 \in 0..(n - 1) /\ i \in 0..n
      BY <1>1
    <3>2. PICK j \in 1..n : j = k + 1 + 1 /\ j - 1 = i /\ j # 1
      BY <1>1, <3>1
    <3>3. QED BY <3>1, <3>2, Zenon
  <2>2. f[j] = f[i] \o (sep \o cols[j]) /\ g[j] = g[i] \o (c \o InQuotes(cols[j]))
    BY <1>7, <1>12, <1>13, <2>1, Zenon
  <2>3. q \o f[i] \o q = g[i]
    BY <1>16, <2>1
  <2>4. q \in Seq(Letter) /\ c \in Seq(Letter) /\ f[i] \in Seq(Letter) /\ cols[j] \in Seq(Letter)
    BY <1>1, <1>2, <1>14, <2>1 DEF Text
  <2>5. (q \o (f[i] \o ((q \o (c \o q)) \o cols[j]))) \o q = (q \o f[i] \o q) \o (c \o (q \o cols[j] \o q))
    <3>1. PICK u \in Seq(Letter), t \in Seq(Letter) : u = f[i] /\ t = cols[j]
      BY <2>4
    <3>2. Regroup(q, c, u, t)
      BY <2>4, Regrouped
    <3>3. QED BY <3>1, <3>2, Zenon DEF Regroup
  <2>6. InQuotes(cols[j]) = q \o cols[j] \o q
    BY DEF InQuotes, q
  <2>7. q \o f[j] \o q = g[j]
    BY <1>2, <2>2, <2>3, <2>5, <2>6, Zenon
  <2>8. QED BY <2>1, <2>7, Zenon
<1> HIDE DEF S
<1>17. q \o f[n] \o q = g[n]
  <2>1. PICK m \in Nat : m = n - 1 /\ m + 1 = n /\ m - 1 = n - 1 - 1
    BY <1>1
  <2>2. 0..m \subseteq S
    BY <1>15, <1>16, <2>1, UpTo
  <2>3. m \in S
    BY <2>2
  <2>4. q \o f[m + 1] \o q = g[m + 1]
    BY <2>3, Zenon DEF S
  <2>5. QED BY <2>1, <2>4, Zenon
<1>18. q \o f[n] \o (q \o <<NewLine>>) = (q \o f[n] \o q) \o <<NewLine>>
  <2>1. q \in Seq(Letter) /\ f[n] \in Seq(Letter) /\ <<NewLine>> \in Seq(Letter)
    <3>1. n \in 0..n
      BY <1>1
    <3>2. QED BY <1>2, <1>9, <1>14, <3>1 DEF Text
  <2>2. q \o f[n] \in Seq(Letter)
    BY <2>1, ConcatProperties
  <2>3. PICK a \in Seq(Letter), b \in Seq(Letter) : a = q \o f[n] /\ b = <<NewLine>>
    BY <2>1, <2>2
  <2>4. (a \o q) \o b = a \o (q \o b)
    BY <2>1
  <2>5. QED BY <2>3, <2>4, Zenon
<1>19. HeadLine(cols) = Joined(fs, c) \o <<NewLine>>
  BY <1>8, <1>9, <1>10, <1>11, <1>17, <1>18, Zenon
<1>20. QED BY <1>19, Zenon DEF fs, c, n

LEMMA HeadRead ==
  ASSUME NEW cols \in Seq(Text), cols # <<>>, \A i \in 1..Len(cols) : Unquoted(cols[i]),
         NEW text \in Text, NEW s \in Nat \ {0}, Stands(text, s, HeadLine(cols))
  PROVE  /\ s \in 1..Len(text) /\ HeadLine(cols) \in Text
         /\ GetLine(text, s) = [values |-> cols, next |-> s + Len(HeadLine(cols))]
<1> DEFINE n == Len(cols)
           fs == [i \in 1..n |-> InQuotes(cols[i])]
<1>1. n \in Nat \ {0} /\ \A i \in 1..n : cols[i] \in Text
  BY EmptySeq, ElementOfSeq, Zenon
<1>2. \A i \in 1..n : InQuotes(cols[i]) \in Text /\ Field(InQuotes(cols[i]), cols[i])
  BY <1>1, InQuotesIs
<1>3. HeadLine(cols) = Joined(fs, <<Comma>>) \o <<NewLine>>
  BY HeadLineIs
<1>4. fs \in [1..n -> Text] /\ \A i \in 1..n : fs[i] \in Text /\ Field(fs[i], cols[i])
  BY <1>2
<1> HIDE DEF fs, n
<1>5. fs \in Seq(Text) /\ Len(fs) = n
  BY <1>1, <1>4
<1>6. PICK from, to : FieldsAt(text, s, n, fs, from, to) /\ to[n] = s + Len(Joined(fs, <<Comma>>))
  <2>1. Stands(text, s, Joined(fs, <<Comma>>) \o <<NewLine>>)
    BY <1>3, Zenon
  <2>2. QED BY <1>1, <1>5, <2>1, FieldsPlaced
<1>7. RowAt(text, s, n, fs, cols, from, to)
  BY <1>4, <1>6, Zenon DEF RowAt, FieldsAt
<1>8. s \in 1..Len(text)
  <2>1. 1 \in 1..n
    BY <1>1
  <2>2. s \in s..Len(text)
    BY <1>6, <2>1, Zenon DEF FieldsAt
  <2>3. QED BY <2>2
<1>9. GetLine(text, s) = [values |-> cols, next |-> to[n] + 1]
  BY <1>1, <1>7, <1>8, RowRead DEF n
<1>10. HeadLine(cols) \in Text /\ to[n] + 1 = s + Len(HeadLine(cols))
  <2>1. PICK line \in Text : line = Joined(fs, <<Comma>>)
    BY <1>5, PiecesAre
  <2>2. line \o <<NewLine>> \in Text /\ Len(line \o <<NewLine>>) = Len(line) + 1 /\ Len(line) \in Nat
    <3>1. NewLine \in Letter
      BY MarksAre
    <3>2. Len(line) \in Nat
      BY DEF Text
    <3>3. QED BY <3>1, <3>2, LetterAdded, Zenon
  <2>3. HeadLine(cols) \in Text /\ Len(HeadLine(cols)) = Len(line) + 1
    BY <1>3, <2>1, <2>2, Zenon
  <2>4. to[n] = s + Len(line)
    BY <1>6, <2>1, Zenon
  <2>5. QED BY <2>2, <2>3, <2>4
<1>11. QED BY <1>8, <1>9, <1>10, Zenon

LEMMA CsvLineIs ==
  ASSUME NoText, NEW vals \in Seq(Value)
  PROVE  /\ GetCsvLine(vals) \in Text /\ GetCsvLine(vals) \o <<NewLine>> \in Text
         /\ Len(GetCsvLine(vals) \o <<NewLine>>) = Len(GetCsvLine(vals)) + 1
<1> DEFINE n == Len(vals)
           fs == [j \in 1..n |-> CsvValue(vals[j])]
<1>1. n \in Nat /\ \A j \in 1..n : vals[j] \in Value
  OBVIOUS
<1>2. \A j \in 1..n : CsvValue(vals[j]) \in Text
  BY <1>1, WrittenAs
<1>3. GetCsvLine(vals) = Joined(fs, <<Comma>>)
  BY Zenon DEF GetCsvLine
<1>4. fs \in [1..n -> Text]
  BY <1>2
<1> HIDE DEF fs, n
<1>5. fs \in Seq(Text)
  BY <1>1, <1>4
<1>6. Joined(fs, <<Comma>>) \in Text
  BY <1>5, PiecesAre
<1>7. NewLine \in Letter
  BY MarksAre
<1>8. QED BY <1>3, <1>6, <1>7, LetterAdded, Zenon

RowLines(vals) == [i \in 1..Len(vals) |-> GetCsvLine(vals[i]) \o <<NewLine>>]
AsRead(vals) == [i \in 1..Len(vals) |-> [j \in 1..Len(vals[i]) |-> Doubled(vals[i][j])]]

LEMMA RowLinesAre ==
  ASSUME NoText, NEW vals \in Seq(Seq(Value))
  PROVE  /\ RowLines(vals) \in Seq(Text) /\ Len(RowLines(vals)) = Len(vals)
         /\ \A i \in 1..Len(vals) : RowLines(vals)[i] = GetCsvLine(vals[i]) \o <<NewLine>>
         /\ AsRead(vals) \in Seq(Seq(Value)) /\ Len(AsRead(vals)) = Len(vals)
         /\ \A i \in 1..Len(vals) : AsRead(vals)[i] = [j \in 1..Len(vals[i]) |-> Doubled(vals[i][j])]
<1> DEFINE n == Len(vals)
           ls == [i \in 1..n |-> GetCsvLine(vals[i]) \o <<NewLine>>]
           rs == [i \in 1..n |-> [j \in 1..Len(vals[i]) |-> Doubled(vals[i][j])]]
<1>1. n \in Nat /\ \A i \in 1..n : vals[i] \in Seq(Value)
  OBVIOUS
<1>2. \A i \in 1..n : GetCsvLine(vals[i]) \o <<NewLine>> \in Text
  BY <1>1, CsvLineIs
<1>3. ASSUME NEW i \in 1..n PROVE [j \in 1..Len(vals[i]) |-> Doubled(vals[i][j])] \in Seq(Value)
  <2>1. PICK v \in Seq(Value) : v = vals[i]
    BY <1>1
  <2>2. ASSUME NEW j \in 1..Len(v) PROVE Doubled(v[j]) \in Value
    <3>1. v[j] \in Value
      OBVIOUS
    <3>2. QED BY <3>1, DoubledIs
  <2> DEFINE w == [j \in 1..Len(v) |-> Doubled(v[j])]
  <2>3. w \in [1..Len(v) -> Value]
    BY <2>2
  <2>6. PICK m \in Nat : m = Len(v)
    OBVIOUS
  <2> HIDE DEF w
  <2>7. w \in [1..m -> Value]
    BY <2>3, <2>6, Zenon
  <2>4. w \in Seq(Value)
    BY <2>7
  <2>5. QED BY <2>1, <2>4, Zenon DEF w
<1>4. ls \in [1..n -> Text]
  BY <1>2
<1>5. rs \in [1..n -> Seq(Value)]
  BY <1>3, Zenon
<1>6. ls = RowLines(vals) /\ rs = AsRead(vals)
  BY Zenon DEF RowLines, AsRead
<1>7. /\ \A i \in 1..n : ls[i] = GetCsvLine(vals[i]) \o <<NewLine>>
      /\ \A i \in 1..n : rs[i] = [j \in 1..Len(vals[i]) |-> Doubled(vals[i][j])]
  BY Zenon
<1> HIDE DEF ls, rs, n
<1>8. ls \in Seq(Text) /\ Len(ls) = n /\ rs \in Seq(Seq(Value)) /\ Len(rs) = n
  BY <1>1, <1>4, <1>5
<1>9. QED BY <1>6, <1>7, <1>8, Zenon DEF n

\* a line ends
LEMMA EndsInLine ==
  ASSUME NoText, NEW line \in Text
  PROVE  /\ line \o <<NewLine>> \in Text /\ Len(line \o <<NewLine>>) = Len(line) + 1
         /\ (line \o <<NewLine>>)[Len(line \o <<NewLine>>)] = NewLine
<1>1. NewLine \in Letter
  BY MarksAre
<1>2. line \o <<NewLine>> \in Text /\ Len(line \o <<NewLine>>) = Len(line) + 1
  BY <1>1, LetterAdded, Zenon
<1>3. (line \o <<NewLine>>)[Len(line) + 1] = NewLine
  BY <1>1 DEF Text
<1>4. QED BY <1>2, <1>3, Zenon

LEMMA HeadEnds ==
  ASSUME NoText, NEW cols \in Seq(Text), cols # <<>>, \A i \in 1..Len(cols) : Unquoted(cols[i])
  PROVE  \E line \in Text : HeadLine(cols) = line \o <<NewLine>>
<1> DEFINE fs == [i \in 1..Len(cols) |-> InQuotes(cols[i])]
<1>1. HeadLine(cols) = Joined(fs, <<Comma>>) \o <<NewLine>>
  BY HeadLineIs
<1>2. \A i \in 1..Len(cols) : InQuotes(cols[i]) \in Text
  BY InQuotesIs
<1>3. fs \in [1..Len(cols) -> Text]
  BY <1>2
<1> HIDE DEF fs
<1>4. fs \in Seq(Text)
  BY <1>3
<1>5. Joined(fs, <<Comma>>) \in Text
  BY <1>4, PiecesAre
<1>6. QED BY <1>1, <1>5, Zenon

(* What is written to a file for rows of a table is read from it as the      *)
(* names of their columns and the rows again, each with the values it had,   *)
(* apostrophes doubled - whatever commas, spaces, quotation marks and line   *)
(* ends the values hold, and with NULL told from an empty text (GetCsvLine,  *)
(* WvCsv.GetLine).                                                           *)
LEMMA ExportRead ==
  ASSUME NoText, NEW cols \in Seq(Text), cols # <<>>, \A i \in 1..Len(cols) : Unquoted(cols[i]),
         NEW vals \in Seq(Seq(Value)), \A i \in 1..Len(vals) : vals[i] # <<>>
  PROVE  CsvLines(HeadLine(cols) \o FlattenSeq(RowLines(vals))) = <<cols>> \o AsRead(vals)
<1> DEFINE head == HeadLine(cols)
           lines == RowLines(vals)
           rest == FlattenSeq(lines)
           text == head \o rest
           n == Len(vals)
           rows == <<cols>> \o AsRead(vals)
<1>1. lines \in Seq(Text) /\ Len(lines) = n /\ n \in Nat /\ rest \in Text
  <2>1. lines \in Seq(Text) /\ Len(lines) = n /\ n \in Nat
    BY RowLinesAre
  <2> HIDE DEF lines
  <2>2. lines \in Seq(Seq(Letter))
    BY <2>1 DEF Text
  <2>3. FlattenSeq(lines) \in Text
    BY <2>2, FlattenIsSeq DEF Text
  <2>4. QED BY <2>1, <2>3
<1>15. \A i \in 1..n : /\ lines[i] = GetCsvLine(vals[i]) \o <<NewLine>>
                       /\ AsRead(vals)[i] = [j \in 1..Len(vals[i]) |-> Doubled(vals[i][j])]
  BY RowLinesAre
<1>2. head \in Text
  <2>1. PICK line \in Text : HeadLine(cols) = line \o <<NewLine>>
    BY HeadEnds
  <2>2. NewLine \in Letter
    BY MarksAre
  <2>3. QED BY <2>1, <2>2, LetterAdded, Zenon
<1> HIDE DEF head, lines, rest, n
<1>3. /\ text \in Text /\ Len(text) = Len(head) + Len(rest) /\ Len(head) \in Nat /\ Len(rest) \in Nat
  <2>1. head \in Seq(Letter) /\ rest \in Seq(Letter)
    BY <1>1, <1>2 DEF Text
  <2>2. text \in Seq(Letter) /\ Len(text) = Len(head) + Len(rest)
    BY <2>1, ConcatProperties
  <2>3. Len(head) \in Nat /\ Len(rest) \in Nat
    BY <2>1
  <2> HIDE DEF text
  <2>4. QED BY <2>2, <2>3, Zenon DEF Text
<1>4. Stands(text, 1, head) /\ Stands(text, Len(head) + 1, rest)
  <2>1. head \in Seq(Letter) /\ rest \in Seq(Letter)
    BY <1>1, <1>2 DEF Text
  <2>2. Stands(head, 1, head)
    <3>1. \A i \in 1..Len(head) : 1 + i - 1 = i
      OBVIOUS
    <3>2. 1 + Len(head) - 1 <= Len(head)
      BY <1>3
    <3>3. QED BY <3>1, <3>2, Zenon DEF Stands
  <2>3. 1 \in Nat \ {0}
    OBVIOUS
  <2>4. Stands(head \o rest, 1, head)
    BY <2>1, <2>2, <2>3, HeldMore
  <2>5. QED BY <2>1, <2>4, HeldLast
<1> HIDE DEF text
<1>5. /\ 1 \in 1..Len(text)
      /\ GetLine(text, 1) = [values |-> cols, next |-> Len(head) + 1]
  <2>1. 1 \in Nat \ {0} /\ Stands(text, 1, HeadLine(cols))
    BY <1>4 DEF head
  <2>2. /\ 1 \in 1..Len(text)
        /\ GetLine(text, 1) = [values |-> cols, next |-> 1 + Len(HeadLine(cols))]
    BY <1>3, <2>1, HeadRead
  <2>3. 1 + Len(head) = Len(head) + 1
    BY <1>3
  <2>4. QED BY <2>2, <2>3, Zenon DEF head
<1>6. PICK at : PlacedIn(rest, lines, n, at)
  <2>1. lines \in Seq(Seq(Letter))
    BY <1>1 DEF Text
  <2>2. \E at : PlacedIn(FlattenSeq(lines), lines, Len(lines), at)
    BY <2>1, FlattenPlaces
  <2>3. QED BY <1>1, <2>2, Zenon DEF rest
<1>7. \A i \in 0..n : at[i] \in Nat
  BY <1>6, Zenon DEF PlacedIn
<1>8. ASSUME NEW i \in 1..n
      PROVE  /\ Len(head) + at[i - 1] + 1 \in 1..Len(text)
             /\ GetLine(text, Len(head) + at[i - 1] + 1) = [values |-> AsRead(vals)[i], next |-> Len(head) + at[i] + 1]
  <2>1. PICK v \in Seq(Value) : v = vals[i] /\ v # <<>>
    BY <1>1 DEF n
  <2>2. lines[i] = GetCsvLine(v) \o <<NewLine>>
    BY <1>15, <2>1, Zenon
  <2>3. GetCsvLine(v) \in Text /\ Len(lines[i]) = Len(GetCsvLine(v)) + 1 /\ lines[i] \in Text
    BY <2>2, CsvLineIs, Zenon
  <2>4. Len(GetCsvLine(v)) \in Nat
    BY <2>3 DEF Text
  <2>5. i \in 0..n /\ i - 1 \in 0..n
    BY <1>1
  <2>6. PICK a \in Nat, b \in Nat : a = at[i - 1] /\ b = at[i]
    BY <1>7, <2>5, Zenon
  <2>7. b = a + Len(lines[i]) /\ Stands(rest, a + 1, lines[i])
    BY <1>6, <2>6, Zenon DEF PlacedIn
  <2>16. PICK p \in Nat \ {0} : p = Len(head) + 1
    BY <1>3
  <2>17. PICK q \in Nat \ {0} : q = a + 1
    BY <2>6
  <2>18. PICK g \in Text : g = lines[i]
    BY <2>3
  <2>8. p = Len(head) + 1 /\ q = a + 1 /\ g = lines[i] /\ p + q - 1 = Len(head) + a + 1
    <3>1. p + q - 1 = Len(head) + a + 1
      BY <1>3, <2>16, <2>17
    <3>2. QED BY <2>16, <2>17, <2>18, <3>1, Zenon
  <2>9. Stands(text, p + q - 1, g)
    <3>1. Len(text) \in Nat /\ Len(rest) \in Nat /\ Len(g) \in Nat
      BY <1>3 DEF Text
    <3>2. Stands(text, p, rest) /\ Stands(rest, q, g)
      BY <1>4, <2>7, <2>8
    <3>3. QED BY <3>1, <3>2, HeldWithin
  <2>10. PICK s \in Nat \ {0} : s = Len(head) + a + 1 /\ s = p + q - 1
    BY <2>8
  <2>11. Stands(text, s, GetCsvLine(v) \o <<NewLine>>)
    BY <2>2, <2>8, <2>9, <2>10, Zenon
  <2>12. /\ s \in 1..Len(text)
         /\ GetLine(text, s) = [values |-> [j \in 1..Len(v) |-> Doubled(v[j])],
                                next |-> s + Len(GetCsvLine(v)) + 1]
    BY <1>3, <2>1, <2>11, CsvRowRead
  <2>13. s + Len(GetCsvLine(v)) + 1 = Len(head) + b + 1
    BY <1>3, <2>3, <2>4, <2>7, <2>10
  <2>14. AsRead(vals)[i] = [j \in 1..Len(v) |-> Doubled(v[j])]
    BY <1>15, <2>1, Zenon
  <2>15. QED BY <2>6, <2>10, <2>12, <2>13, <2>14, Zenon
<1> DEFINE start == [i \in 1..(n + 2) |-> IF i = 1 THEN 1 ELSE Len(head) + at[i - 2] + 1]
<1>16. \A i \in 1..(n + 2) : start[i] = IF i = 1 THEN 1 ELSE Len(head) + at[i - 2] + 1
  BY Zenon
<1> HIDE DEF start
<1>9. at[0] = 0 /\ at[n] = Len(rest)
  BY <1>6, Zenon DEF PlacedIn
<1>10. start[1] = 1 /\ start[n + 1 + 1] = Len(text) + 1 /\ start[2] = Len(head) + 1
  <2>1. n + 1 + 1 \in 1..(n + 2) /\ n + 1 + 1 # 1 /\ n + 1 + 1 - 2 = n /\ 1 \in 1..(n + 2)
        /\ 2 \in 1..(n + 2) /\ 2 - 2 = 0 /\ 2 # 1
    BY <1>1
  <2>2. PICK k \in 1..(n + 2) : k = n + 1 + 1 /\ k # 1 /\ k - 2 = n
    BY <1>1, <2>1
  <2>3. PICK two \in 1..(n + 2) : two = 2 /\ two # 1 /\ two - 2 = 0
    BY <1>1, <2>1
  <2>4. PICK one \in 1..(n + 2) : one = 1
    BY <1>1, <2>1
  <2>5. start[k] = Len(head) + at[k - 2] + 1
    BY <1>16, <2>2, Zenon
  <2>6. start[two] = Len(head) + at[two - 2] + 1
    BY <1>16, <2>3, Zenon
  <2>7. start[one] = 1
    BY <1>16, <2>4, Zenon
  <2>8. start[n + 1 + 1] = Len(head) + at[n] + 1
    BY <2>2, <2>5, Zenon
  <2>9. start[2] = Len(head) + at[0] + 1
    BY <2>3, <2>6, Zenon
  <2>10. start[1] = 1
    BY <2>4, <2>7, Zenon
  <2>11. QED BY <1>3, <1>9, <2>8, <2>9, <2>10
<1>11. /\ rows \in Seq(Seq(Value)) /\ Len(rows) = n + 1 /\ rows[1] = cols
       /\ \A i \in 1..n : rows[i + 1] = AsRead(vals)[i]
  <2>1. AsRead(vals) \in Seq(Seq(Value)) /\ Len(AsRead(vals)) = n
    BY RowLinesAre DEF n
  <2>2. cols \in Seq(Value)
    BY SeqMonotonic DEF Value
  <2>3. <<cols>> \in Seq(Seq(Value)) /\ Len(<<cols>>) = 1 /\ <<cols>>[1] = cols
    BY <2>2, OneOf
  <2> DEFINE a == <<cols>>
             b == AsRead(vals)
  <2> HIDE DEF a, b
  <2>4. a \in Seq(Seq(Value)) /\ Len(a) = 1 /\ a[1] = cols /\ b \in Seq(Seq(Value)) /\ Len(b) = n
    BY <2>1, <2>3 DEF a, b
  <2>5. /\ a \o b \in Seq(Seq(Value)) /\ Len(a \o b) = n + 1 /\ (a \o b)[1] = cols
        /\ \A i \in 1..n : (a \o b)[i + 1] = b[i]
    <3>1. /\ a \o b \in Seq(Seq(Value)) /\ Len(a \o b) = Len(a) + Len(b)
          /\ \A i \in 1..(Len(a) + Len(b)) : (a \o b)[i] = IF i <= Len(a) THEN a[i] ELSE b[i - Len(a)]
      BY <2>4, ConcatProperties
    <3>2. Len(a \o b) = n + 1 /\ (a \o b)[1] = cols
      BY <1>1, <2>4, <3>1
    <3>3. ASSUME NEW i \in 1..n PROVE (a \o b)[i + 1] = b[i]
      <4>1. i + 1 \in 1..(Len(a) + Len(b)) /\ ~(i + 1 <= Len(a)) /\ i + 1 - Len(a) = i
        BY <1>1, <2>4
      <4>2. PICK k \in 1..(Len(a) + Len(b)) : k = i + 1 /\ ~(k <= Len(a)) /\ k - Len(a) = i
        BY <4>1
      <4>3. (a \o b)[k] = b[k - Len(a)]
        BY <3>1, <4>2, Zenon
      <4>4. QED BY <4>2, <4>3, Zenon
    <3>4. QED BY <3>1, <3>2, <3>3
  <2>6. QED BY <2>5 DEF a, b
<1> HIDE DEF rows
<1>12. ASSUME NEW k \in 1..(n + 1)
       PROVE  /\ start[k] \in 1..Len(text)
              /\ GetLine(text, start[k]) = [values |-> rows[k], next |-> start[k + 1]]
  <2>1. CASE k = 1
    <3>1. k + 1 = 2
      BY <2>1
    <3>2. start[k] = 1 /\ start[k + 1] = Len(head) + 1
      BY <1>10, <2>1, <3>1, Zenon
    <3>3. QED BY <1>5, <1>11, <2>1, <3>2, Zenon
  <2>2. CASE k # 1
    <3>1. PICK i \in 1..n : k = i + 1
      <4>1. k - 1 \in 1..n /\ k = k - 1 + 1
        BY <1>1, <2>2
      <4>2. QED BY <4>1
    <3>2. /\ k \in 1..(n + 2) /\ k + 1 \in 1..(n + 2) /\ k # 1 /\ k + 1 # 1 /\ k - 2 = i - 1 /\ k + 1 - 2 = i
      BY <1>1, <3>1
    <3>3. start[k] = Len(head) + at[i - 1] + 1 /\ start[k + 1] = Len(head) + at[i] + 1
      <4>1. PICK j \in 1..(n + 2) : j = k + 1 /\ j # 1 /\ j - 2 = i
        BY <1>1, <3>2
      <4>2. start[j] = Len(head) + at[j - 2] + 1
        BY <1>16, <4>1, Zenon
      <4>3. PICK l \in 1..(n + 2) : l = k /\ l # 1 /\ l - 2 = i - 1
        BY <1>1, <3>2
      <4>4. start[l] = Len(head) + at[l - 2] + 1
        BY <1>16, <4>3, Zenon
      <4>5. start[k + 1] = Len(head) + at[i] + 1
        BY <4>1, <4>2, Zenon
      <4>6. start[k] = Len(head) + at[i - 1] + 1
        BY <4>3, <4>4, Zenon
      <4>7. QED BY <4>5, <4>6
    <3>4. rows[k] = AsRead(vals)[i]
      BY <1>11, <3>1, Zenon
    <3>5. QED BY <1>8, <3>3, <3>4, Zenon
  <2>3. QED BY <2>1, <2>2
<1>13. CsvLines(text) = rows
  <2>1. PICK m \in Nat : m = n + 1
    BY <1>1
  <2>2. \A i \in 1..m : /\ start[i] \in 1..Len(text)
                        /\ GetLine(text, start[i]) = [values |-> rows[i], next |-> start[i + 1]]
    BY <1>12, <2>1, Zenon
  <2>3. rows \in Seq(Seq(Value)) /\ Len(rows) = m /\ start[1] = 1 /\ start[m + 1] = Len(text) + 1
    BY <1>10, <1>11, <2>1, Zenon
  <2> HIDE DEF text, rows, start
  <2>4. QED BY <1>3, <2>2, <2>3, LinesRead, ZenonT(40)
<1>14. QED BY <1>13, Zenon DEF text, rest, head, lines, rows

-----------------------------------------------------------------------------
(* The rows read as statements, and the statements in parts.                 *)

\* the row a line makes, of the columns named
RowOf(cols, v) ==
  [c \in Names |-> IF \E j \in DOMAIN cols : cols[j] = c
                   THEN v[CHOOSE j \in DOMAIN cols : cols[j] = c] ELSE NULL]

InsertsMade(table, cols, n, lines) ==
  InsertsOf(table, lines) = [i \in 1..n |-> Insert(table, RowOf(cols, lines[i + 1]))]

LEMMA InsertsAre ==
  ASSUME NEW table, NEW cols, NEW n \in Nat, NEW lines, IsInjective(cols), DOMAIN cols = 1..Len(cols),
         \A i \in DOMAIN cols : cols[i] \in Names,
         Len(lines) = n + 1, lines[1] = cols, lines # <<>>,
         \A i \in 1..n : /\ Len(lines[i + 1]) = Len(cols)
                         /\ \A j \in DOMAIN cols : Accepted(cols[j], lines[i + 1][j])
  PROVE  InsertsMade(table, cols, n, lines)
<1> DEFINE names == IF lines = <<>> THEN <<>> ELSE lines[1]
           odd == {i \in 2..Len(lines) : Len(lines[i]) # Len(names)}
           known == \A i \in DOMAIN names : names[i] \in Names
           InsertOf(values) ==
             IF IsInjective(names) /\ \A i \in DOMAIN names : Accepted(names[i], values[i])
             THEN Insert(table, RowOf(names, values)) ELSE Bad
           inserts == [i \in 1..Len(lines) - 1 |-> InsertOf(lines[i + 1])]
           short == odd # {} /\ Len(lines[Min(odd)]) < Len(names) /\ (known \/ Min(odd) = 2)
<1>1. InsertsOf(table, lines) = IF Len(lines) <= 1 THEN <<>> ELSE IF short THEN <<>>
                                ELSE IF ~known \/ odd # {} THEN <<Bad>> ELSE inserts
  BY Zenon DEF InsertsOf, RowOf
<1>2. names = cols
  BY Zenon
<1> HIDE DEF names
<1>3. odd = {}
  <2>1. ASSUME NEW i \in 2..Len(lines) PROVE Len(lines[i]) = Len(names)
    <3>1. PICK k \in 1..n : i = k + 1
      <4>1. i - 1 \in 1..n /\ i = i - 1 + 1
        OBVIOUS
      <4>2. QED BY <4>1
    <3>2. Len(lines[k + 1]) = Len(cols)
      OBVIOUS
    <3>3. QED BY <1>2, <3>1, <3>2, Zenon
  <2>2. QED BY <2>1, Zenon
<1>4. known
  BY <1>2, Zenon
<1>5. \A i \in 1..n : InsertOf(lines[i + 1]) = Insert(table, RowOf(cols, lines[i + 1]))
  BY <1>2, Zenon
<1>6. Len(lines) - 1 = n
  OBVIOUS
<1>7. inserts = [i \in 1..n |-> Insert(table, RowOf(cols, lines[i + 1]))]
  BY <1>5, <1>6, Zenon
<1> HIDE DEF odd, known, inserts
<1>8. CASE n = 0
  <2>1. 1..n = {} /\ Len(lines) <= 1
    BY <1>8
  <2>2. [i \in 1..n |-> Insert(table, RowOf(cols, lines[i + 1]))] = <<>>
    BY <2>1
  <2>3. QED BY <1>1, <2>1, <2>2, Zenon DEF InsertsMade
<1>9. CASE n # 0
  <2>1. ~(Len(lines) <= 1)
    BY <1>9
  <2>2. QED BY <1>1, <1>3, <1>4, <1>7, <2>1, Zenon DEF InsertsMade
<1>10. QED BY <1>8, <1>9

\* a column's value is found where its name stands
LEMMA RowIs ==
  ASSUME NEW cols, IsInjective(cols), NEW v, NEW c \in Names
  PROVE  /\ \A j \in DOMAIN cols : cols[j] = c => RowOf(cols, v)[c] = v[j]
         /\ (\A j \in DOMAIN cols : cols[j] # c) => RowOf(cols, v)[c] = NULL
<1>1. RowOf(cols, v)[c] = IF \E j \in DOMAIN cols : cols[j] = c
                          THEN v[CHOOSE j \in DOMAIN cols : cols[j] = c] ELSE NULL
  BY Zenon DEF RowOf
<1>2. ASSUME NEW j \in DOMAIN cols, cols[j] = c
      PROVE  (CHOOSE k \in DOMAIN cols : cols[k] = c) = j
  BY <1>2, Zenon DEF IsInjective
<1>3. QED BY <1>1, <1>2, Zenon

\* no line is empty
NoEmptyLine(text) == \A i \in 1..Len(text) : ~(text[i] = NewLine /\ (i = 1 \/ text[i - 1] = NewLine))

LEMMA AllRows ==
  ASSUME NoText, NEW text \in Text, NoEmptyLine(text), text # <<>>, Last(text) = NewLine
  PROVE  CsvPart(text) = text /\ SqlPart(text) = <<>>
<1>1. Len(text) \in Nat /\ text \in Seq(Letter)
  BY DEF Text
<1>2. FirstBlank(text) = Len(text) + 1
  <2>1. {e \in 1..Len(text) : text[e] = NewLine /\ (e = 1 \/ text[e - 1] = NewLine)} = {}
    BY Zenon DEF NoEmptyLine
  <2>2. QED BY <2>1, Zenon DEF FirstBlank, Before
<1>3. SubSeq(text, 1, Len(text) + 1 - 1) = text
  <2>1. Len(text) + 1 - 1 = Len(text)
    BY <1>1
  <2>2. SubSeq(text, 1, Len(text)) = text
    BY <1>1, SubSeqFull
  <2>3. QED BY <2>1, <2>2, Zenon
<1>4. SubSeq(text, Len(text) + 1 + 1, Len(text)) = <<>>
  BY <1>1, SubSeqEmpty
<1>5. CsvPart(text) = text
  <2>1. CsvPart(text) = Lined(text)
    <3>1. CsvPart(text) = Lined(SubSeq(text, 1, FirstBlank(text) - 1))
      BY Zenon DEF CsvPart
    <3>2. SubSeq(text, 1, FirstBlank(text) - 1) = text
      <4>1. PICK end \in Nat : end = FirstBlank(text) /\ end = Len(text) + 1
        BY <1>1, <1>2
      <4>2. end - 1 = Len(text) + 1 - 1
        BY <1>1, <4>1
      <4>3. QED BY <1>3, <4>1, <4>2, Zenon
    <3>3. QED BY <3>1, <3>2, Zenon
  <2>2. QED BY <2>1, Zenon DEF Lined
<1>6. SqlPart(text) = <<>>
  BY <1>2, <1>4, Zenon DEF SqlPart, Lined
<1>7. QED BY <1>5, <1>6

\* statements none of which is refused are all given to the server
LEMMA AllInParts ==
  ASSUME NEW n \in Nat, NEW given, DOMAIN given = 1..n, given = [i \in 1..n |-> given[i]],
         \A i \in 1..n : given[i] # Bad
  PROVE  InParts(given) = given
<1> DEFINE PartOf(i) == IF Len(given) <= PartSize \/ i = 1 THEN 0 ELSE 1 + (i - 2) \div PartSize
           refused == {PartOf(i) : i \in {j \in DOMAIN given : given[j] = Bad}}
           sound == {i \in DOMAIN given : \A p \in refused : PartOf(i) < p}
<1>1. InParts(given) = [i \in 1..Cardinality(sound) |-> given[i]] \o (IF refused = {} THEN <<>> ELSE <<Bad>>)
  BY Zenon DEF InParts
<1>2. {j \in DOMAIN given : given[j] = Bad} = {}
  BY Zenon
<1>3. refused = {}
  BY <1>2, Zenon
<1>4. sound = 1..n
  BY <1>3, Zenon
<1>5. Cardinality(1..n) = n
  <2>1. Cardinality(1..n) = IF 1 > n THEN 0 ELSE n - 1 + 1
    BY FS_Interval
  <2>2. QED BY <2>1
<1> HIDE DEF refused, sound
<1>6. InParts(given) = given \o <<>>
  BY <1>1, <1>3, <1>4, <1>5, Zenon
<1>7. given \in Seq({given[i] : i \in 1..n})
  <2>1. given \in [1..n -> {given[i] : i \in 1..n}]
    BY Zenon
  <2>2. QED BY <2>1
<1>8. QED BY <1>6, <1>7, ConcatEmptySeq, Zenon

-----------------------------------------------------------------------------
(* A file that was exported, put back.                                       *)

\* the rows a command selects
Selected(rows, where) == SelectSeq(RowsOf(rows), LAMBDA r : where = NULL \/ r[where.column] = where.value)

\* a row as an export is meant to bring it back (AsExported in Kept)
AsExported(rules, table, cols, r) ==
  [c \in Names |-> IF c \in ToSet(cols) THEN Doubled(Exported(rules, table, c, r[c])) ELSE NULL]

DataOf(table, rows, where, rules, cols, vals) ==
  GetSchemaData(table, rows, where, rules) = HeadLine(cols) \o FlattenSeq(RowLines(vals))

LEMMA DataIs ==
  ASSUME NEW table, NEW rows, NEW where, NEW rules, NEW cols, NEW selected, NEW vals,
         cols = ExportedColumns(rules, table), selected = Selected(rows, where),
         Len(vals) = Len(selected),
         \A i \in 1..Len(selected) :
           vals[i] = [j \in 1..Len(cols) |-> Exported(rules, table, cols[j], selected[i][cols[j]])]
  PROVE  DataOf(table, rows, where, rules, cols, vals)
<1> DEFINE Line(r) == GetCsvLine([j \in 1..Len(cols) |-> Exported(rules, table, cols[j], r[cols[j]])])
           lines == [i \in 1..Len(selected) |-> Line(selected[i]) \o <<NewLine>>]
<1>1. GetSchemaData(table, rows, where, rules) = HeadLine(cols) \o FlattenSeq(lines)
  BY Zenon DEF GetSchemaData, Selected
<1>2. \A i \in 1..Len(selected) : GetCsvLine(vals[i]) \o <<NewLine>> = Line(selected[i]) \o <<NewLine>>
  BY Zenon
<1>3. RowLines(vals) = lines
  BY <1>2, Zenon DEF RowLines
<1>4. QED BY <1>1, <1>3, Zenon DEF DataOf

LEMMA HeadFirst ==
  ASSUME NEW X, NEW head \in Seq(X), NEW back \in Seq(Seq(X))
  PROVE  /\ Len(<<head>> \o back) = Len(back) + 1 /\ (<<head>> \o back)[1] = head
         /\ <<head>> \o back # <<>>
         /\ \A i \in 1..Len(back) : (<<head>> \o back)[i + 1] = back[i]
<1> DEFINE a == <<head>>
<1>1. a \in Seq(Seq(X)) /\ Len(a) = 1 /\ a[1] = head
  BY OneOf
<1> HIDE DEF a
<1>2. Len(back) \in Nat
  OBVIOUS
<1>3. /\ a \o back \in Seq(Seq(X)) /\ Len(a \o back) = Len(a) + Len(back)
      /\ \A i \in 1..(Len(a) + Len(back)) : (a \o back)[i] = IF i <= Len(a) THEN a[i] ELSE back[i - Len(a)]
  BY <1>1, ConcatProperties
<1>4. Len(a \o back) = Len(back) + 1 /\ (a \o back)[1] = head /\ a \o back # <<>>
  BY <1>1, <1>2, <1>3
<1>5. ASSUME NEW i \in 1..Len(back) PROVE (a \o back)[i + 1] = back[i]
  <2>1. PICK k \in 1..(Len(a) + Len(back)) : k = i + 1 /\ ~(k <= Len(a)) /\ k - Len(a) = i
    BY <1>1, <1>2
  <2>2. (a \o back)[k] = back[k - Len(a)]
    BY <1>3, <2>1, Zenon
  <2>3. QED BY <2>1, <2>2, Zenon
<1>6. QED BY <1>4, <1>5, Zenon DEF a

LEMMA LastPlace ==
  ASSUME NEW h \in Nat, NEW a \in Nat, NEW m \in Nat, m # 0, NEW e, e = h + (a + m)
  PROVE  e \in 1..(h + (a + m)) /\ ~(e <= h) /\ e - h = a + 1 + m - 1
  OBVIOUS

\* every line ends
LEMMA DataEnds ==
  ASSUME NoText, NEW cols \in Seq(Text), cols # <<>>, \A i \in 1..Len(cols) : Unquoted(cols[i]),
         NEW vals \in Seq(Seq(Value))
  PROVE  LET text == HeadLine(cols) \o FlattenSeq(RowLines(vals))
         IN text \in Text /\ text # <<>> /\ Last(text) = NewLine
<1> DEFINE n == Len(vals)
           lines == RowLines(vals)
           rest == FlattenSeq(lines)
           head == HeadLine(cols)
           text == head \o rest
<1>1. PICK line \in Text : head = line \o <<NewLine>>
  BY HeadEnds
<1>2. head \in Text /\ Len(head) = Len(line) + 1 /\ head[Len(head)] = NewLine
  BY <1>1, EndsInLine, Zenon
<1>3. lines \in Seq(Text) /\ Len(lines) = n /\ n \in Nat /\ rest \in Text
  <2>1. lines \in Seq(Text) /\ Len(lines) = n /\ n \in Nat
    BY RowLinesAre
  <2> HIDE DEF lines
  <2>2. lines \in Seq(Seq(Letter))
    BY <2>1 DEF Text
  <2>3. FlattenSeq(lines) \in Text
    BY <2>2, FlattenIsSeq DEF Text
  <2>4. QED BY <2>1, <2>3
<1>4. \A i \in 1..n : lines[i] = GetCsvLine(vals[i]) \o <<NewLine>> /\ GetCsvLine(vals[i]) \in Text
  <2>1. \A i \in 1..n : lines[i] = GetCsvLine(vals[i]) \o <<NewLine>>
    BY RowLinesAre
  <2>2. \A i \in 1..n : GetCsvLine(vals[i]) \in Text
    BY CsvLineIs
  <2>3. QED BY <2>1, <2>2, Zenon
<1> HIDE DEF head, lines, rest, n
<1>5. PICK at : PlacedIn(rest, lines, n, at)
  <2>1. lines \in Seq(Seq(Letter))
    BY <1>3 DEF Text
  <2>2. \E at : PlacedIn(FlattenSeq(lines), lines, Len(lines), at)
    BY <2>1, FlattenPlaces
  <2>3. QED BY <1>3, <2>2, Zenon DEF rest
<1>6. Len(line) \in Nat /\ Len(head) \in Nat /\ Len(rest) \in Nat /\ line \in Seq(Letter)
  BY <1>2, <1>3 DEF Text
<1>7. /\ text \in Seq(Letter) /\ Len(text) = Len(head) + Len(rest)
      /\ \A i \in 1..(Len(head) + Len(rest)) : text[i] = IF i <= Len(head) THEN head[i] ELSE rest[i - Len(head)]
  <2>1. head \in Seq(Letter) /\ rest \in Seq(Letter)
    BY <1>2, <1>3 DEF Text
  <2>2. QED BY <2>1, ConcatProperties
<1>8. at[0] = 0 /\ at[n] = Len(rest)
  BY <1>5, Zenon DEF PlacedIn
<1> HIDE DEF text
<1>9. CASE n = 0
  <2>1. Len(rest) = 0
    BY <1>8, <1>9
  <2>2. PICK e \in 1..(Len(head) + Len(rest)) : e = Len(text) /\ e <= Len(head) /\ e = Len(head)
    BY <1>2, <1>6, <1>7, <2>1
  <2>3. text[e] = head[e]
    BY <1>7, <2>2, Zenon
  <2>4. text[Len(text)] = NewLine
    BY <1>2, <2>2, <2>3, Zenon
  <2>5. QED BY <1>2, <1>6, <1>7, <2>4 DEF text, Last, Text, rest, lines, head
<1>10. CASE n # 0
  <2>1. n \in 1..n /\ n - 1 \in 0..n /\ n \in 0..n
    BY <1>3, <1>10
  <2>2. PICK a \in Nat : a = at[n - 1]
    BY <1>5, <2>1, Zenon DEF PlacedIn
  <2>3. PICK l \in Text : l = lines[n] /\ l = GetCsvLine(vals[n]) \o <<NewLine>>
    <3>1. lines[n] \in Text
      BY <1>3, <2>1
    <3>2. QED BY <1>4, <2>1, <3>1, Zenon
  <2>4. Len(l) \in Nat /\ Len(l) # 0 /\ l[Len(l)] = NewLine
    <3>1. PICK c \in Text : l = c \o <<NewLine>>
      BY <1>4, <2>1, <2>3, Zenon
    <3>2. Len(l) = Len(c) + 1 /\ l[Len(l)] = NewLine
      BY <3>1, EndsInLine, Zenon
    <3>3. Len(c) \in Nat
      BY DEF Text
    <3>4. QED BY <3>2, <3>3
  <2>5. Len(rest) = a + Len(l) /\ Stands(rest, a + 1, l)
    BY <1>5, <1>8, <2>1, <2>2, <2>3, Zenon DEF PlacedIn
  <2>6. rest[a + 1 + Len(l) - 1] = l[Len(l)]
    <3>1. Len(l) \in 1..Len(l)
      BY <2>4
    <3>2. QED BY <2>5, <3>1, Zenon DEF Stands
  <2>7. PICK e \in 1..(Len(head) + Len(rest)) :
             e = Len(text) /\ ~(e <= Len(head)) /\ e - Len(head) = a + 1 + Len(l) - 1
    <3>1. PICK h \in Nat, m \in Nat : h = Len(head) /\ m = Len(l)
      BY <1>6, <2>4
    <3>2. Len(text) = h + (a + m) /\ Len(rest) = a + m /\ m # 0
      BY <1>7, <2>4, <2>5, <3>1
    <3>3. PICK e \in Nat : e = h + (a + m)
      BY <2>2, <3>1
    <3>4. e \in 1..(h + (a + m)) /\ ~(e <= h) /\ e - h = a + 1 + m - 1
      BY <3>2, <3>3, LastPlace
    <3>5. QED BY <3>1, <3>2, <3>3, <3>4, Zenon
  <2>8. text[e] = rest[e - Len(head)]
    BY <1>7, <2>7, Zenon
  <2>9. text[Len(text)] = NewLine
    BY <2>4, <2>6, <2>7, <2>8, Zenon
  <2>10. QED BY <1>2, <1>6, <1>7, <2>9 DEF text, Last, Text, rest, lines, head
<1>11. QED BY <1>9, <1>10

(* A file that an export wrote and that has no empty line is read as the     *)
(* statements that bring the rows back: each row that was selected is        *)
(* inserted, once and in order, the rules applied, NULL for what was skipped *)
(* and apostrophes doubled - nothing else, and none is refused, whatever     *)
(* commas, quotation marks and line ends the values hold (GetSchemaData,     *)
(* WvCsv.GetLine, Csv2Inserts, Normalize and the parts PutSchemaData sends). *)
THEOREM ExportComesBack ==
  ASSUME NoText, NEW table, NEW rows, NEW where, NEW rules,
         NEW cols \in Seq(Text), cols = ExportedColumns(rules, table), cols # <<>>, IsInjective(cols),
         \A j \in 1..Len(cols) : cols[j] \in Names /\ Unquoted(cols[j]),
         NEW selected \in Seq([Names -> Value]), selected = Selected(rows, where),
         \A i \in 1..Len(selected), j \in 1..Len(cols) :
           /\ Exported(rules, table, cols[j], selected[i][cols[j]]) \in Value
           /\ Accepted(cols[j], Doubled(Exported(rules, table, cols[j], selected[i][cols[j]]))),
         NoEmptyLine(GetSchemaData(table, rows, where, rules))
  PROVE  InParts(Normalize([head |-> table, text |-> GetSchemaData(table, rows, where, rules)]))
           = [i \in 1..Len(selected) |-> Insert(table, AsExported(rules, table, cols, selected[i]))]
<1> DEFINE n == Len(selected)
           m == Len(cols)
           Cell(i, j) == Exported(rules, table, cols[j], selected[i][cols[j]])
           vals == [i \in 1..n |-> [j \in 1..m |-> Cell(i, j)]]
           text == GetSchemaData(table, rows, where, rules)
           made == [i \in 1..n |-> Insert(table, AsExported(rules, table, cols, selected[i]))]
<1>1. n \in Nat /\ m \in Nat /\ m # 0 /\ DOMAIN cols = 1..m
  BY EmptySeq
<1>2. \A i \in 1..n, j \in 1..m : Cell(i, j) \in Value /\ Accepted(cols[j], Doubled(Cell(i, j)))
  BY Zenon
<1>3. \A i \in 1..n : vals[i] = [j \in 1..m |-> Cell(i, j)]
  BY Zenon
<1>4. \A i \in 1..n : vals[i] \in [1..m -> Value]
  BY <1>2, <1>3
<1>5. \A i \in 1..n : /\ vals[i] \in Seq(Value) /\ Len(vals[i]) = m /\ vals[i] # <<>>
                      /\ \A j \in 1..m : vals[i][j] = Cell(i, j)
  <2>1. ASSUME NEW i \in 1..n PROVE \A j \in 1..m : vals[i][j] = Cell(i, j)
    BY <1>3, Zenon
  <2>2. ASSUME NEW i \in 1..n PROVE vals[i] \in Seq(Value) /\ Len(vals[i]) = m /\ vals[i] # <<>>
    <3>1. PICK v \in [1..m -> Value] : v = vals[i]
      BY <1>4
    <3>2. v \in Seq(Value) /\ Len(v) = m
      BY <1>1, <3>1
    <3>3. v # <<>>
      BY <1>1, <3>2
    <3>4. QED BY <3>1, <3>2, <3>3, Zenon
  <2>3. QED BY <2>1, <2>2
<1>6. vals \in [1..n -> Seq(Value)]
  BY <1>5, Zenon
<1> HIDE DEF Cell
<1>7. text = HeadLine(cols) \o FlattenSeq(RowLines(vals)) /\ vals \in Seq(Seq(Value)) /\ Len(vals) = n
  <2> HIDE DEF vals, n
  <2>1. vals \in Seq(Seq(Value)) /\ Len(vals) = n
    BY <1>1, <1>6
  <2>2. \A i \in 1..Len(selected) :
          vals[i] = [j \in 1..Len(cols) |-> Exported(rules, table, cols[j], selected[i][cols[j]])]
    BY <1>3, Zenon DEF Cell, n
  <2>3. Len(vals) = Len(selected)
    BY <2>1 DEF n
  <2>4. DataOf(table, rows, where, rules, cols, vals)
    BY <2>2, <2>3, DataIs
  <2>5. QED BY <2>1, <2>4, Zenon DEF DataOf, text
<1> HIDE DEF vals, text
<1>8. CsvLines(text) = <<cols>> \o AsRead(vals)
  <2>1. \A i \in 1..Len(vals) : vals[i] # <<>>
    BY <1>5, <1>7, Zenon
  <2>2. \A i \in 1..Len(cols) : Unquoted(cols[i])
    OBVIOUS
  <2>3. QED BY <1>7, <2>1, <2>2, ExportRead
<1>9. PICK back : back = AsRead(vals)
  OBVIOUS
<1>10. /\ back \in Seq(Seq(Value)) /\ Len(back) = n
       /\ \A i \in 1..n : Len(back[i]) = m /\ \A j \in 1..m : back[i][j] = Doubled(Cell(i, j))
  <2>1. /\ back \in Seq(Seq(Value)) /\ Len(back) = n
        /\ \A i \in 1..n : back[i] = [j \in 1..Len(vals[i]) |-> Doubled(vals[i][j])]
    BY <1>7, <1>9, RowLinesAre
  <2>2. ASSUME NEW i \in 1..n PROVE Len(back[i]) = m /\ \A j \in 1..m : back[i][j] = Doubled(Cell(i, j))
    <3>1. back[i] = [j \in 1..m |-> Doubled(vals[i][j])]
      BY <1>5, <2>1, Zenon
    <3>2. \A j \in 1..m : back[i][j] = Doubled(Cell(i, j))
      BY <1>5, <3>1, Zenon
    <3>3. Len(back[i]) = m
      <4>1. DOMAIN back[i] = 1..m /\ back[i] \in Seq(Value)
        BY <2>1, <3>1
      <4>2. QED BY <1>1, <4>1, LenProperties
    <3>4. QED BY <3>2, <3>3
  <2>3. QED BY <2>1, <2>2
<1>11. /\ Len(<<cols>> \o back) = n + 1 /\ (<<cols>> \o back)[1] = cols /\ <<cols>> \o back # <<>>
       /\ \A i \in 1..n : (<<cols>> \o back)[i + 1] = back[i]
  <2>1. cols \in Seq(Value)
    BY SeqMonotonic DEF Value
  <2>2. QED BY <1>1, <1>10, <2>1, HeadFirst
<1>12. PICK lines : lines = <<cols>> \o back
  OBVIOUS
<1>13. InsertsOf(table, lines) = [i \in 1..n |-> Insert(table, RowOf(cols, lines[i + 1]))]
  <2>1. Len(lines) = n + 1 /\ lines[1] = cols /\ lines # <<>>
    BY <1>11, <1>12, Zenon
  <2>2. ASSUME NEW i \in 1..n
        PROVE  Len(lines[i + 1]) = Len(cols) /\ \A j \in DOMAIN cols : Accepted(cols[j], lines[i + 1][j])
    <3>1. lines[i + 1] = back[i]
      BY <1>11, <1>12, Zenon
    <3>2. ASSUME NEW j \in 1..m PROVE Accepted(cols[j], lines[i + 1][j])
      <4>1. lines[i + 1][j] = Doubled(Cell(i, j))
        BY <1>10, <3>1, Zenon
      <4>2. QED BY <1>2, <4>1, Zenon
    <3>3. Len(lines[i + 1]) = m
      BY <1>10, <3>1, Zenon
    <3>4. QED BY <1>1, <3>2, <3>3, Zenon
  <2>3. DOMAIN cols = 1..Len(cols) /\ \A j \in DOMAIN cols : cols[j] \in Names
    BY <1>1, Zenon
  <2> HIDE DEF n, m
  <2>4. InsertsMade(table, cols, n, lines)
    BY <1>1, <2>1, <2>2, <2>3, InsertsAre
  <2>5. QED BY <2>4, Zenon DEF InsertsMade
<1>14. ASSUME NEW i \in 1..n PROVE RowOf(cols, lines[i + 1]) = AsExported(rules, table, cols, selected[i])
  <2>1. PICK v : v = lines[i + 1] /\ v = back[i]
    BY <1>11, <1>12, Zenon
  <2>2. ASSUME NEW c \in Names
        PROVE  RowOf(cols, v)[c] = IF c \in ToSet(cols) THEN Doubled(Exported(rules, table, c, selected[i][c])) ELSE NULL
    <3>1. CASE \E j \in 1..m : cols[j] = c
      <4>1. PICK j \in 1..m : cols[j] = c
        BY <3>1
      <4>2. RowOf(cols, v)[c] = v[j]
        BY <1>1, <4>1, RowIs
      <4>3. v[j] = Doubled(Exported(rules, table, c, selected[i][c]))
        BY <1>10, <2>1, <4>1, ZenonT(40) DEF Cell
      <4>4. c \in ToSet(cols)
        BY <1>1, <4>1, Zenon DEF ToSet
      <4>5. QED BY <4>2, <4>3, <4>4, Zenon
    <3>2. CASE ~\E j \in 1..m : cols[j] = c
      <4>1. RowOf(cols, v)[c] = NULL
        BY <1>1, <3>2, RowIs
      <4>2. c \notin ToSet(cols)
        BY <1>1, <3>2, Zenon DEF ToSet
      <4>3. QED BY <4>1, <4>2, Zenon
    <3>3. QED BY <3>1, <3>2
  <2>3. RowOf(cols, v) = [c \in Names |-> RowOf(cols, v)[c]]
    BY Zenon DEF RowOf
  <2>4. RowOf(cols, v) = AsExported(rules, table, cols, selected[i])
    BY <2>2, <2>3, Zenon DEF AsExported
  <2>5. QED BY <2>1, <2>4, Zenon
<1>15. Csv2Inserts(table, text) = made
  <2>1. Csv2Inserts(table, text) = InsertsOf(table, lines)
    BY <1>8, <1>9, <1>12, Zenon DEF Csv2Inserts
  <2>2. QED BY <1>13, <1>14, <2>1, Zenon
<1>16. text \in Text /\ text # <<>> /\ Last(text) = NewLine
  <2>1. \A i \in 1..Len(cols) : Unquoted(cols[i])
    OBVIOUS
  <2>2. QED BY <1>7, <2>1, DataEnds
<1>17. CsvPart(text) = text /\ SqlPart(text) = <<>>
  BY <1>16, AllRows DEF text
<1> HIDE DEF made
<1>18. DOMAIN made = 1..n /\ made = [i \in 1..n |-> made[i]] /\ \A i \in 1..n : made[i].kind = "insert"
  BY DEF made, Insert
<1>19. \A i \in 1..n : made[i] # Bad
  BY <1>18 DEF Bad
<1>20. Normalize([head |-> table, text |-> text]) = made
  <2>1. PICK file : file = [head |-> table, text |-> text]
    OBVIOUS
  <2>2. file.head = table /\ file.text = text
    BY <2>1
  <2>3. \A i \in DOMAIN SqlPart(text) : SqlPart(text)[i] = NewLine
    BY <1>17
  <2>4. Normalize(file) = made \o <<>>
    BY <1>15, <1>17, <2>2, <2>3, Zenon DEF Normalize
  <2>5. made \o <<>> = made
    <3>1. made \in [1..n -> {made[i] : i \in 1..n}]
      BY <1>18, Zenon
    <3>2. made \in Seq({made[i] : i \in 1..n})
      BY <1>1, <3>1, SMTT(30)
    <3>3. QED BY <3>2, ConcatEmptySeq, Zenon
  <2>6. QED BY <2>1, <2>4, <2>5, Zenon
<1>21. InParts(made) = made
  BY <1>1, <1>18, <1>19, AllInParts
<1>22. InParts(Normalize([head |-> table, text |-> text])) = made
  BY <1>20, <1>21, Zenon
<1>23. QED BY <1>22, Zenon DEF made, text
=============================================================================
