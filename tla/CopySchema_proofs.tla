------------------------- MODULE CopySchema_proofs --------------------------
(***************************************************************************)
(* Theorems about CopySchema, for any elements and needs, any number of     *)
(* copies, other clients' changes and failures.                             *)
(***************************************************************************)
EXTENDS CopySchema, FiniteSetTheorems, SequenceTheorems, TLAPS

USE KeysAssumption, NeedsAssumption, VersionsAssumption, ModesAssumption,
    BoundsAssumption

(* The empty list of checksums or texts.                                    *)
LEMMA EmptyTyped ==
  /\ DOMAIN <<>> = {}
  /\ <<>> \in SumSets
  /\ <<>> \in UNION {[K -> Texts] : K \in SUBSET Keys}
<1>1. ASSUME NEW S
      PROVE  <<>> \in [{} -> S]
  <2>1. <<>> \in Seq(S) /\ Len(<<>>) = 0
    BY EmptySeq
  <2>2. <<>> \in [1..0 -> S]
    BY <2>1, LenProperties
  <2>3. QED BY <2>2
<1>2. DOMAIN <<>> = {}
  BY <1>1
<1>3. <<>> \in SumSets
  BY <1>1 DEF SumSets
<1>4. <<>> \in UNION {[K -> Texts] : K \in SUBSET Keys}
  BY <1>1
<1>5. QED BY <1>2, <1>3, <1>4

(* Functions on some of the elements.                                       *)
LEMMA OnKeys ==
  ASSUME NEW S, NEW f
  PROVE  f \in UNION {[K -> S] : K \in SUBSET Keys}
           <=> /\ DOMAIN f \subseteq Keys
               /\ f = [k \in DOMAIN f |-> f[k]]
               /\ \A k \in DOMAIN f : f[k] \in S
<1>1. ASSUME NEW K \in SUBSET Keys, f \in [K -> S]
      PROVE  /\ DOMAIN f \subseteq Keys
             /\ f = [k \in DOMAIN f |-> f[k]]
             /\ \A k \in DOMAIN f : f[k] \in S
  BY <1>1
<1>2. ASSUME DOMAIN f \subseteq Keys, f = [k \in DOMAIN f |-> f[k]],
             \A k \in DOMAIN f : f[k] \in S
      PROVE  \E K \in SUBSET Keys : f \in [K -> S]
  BY <1>2
<1>3. QED BY <1>1, <1>2

(* Each side's checksums, and what Get retrieves, are well typed.           *)
LEMMA BackendsTyped ==
  ASSUME TypeOK
  PROVE  /\ SourceSums \in SumSets /\ DestSums \in SumSets
         /\ Retrieved \in UNION {[K -> Texts] : K \in SUBSET Keys}
         /\ DOMAIN Retrieved \subseteq names
<1>1. Readable \subseteq Keys /\ \A k \in Readable : disk[k].text \in Texts
  BY DEF TypeOK, Readable, Files
<1>2. DiskSums \in SumSets
  <2>1. \A k \in Readable : DiskSums[k] \in Sums
    BY <1>1 DEF TypeOK, DiskSums, Files, Sums
  <2>2. DiskSums \in [Readable -> Sums]
    BY <2>1 DEF DiskSums
  <2>3. QED BY <1>1, <2>2 DEF SumSets
<1>3. DbSums \in SumSets
  <2>1. DOMAIN DbText \subseteq Keys
    BY DEF DbText
  <2>2. \A k \in DOMAIN DbText : Checksum(db[k]) \in Sums
    BY DEF TypeOK, DbText, Sums
  <2>3. DbSums \in [DOMAIN DbText -> Sums]
    BY <2>2 DEF DbSums
  <2>4. QED BY <2>1, <2>3 DEF SumSets
<1>4. ASSUME NEW text, DOMAIN text \subseteq Keys,
             \A k \in DOMAIN text : text[k] \in Texts
      PROVE  [k \in names \cap DOMAIN text |-> text[k]]
               \in UNION {[K -> Texts] : K \in SUBSET Keys}
  <2>1. [k \in names \cap DOMAIN text |-> text[k]]
          \in [names \cap DOMAIN text -> Texts]
    BY <1>4
  <2>2. QED BY <2>1, <1>4
<1>5. /\ DOMAIN DbText \subseteq Keys
      /\ \A k \in DOMAIN DbText : DbText[k] \in Texts
  BY DEF DbText, TypeOK, Texts
<1>6. /\ DOMAIN DiskText \subseteq Keys
      /\ \A k \in DOMAIN DiskText : DiskText[k] \in Texts
  BY <1>1 DEF DiskText
<1>7. Retrieved \in UNION {[K -> Texts] : K \in SUBSET Keys}
  BY <1>4, <1>5, <1>6 DEF Retrieved
<1>8. DOMAIN Retrieved \subseteq names
  BY DEF Retrieved
<1>9. QED BY <1>2, <1>3, <1>7, <1>8 DEF SourceSums, DestSums

(* DROP takes elements away; CREATE and ALTER give an element a text.       *)
LEMMA DbTyped ==
  ASSUME db \in [Keys -> Versions \cup {None}]
  PROVE  /\ \A k : DbDrop(k) => db' \in [Keys -> Versions \cup {None}]
         /\ \A k \in Keys, v \in Versions :
              [db EXCEPT ![k] = v] \in [Keys -> Versions \cup {None}]
         /\ \A k \in Keys, v \in Texts : Fits(k, v) => v \in Versions
<1>1. ASSUME NEW k, DbDrop(k)
      PROVE  db' \in [Keys -> Versions \cup {None}]
  BY <1>1 DEF DbDrop
<1>2. \A k \in Keys, v \in Versions :
        [db EXCEPT ![k] = v] \in [Keys -> Versions \cup {None}]
  OBVIOUS
<1>3. \A k \in Keys, v \in Texts : Fits(k, v) => v \in Versions
  BY DEF Fits, Texts
<1>4. QED BY <1>1, <1>2, <1>3

(* Any file that is written is well typed.                                  *)
LEMMA FilesTyped ==
  /\ NoFile \in Files /\ TornFile \in Files
  /\ \A t \in Texts, s \in Sums : File(t, s) \in Files
  /\ \A t \in Texts, s \in Sums : [text |-> Cut, md5 |-> t, sum |-> s] \in Files
  /\ \A v \in Versions : Checksum(v) \in Sums /\ v \in Texts
  /\ \A f \in Files, v \in Texts : [f EXCEPT !.text = v] \in Files
<1>1. NoSum \in Sums /\ Cut \in Texts
  BY DEF Sums, Texts
<1>2. NoFile \in Files /\ TornFile \in Files
  BY <1>1 DEF NoFile, TornFile, File, Files
<1>3. \A t \in Texts, s \in Sums : File(t, s) \in Files
  BY DEF File, Files
<1>4. \A t \in Texts, s \in Sums :
        [text |-> Cut, md5 |-> t, sum |-> s] \in Files
  BY <1>1 DEF Files
<1>5. \A v \in Versions : Checksum(v) \in Sums /\ v \in Texts
  BY DEF Sums, Texts
<1>6. \A f \in Files, v \in Texts : [f EXCEPT !.text = v] \in Files
  BY DEF Files
<1>7. QED BY <1>2, <1>3, <1>4, <1>5, <1>6

-----------------------------------------------------------------------------
(* CopyInv is inductive.  What a step does to the two sides, to the copy    *)
(* and to the errors is looked at apart.                                    *)

SidesTyped == db \in [Keys -> Versions \cup {None}] /\ disk \in [Keys -> Files]
UsedTyped == used \in [Keys -> SUBSET Versions]
BudgetTyped ==
  edits \in 0..MaxEdits /\ fails \in 0..MaxFails /\ copies \in 0..MaxCopies
PlanTyped ==
  /\ pc \in {"idle", "source", "dest", "get", "drop", "put", "redo", "create"}
  /\ dir \in Directions /\ opts \in Options
  /\ srcsums \in SumSets /\ destsums \in SumSets
  /\ to_drop \subseteq Keys
  /\ to_put \in UNION {[K -> Texts] : K \in SUBSET Keys}
PassTyped ==
  /\ keys \subseteq DOMAIN to_put
  /\ pc \in {"redo", "create"} => cur \in keys
  /\ put_errs \subseteq DOMAIN to_put /\ drop_errs \subseteq Keys
  /\ old_err_count \in -1..Cardinality(Keys)
PlanHeld ==
  /\ pc \in {"source", "dest", "get"} => keys = {} /\ put_errs = {}
  /\ pc = "get" \/ Changing => srcsums # <<>>
  /\ Changing =>
       /\ ~opts.dry_run
       /\ to_drop \subseteq Remove(srcsums, destsums)
       /\ DOMAIN to_put \subseteq names
  /\ pc \in {"redo", "create"} => dir = "push"
  /\ pc = "redo" /\ cur \in Tables => opts.destructive

LEMMA InParts ==
  CopyInv <=> /\ SidesTyped /\ UsedTyped /\ BudgetTyped
              /\ PlanTyped /\ PassTyped /\ PlanHeld
BY DEF CopyInv, TypeOK, SidesTyped, UsedTyped, BudgetTyped, PlanTyped, PassTyped,
   PlanHeld

(* What is to be put has a text, and a checksum while a copy changes things. *)
LEMMA PutTyped ==
  ASSUME CopyInv
  PROVE  /\ DOMAIN to_put \subseteq Keys
         /\ \A k \in DOMAIN to_put : to_put[k] \in Texts
         /\ Changing => \A k \in DOMAIN to_put : srcsums[k] \in Sums
         /\ \A k : Fresh(k) \subseteq Versions
<1>1. /\ DOMAIN to_put \subseteq Keys
      /\ \A k \in DOMAIN to_put : to_put[k] \in Texts
  BY OnKeys DEF CopyInv, TypeOK
<1>2. ASSUME Changing
      PROVE  \A k \in DOMAIN to_put : srcsums[k] \in Sums
  <2>1. DOMAIN to_put \subseteq DOMAIN srcsums
    BY <1>2 DEF CopyInv, names, AddOrChange
  <2>2. \A k \in DOMAIN srcsums : srcsums[k] \in Sums
    BY OnKeys DEF CopyInv, TypeOK, SumSets
  <2>3. QED BY <2>1, <2>2
<1>3. \A k : Fresh(k) \subseteq Versions
  BY DEF Fresh
<1>4. QED BY <1>1, <1>2, <1>3

LEMMA CopyInit == Init => CopyInv
<1> SUFFICES ASSUME Init PROVE CopyInv
  OBVIOUS
<1>1. db \in [Keys -> Versions \cup {None}]
  BY DEF Init
<1>2. disk \in [Keys -> Files]
  BY FilesTyped DEF Init
<1>3. \A k \in Keys : {db[k], disk[k].text} \ {None} \subseteq Versions
  BY DEF Init, File, NoFile
<1>4. UsedTyped
  BY <1>3 DEF Init, UsedTyped
<1>5. PlanTyped
  BY EmptyTyped DEF Init, PlanTyped
<1>6. PassTyped
  <2>1. Cardinality(Keys) \in Nat
    BY FS_CardinalityType
  <2>2. QED BY <2>1, EmptyTyped DEF Init, PassTyped
<1>7. PlanHeld
  BY DEF Init, PlanHeld, Changing
<1>8. BudgetTyped
  BY DEF Init, BudgetTyped
<1>9. QED BY <1>1, <1>2, <1>4, <1>5, <1>6, <1>7, <1>8, InParts DEF SidesTyped

(* No step gives the two sides or the history anything but texts.           *)
LEMMA SidesStep ==
  ASSUME CopyInv, [Next]_vars
  PROVE  SidesTyped' /\ UsedTyped'
<1> USE DEF SidesTyped, UsedTyped
<1>1. SidesTyped /\ UsedTyped
  BY InParts
<1>2. /\ \A k \in DOMAIN to_put : k \in Keys /\ to_put[k] \in Texts
      /\ Changing => \A k \in DOMAIN to_put : srcsums[k] \in Sums
      /\ \A k : Fresh(k) \subseteq Versions
      /\ keys \subseteq DOMAIN to_put
  BY PutTyped DEF CopyInv, TypeOK
<1>3. \A k \in Keys : \A v \in Fresh(k) : Use(k, v) => UsedTyped'
  BY <1>1, <1>2 DEF Use
<1>4. ASSUME NEW d \in Directions, NEW o \in Options, Start(d, o)
      PROVE  SidesTyped' /\ UsedTyped'
  BY <1>4, <1>1 DEF Start
<1>5. CASE GetSourceChecksums \/ GetDestChecksums \/ Get \/ EndDrop
           \/ PutFilesDone \/ PutSchemaElement \/ EndPass
  BY <1>5, <1>1 DEF GetSourceChecksums, GetDestChecksums, Get, EndDrop,
     PutFilesDone, PutSchemaElement, EndPass, NextPass, hist
<1>6. CASE DropFile
  <2>1. PICK k \in to_drop : disk' = [disk EXCEPT ![k] = NoFile]
    BY <1>6 DEF DropFile
  <2>2. QED BY <2>1, <1>6, <1>1, FilesTyped DEF DropFile, hist
<1>7. CASE DropElement
  BY <1>7, <1>1, DbTyped DEF DropElement, hist
<1>8. CASE PutFile
  <2>1. PICK k \in keys : disk' = [disk EXCEPT ![k] = File(to_put[k], srcsums[k])]
    BY <1>8 DEF PutFile
  <2>2. File(to_put[k], srcsums[k]) \in Files
    BY <1>8, <1>2, FilesTyped DEF PutFile, Changing
  <2>3. QED BY <2>1, <2>2, <1>8, <1>1 DEF PutFile, hist
<1>9. CASE AlterTable
  <2>1. PICK k \in Turn \cap Tables :
          \/ /\ Fits(k, to_put[k]) /\ db' = [db EXCEPT ![k] = to_put[k]]
             /\ UNCHANGED used
          \/ UNCHANGED <<db, used>>
          \/ \E v \in Fresh(k) : Use(k, v) /\ db' = [db EXCEPT ![k] = v]
    BY <1>9 DEF AlterTable
  <2>2. k \in Keys /\ to_put[k] \in Texts
    BY <1>2 DEF Turn
  <2>3. disk' = disk
    BY <1>9 DEF AlterTable
  <2>4. CASE Fits(k, to_put[k]) /\ db' = [db EXCEPT ![k] = to_put[k]]
             /\ UNCHANGED used
    BY <2>2, <2>3, <2>4, <1>1, DbTyped
  <2>5. CASE UNCHANGED <<db, used>>
    BY <2>3, <2>5, <1>1
  <2>6. ASSUME NEW v \in Fresh(k), Use(k, v), db' = [db EXCEPT ![k] = v]
        PROVE  SidesTyped' /\ UsedTyped'
    BY <2>2, <2>3, <2>6, <1>1, <1>2, <1>3, DbTyped
  <2>7. QED BY <2>1, <2>4, <2>5, <2>6
<1>10. CASE Redo
  BY <1>10, <1>1, DbTyped DEF Redo, hist
<1>11. CASE Create
  <2>1. cur \in DOMAIN to_put
    BY <1>11, <1>2 DEF Create, CopyInv, TypeOK
  <2>2. QED BY <2>1, <1>11, <1>1, <1>2, DbTyped DEF Create, hist
<1>12. CASE Killed
  <2>1. CASE UNCHANGED disk
    BY <2>1, <1>12, <1>1 DEF Killed, hist
  <2>2. ASSUME pc = "put", NEW k \in keys, NEW f \in Files,
               disk' = [disk EXCEPT ![k] = f]
        PROVE  SidesTyped' /\ UsedTyped'
    BY <2>2, <1>12, <1>1 DEF Killed, hist
  <2>3. pc = "put" => \A k \in keys :
          /\ [text |-> Cut, md5 |-> to_put[k], sum |-> srcsums[k]] \in Files
          /\ TornFile \in Files
    BY <1>2, FilesTyped DEF Changing
  <2>4. QED BY <1>12, <2>1, <2>2, <2>3 DEF Killed
<1>13. CASE DbEdit
  <2>1. PICK k \in Keys :
          \/ \E v \in Fresh(k) : db' = [db EXCEPT ![k] = v] /\ Use(k, v)
          \/ DbDrop(k) /\ UNCHANGED used
    BY <1>13 DEF DbEdit
  <2>2. disk' = disk
    BY <1>13 DEF DbEdit
  <2>3. QED BY <2>1, <2>2, <1>1, <1>2, <1>3, DbTyped
<1>14. CASE DiskEdit
  <2>1. PICK k \in Keys :
          \/ \E v \in Fresh(k) : disk' = [disk EXCEPT ![k].text = v] /\ Use(k, v)
          \/ \E v \in Fresh(k) :
               disk' = [disk EXCEPT ![k] = File(v, Checksum(v))] /\ Use(k, v)
          \/ disk' = [disk EXCEPT ![k] = NoFile] /\ UNCHANGED used
          \/ disk' = [disk EXCEPT ![k] = TornFile] /\ UNCHANGED used
    BY <1>14 DEF DiskEdit
  <2>2. db' = db
    BY <1>14 DEF DiskEdit
  <2>3. \A v \in Fresh(k) : /\ [disk[k] EXCEPT !.text = v] \in Files
                            /\ File(v, Checksum(v)) \in Files
    BY <1>1, <1>2, FilesTyped
  <2>4. \A v : [disk EXCEPT ![k].text = v]
                = [disk EXCEPT ![k] = [disk[k] EXCEPT !.text = v]]
    BY <1>1 DEF Files
  <2>5. QED BY <2>1, <2>2, <2>3, <2>4, <1>1, <1>3, FilesTyped
<1>15. CASE UNCHANGED vars
  BY <1>15, <1>1 DEF vars, hist
<1>16. QED BY <1>4, <1>5, <1>6, <1>7, <1>8, <1>9, <1>10, <1>11, <1>12, <1>13,
       <1>14, <1>15 DEF Next, Copier, Rest

(* The bounds are only counted down.                                        *)
LEMMA BudgetStep ==
  ASSUME CopyInv, [Next]_vars
  PROVE  BudgetTyped'
<1>1. BudgetTyped
  BY InParts
<1>2. /\ UNCHANGED edits \/ (edits > 0 /\ edits' = edits - 1)
      /\ UNCHANGED fails \/ Fails
      /\ UNCHANGED copies \/ (copies > 0 /\ copies' = copies - 1)
  <2>1. CASE \/ \E d \in Directions, o \in Options : Start(d, o)
             \/ DbEdit \/ DiskEdit \/ UNCHANGED vars
    BY <2>1 DEF Start, DbEdit, DiskEdit, Edit, vars, budget
  <2>2. CASE Copier \/ Killed
    BY <2>2 DEF Copier, Killed, GetSourceChecksums, GetDestChecksums, Get,
       DropFile, DropElement, EndDrop, PutFile, PutFilesDone, AlterTable,
       PutSchemaElement, Redo, Create, EndPass, NextPass, budget
  <2>3. QED BY <2>1, <2>2 DEF Next, Rest
<1>3. fails' = fails \/ (fails > 0 /\ fails' = fails - 1)
  BY <1>2 DEF Fails
<1>4. QED BY <1>1, <1>2, <1>3 DEF BudgetTyped

(* A step's plan is typed, and held to until the copy ends.                 *)
LEMMA PlanStep ==
  ASSUME CopyInv, [Next]_vars
  PROVE  PlanTyped' /\ PassTyped' /\ PlanHeld'
<1> USE DEF PlanTyped, PassTyped, PlanHeld, Changing, names, mode, sums, work,
            budget
<1>1. PlanTyped /\ PassTyped /\ PlanHeld
  BY InParts
<1>2. DOMAIN to_put \subseteq Keys /\ Cardinality(Keys) \in Nat
  BY PutTyped, FS_CardinalityType
<1>3. ASSUME NEW d \in Directions, NEW o \in Options, Start(d, o)
      PROVE  PlanTyped' /\ PassTyped' /\ PlanHeld'
  <2>1. PlanTyped'
    BY <1>3, <1>1, EmptyTyped DEF Start
  <2>2. PassTyped'
    BY <1>3, <1>2, EmptyTyped DEF Start
  <2>3. PlanHeld'
    BY <1>3, <1>1 DEF Start
  <2>4. QED BY <2>1, <2>2, <2>3
<1>4. ASSUME NEW how, Finish(how), UNCHANGED mode,
             UNCHANGED <<to_drop, to_put, keys, drop_errs, put_errs,
                         old_err_count>>
      PROVE  PlanTyped' /\ PassTyped' /\ PlanHeld'
  BY <1>4, <1>1, EmptyTyped DEF Finish
<1>5. CASE GetSourceChecksums
  BY <1>5, <1>1, BackendsTyped DEF GetSourceChecksums, CopyInv
<1>6. CASE GetDestChecksums
  <2>1. CASE \E how : Finish(how)
    BY <2>1, <1>4, <1>6 DEF GetDestChecksums
  <2>2. CASE ~\E how : Finish(how)
    <3>1. srcsums # <<>> /\ destsums' = DestSums /\ UNCHANGED srcsums
          /\ pc = "dest" /\ pc' = "get" /\ UNCHANGED <<mode, work>>
      BY <2>2, <1>6 DEF GetDestChecksums
    <3>2. QED BY <3>1, <1>1, BackendsTyped DEF CopyInv
  <2>3. QED BY <2>1, <2>2
<1>7. CASE Get
  <2>1. CASE \E how : Finish(how)
    <3>1. UNCHANGED <<mode, to_drop, to_put, keys, drop_errs, put_errs,
                      old_err_count>>
      BY <2>1, <1>7 DEF Get, Finish
    <3>2. QED BY <2>1, <3>1, <1>4
  <2>2. CASE ~\E how : Finish(how)
    <3>1. /\ pc = "get" /\ pc' = "drop" /\ ~opts.dry_run
          /\ to_put' = Retrieved /\ to_drop' = Remove(srcsums, destsums)
          /\ UNCHANGED <<mode, sums, keys, cur, drop_errs, put_errs,
                         old_err_count>>
      BY <2>2, <1>7 DEF Get
    <3>2. DOMAIN destsums \subseteq Keys
      BY <1>1, OnKeys DEF SumSets
    <3>3. Remove(srcsums, destsums) \subseteq Keys
      BY <3>2 DEF Remove
    <3>4. TypeOK
      BY DEF CopyInv
    <3>5. PlanTyped'
      BY <3>1, <3>3, <3>4, <1>1, BackendsTyped
    <3>6. PassTyped'
      BY <3>1, <1>1
    <3>7. PlanHeld'
      BY <3>1, <3>4, <1>1, BackendsTyped
    <3>8. QED BY <3>5, <3>6, <3>7
  <2>3. QED BY <2>1, <2>2
<1>8. CASE DropFile
  BY <1>8, <1>1 DEF DropFile
<1>9. CASE DropElement
  BY <1>9, <1>1 DEF DropElement
<1>10. CASE EndDrop
  <2>1. CASE \E how : Finish(how)
    <3>1. UNCHANGED keys
      BY <2>1, <1>10 DEF EndDrop, Finish
    <3>2. QED BY <2>1, <3>1, <1>4, <1>10 DEF EndDrop
  <2>2. CASE ~\E how : Finish(how)
    BY <2>2, <1>10, <1>1 DEF EndDrop
  <2>3. QED BY <2>1, <2>2
<1>11. CASE PutFile
  BY <1>11, <1>1 DEF PutFile
<1>12. CASE PutFilesDone
  BY <1>12, <1>4 DEF PutFilesDone
<1>13. CASE AlterTable
  BY <1>13, <1>1 DEF AlterTable, Turn
<1>14. CASE PutSchemaElement
  BY <1>14, <1>1 DEF PutSchemaElement, Turn
<1>15. CASE Redo
  BY <1>15, <1>1 DEF Redo
<1>16. CASE Create
  BY <1>16, <1>1 DEF Create
<1>17. CASE EndPass
  <2>1. Cardinality(put_errs) \in 0..Cardinality(Keys)
    <3>1. put_errs \in SUBSET Keys
      BY <1>1, <1>2
    <3>2. QED BY <3>1, FS_Subset, FS_CardinalityType
  <2>2. PICK again : NextPass(again)
    BY <1>17 DEF EndPass
  <2>3. CASE again
    BY <2>1, <2>2, <2>3, <1>1, <1>2 DEF NextPass
  <2>4. CASE ~again
    BY <2>2, <2>4, <1>4 DEF NextPass
  <2>5. QED BY <2>3, <2>4
<1>18. CASE Killed
  BY <1>18, <1>4 DEF Killed
<1>19. CASE DbEdit \/ DiskEdit \/ UNCHANGED vars
  BY <1>19, <1>1 DEF DbEdit, DiskEdit, Edit, vars
<1>20. QED BY <1>3, <1>5, <1>6, <1>7, <1>8, <1>9, <1>10, <1>11, <1>12, <1>13,
       <1>14, <1>15, <1>16, <1>17, <1>18, <1>19 DEF Next, Copier, Rest

(* So CopyInv is kept by every step.                                        *)
LEMMA CopyHolds ==
  ASSUME CopyInv, [Next]_vars
  PROVE  CopyInv'
BY SidesStep, BudgetStep, PlanStep, InParts DEF CopyInv, TypeOK, SidesTyped,
   UsedTyped, BudgetTyped, PlanTyped, PassTyped, PlanHeld

(* Every variable has its type, and a copy's plan stays what the checksums  *)
(* said when it was made (CopySchema, 685-757).                             *)
THEOREM PlanIsHeld == Spec => []CopyInv
<1>1. CopyInv /\ [Next]_vars => CopyInv'
  BY CopyHolds
<1>2. QED BY CopyInit, <1>1, PTL DEF Spec

-----------------------------------------------------------------------------
(* What a copy's own steps do to the two sides.                             *)

\* An element that a copy may change.
Differs(k) == /\ Changing /\ k \in Keys
              /\ k \in names \cup Remove(srcsums, destsums)

(* What a copy's step may do to an element: write or delete its file, drop  *)
(* it from the database, or give it a text there.                           *)
FileStep(k) == /\ dir = "pull" /\ Differs(k) /\ UNCHANGED db
               /\ \A x \in Keys \ {k} : disk'[x] = disk[x]
DropStep(k) == /\ dir = "push" /\ Differs(k) /\ UNCHANGED disk
               /\ DbDrop(k)
               /\ k \in DOMAIN srcsums /\ k \in Tables => opts.destructive
TextStep(k) == /\ dir = "push" /\ Differs(k) /\ UNCHANGED disk
               /\ \E v \in Versions : db' = [db EXCEPT ![k] = v]

LEMMA StepChanges ==
  ASSUME CopyInv, [Next]_vars, edits' = edits
  PROVE  \/ UNCHANGED <<db, disk>>
         \/ \E k : FileStep(k) \/ DropStep(k) \/ TextStep(k)
<1> USE DEF Changing, FileStep, DropStep, TextStep
<1>1. /\ db \in [Keys -> Versions \cup {None}] /\ disk \in [Keys -> Files]
      /\ edits \in Nat
      /\ pc \in {"redo", "create"} => dir = "push"
      /\ pc = "redo" /\ cur \in Tables => opts.destructive
  BY DEF CopyInv, TypeOK
<1>2. /\ Changing => \A k \in DOMAIN to_put : Differs(k)
      /\ Changing => \A k \in to_drop : Differs(k) /\ k \notin DOMAIN srcsums
      /\ keys \subseteq DOMAIN to_put
      /\ pc \in {"redo", "create"} => cur \in keys
  BY PutTyped DEF CopyInv, TypeOK, Differs, Remove
<1>3. \A k \in DOMAIN to_put : /\ Fits(k, to_put[k]) => to_put[k] \in Versions
                              /\ Fresh(k) \subseteq Versions
  BY PutTyped, DbTyped, <1>1
<1>4. CASE \/ \E d \in Directions, o \in Options : Start(d, o)
           \/ GetSourceChecksums \/ GetDestChecksums \/ Get \/ EndDrop
           \/ PutFilesDone \/ PutSchemaElement \/ EndPass \/ UNCHANGED vars
  BY <1>4 DEF Start, GetSourceChecksums, GetDestChecksums, Get, EndDrop,
     PutFilesDone, PutSchemaElement, EndPass, NextPass, vars
<1>5. CASE DropFile
  BY <1>5, <1>1, <1>2 DEF DropFile
<1>6. CASE DropElement
  BY <1>6, <1>2 DEF DropElement
<1>7. CASE PutFile
  BY <1>7, <1>1, <1>2 DEF PutFile
<1>8. CASE AlterTable
  <2>1. PICK k \in keys :
          \/ Fits(k, to_put[k]) /\ db' = [db EXCEPT ![k] = to_put[k]]
          \/ UNCHANGED db
          \/ \E v \in Fresh(k) : db' = [db EXCEPT ![k] = v]
    BY <1>8 DEF AlterTable, Turn
  <2>2. dir = "push" /\ UNCHANGED disk /\ Differs(k)
    BY <1>8, <1>2 DEF AlterTable
  <2>3. db' = db \/ \E v \in Versions : db' = [db EXCEPT ![k] = v]
    BY <2>1, <1>2, <1>3
  <2>4. QED BY <2>2, <2>3
<1>9. CASE Redo
  BY <1>9, <1>1, <1>2 DEF Redo
<1>10. CASE Create
  BY <1>10, <1>1, <1>2, <1>3 DEF Create
<1>11. CASE Killed
  <2>1. UNCHANGED db
    BY <1>11 DEF Killed
  <2>2. CASE UNCHANGED disk
    BY <2>1, <2>2
  <2>3. CASE ~UNCHANGED disk
    <3>1. PICK k \in keys : \E f : disk' = [disk EXCEPT ![k] = f]
      BY <1>11, <2>3 DEF Killed
    <3>2. pc = "put" /\ dir = "pull"
      BY <1>11, <2>3 DEF Killed
    <3>3. QED BY <2>1, <3>1, <3>2, <1>1, <1>2
  <2>4. QED BY <2>2, <2>3
<1>12. CASE DbEdit \/ DiskEdit
  BY <1>12, <1>1 DEF DbEdit, DiskEdit, Edit
<1>13. QED BY <1>4, <1>5, <1>6, <1>7, <1>8, <1>9, <1>10, <1>11, <1>12
       DEF Next, Copier, Rest

(* A copy changes only its destination and there only elements that         *)
(* differed, or triggers that the server drops with their table.            *)
THEOREM ChangesDifferencesOnly == Spec => OnlyDifferences
<1> DEFINE May(k) == /\ ~opts.dry_run /\ srcsums # <<>>
                     /\ \/ k \in names \cup Remove(srcsums, destsums)
                        \/ k \in Triggers
           Changes == /\ dir = "pull" => db' = db
                      /\ dir = "push" => disk' = disk
                      /\ \A k \in Keys :
                           db'[k] # db[k] \/ disk'[k] # disk[k] => May(k)
<1>1. ASSUME CopyInv, [Next]_vars, edits' = edits
      PROVE  Changes
  <2>1. Changing => ~opts.dry_run /\ srcsums # <<>>
    BY <1>1 DEF CopyInv
  <2>2. db \in [Keys -> Versions \cup {None}]
    BY <1>1 DEF CopyInv, TypeOK
  <2>3. CASE UNCHANGED <<db, disk>>
    BY <2>3
  <2>4. ASSUME NEW k, FileStep(k)
        PROVE  Changes
    BY <2>1, <2>4 DEF FileStep, Differs
  <2>5. ASSUME NEW k, DropStep(k) \/ TextStep(k)
        PROVE  Changes
    <3>1. \A x \in Keys : db'[x] # db[x] => x = k \/ x \in Triggers
      BY <2>5, <2>2 DEF DropStep, TextStep, DbDrop, Gone
    <3>2. dir = "push" /\ Differs(k) /\ UNCHANGED disk
      BY <2>5 DEF DropStep, TextStep
    <3>3. QED BY <2>1, <3>1, <3>2 DEF Differs
  <2>6. \/ UNCHANGED <<db, disk>>
        \/ \E k : FileStep(k) \/ DropStep(k) \/ TextStep(k)
    BY <1>1, StepChanges
  <2>7. QED BY <2>3, <2>4, <2>5, <2>6
<1>2. CopyInv /\ [Next]_vars => [edits' = edits => Changes]_vars
  BY <1>1
<1>3. QED BY PlanIsHeld, <1>2, PTL DEF Spec, OnlyDifferences

(* Without Destructive, a copy drops a table only if the directory had no   *)
(* file for it (PutSchemaElement, vxdbschema.cs:952-970).                   *)
THEOREM KeepsTables == Spec => TableKept
<1>1. ASSUME CopyInv, [Next]_vars, edits' = edits, ~opts.destructive,
             NEW k \in Tables, db[k] # None, db'[k] = None
      PROVE  k \notin DOMAIN srcsums
  <2>1. db \in [Keys -> Versions \cup {None}] /\ k \in Keys
    BY <1>1 DEF CopyInv, TypeOK
  <2>2. db' # db
    BY <1>1
  <2>3. PICK j : FileStep(j) \/ DropStep(j) \/ TextStep(j)
    BY <1>1, <2>2, StepChanges
  <2>4. DbDrop(j) /\ (j \in DOMAIN srcsums /\ j \in Tables => opts.destructive)
    BY <1>1, <2>1, <2>2, <2>3 DEF FileStep, DropStep, TextStep
  <2>5. k \in Gone(j)
    BY <1>1, <2>1, <2>4 DEF DbDrop
  <2>6. k = j
    BY <2>1, <2>5 DEF Gone
  <2>7. QED BY <1>1, <2>4, <2>6
<1>2. CopyInv /\ [Next]_vars =>
        [edits' = edits /\ ~opts.destructive =>
           \A k \in Tables :
             db[k] # None /\ db'[k] = None => k \notin DOMAIN srcsums]_vars
  BY <1>1
<1>3. QED BY PlanIsHeld, <1>2, PTL DEF Spec, TableKept

-----------------------------------------------------------------------------
(* Put's passes.  While no element of a pass has been put, what the elements*)
(* with errors need is missing and stays so; one that has been put makes the*)
(* pass end with fewer errors than the one before, and Put goes on.         *)
NoneFits == \A k \in put_errs : ~Fits(k, to_put[k])
Count == Cardinality(put_errs) + Cardinality(keys)
PassInv ==
  /\ put_errs \cap keys = {}
  /\ pc = "create" => db[cur] = None
  /\ old_err_count = -1 \/ Count <= old_err_count
  /\ Count = old_err_count => NoneFits
  /\ Cardinality(DOMAIN to_put) = 1 => Count <= 1 /\ NoneFits
InPass ==
  pc \in {"put", "redo", "create"} /\ dir = "push" /\ ~disturbed /\ ~failed
RetryInv ==
  /\ pc \in {"source", "dest", "get", "drop"} =>
       put_errs = {} /\ keys = {} /\ old_err_count = -1
  /\ InPass => PassInv
  /\ RetryIsEnough

(* How an element's turn changes the number of elements without a result.   *)
LEMMA CountStep ==
  ASSUME CopyInv, put_errs \cap keys = {}, NEW k \in keys
  PROVE  /\ Count \in Nat \ {0}
         /\ Cardinality(put_errs) + Cardinality(keys \ {k}) = Count - 1
         /\ Cardinality(put_errs \cup {k}) + Cardinality(keys \ {k}) = Count
         /\ Count <= 1 => put_errs = {}
<1>1. IsFiniteSet(put_errs) /\ IsFiniteSet(keys)
  BY PutTyped, FS_Subset DEF CopyInv, TypeOK
<1>2. /\ Cardinality(put_errs) \in Nat /\ Cardinality(keys) \in Nat
      /\ Cardinality(keys \ {k}) = Cardinality(keys) - 1
      /\ Cardinality(keys \ {k}) \in Nat
      /\ Cardinality(put_errs \cup {k}) = Cardinality(put_errs) + 1
      /\ Cardinality(put_errs) = 0 <=> put_errs = {}
  BY <1>1, FS_CardinalityType, FS_RemoveElement, FS_AddElement, FS_EmptySet
<1>3. QED BY <1>2 DEF Count

(* Elements that did not fit still do not when no element has come.         *)
LEMMA StillUnfit ==
  ASSUME \A k \in Keys : db[k] = None => db'[k] = None, UNCHANGED to_put,
         NEW k \in Keys, ~Fits(k, to_put[k])
  PROVE  ~Fits(k, to_put[k])'
BY DEF Fits

(* What one element's turn does to the pass.                                *)
LEMMA TurnPassed ==
  ASSUME CopyInv, PassInv, UNCHANGED <<to_put, old_err_count>>,
         NEW k \in keys, keys' = keys \ {k}, pc' = "put",
         \/ UNCHANGED put_errs
         \/ /\ put_errs' = put_errs \cup {k} /\ ~Fits(k, to_put[k])
            /\ \A x \in Keys : db[x] = None => db'[x] = None
  PROVE  PassInv'
<1>1. k \in Keys /\ put_errs \subseteq Keys /\ old_err_count \in Int
  BY PutTyped DEF CopyInv, TypeOK
<1>2. /\ Count \in Nat \ {0} /\ (Count <= 1 => put_errs = {})
      /\ UNCHANGED put_errs => Count' = Count - 1
      /\ put_errs' = put_errs \cup {k} => Count' = Count
  BY CountStep DEF PassInv, Count
<1>3. CASE UNCHANGED put_errs
  <2>1. Count' = Count - 1 /\ Count' # old_err_count'
    BY <1>1, <1>2, <1>3 DEF PassInv
  <2>2. Cardinality(DOMAIN to_put) = 1 => put_errs = {}
    BY <1>2 DEF PassInv
  <2>3. QED BY <1>1, <1>2, <1>3, <2>1, <2>2 DEF PassInv, NoneFits
<1>4. CASE /\ put_errs' = put_errs \cup {k} /\ ~Fits(k, to_put[k])
           /\ \A x \in Keys : db[x] = None => db'[x] = None
  <2>1. NoneFits => NoneFits'
    BY <1>1, <1>4, StillUnfit DEF NoneFits
  <2>2. Count' = Count
    BY <1>2, <1>4
  <2>3. QED BY <1>4, <2>1, <2>2 DEF PassInv
<1>5. QED BY <1>3, <1>4

(* What a step within an element's turn does to the pass.                   *)
LEMMA KeysPassed ==
  ASSUME CopyInv, PassInv,
         UNCHANGED <<to_put, keys, put_errs, old_err_count>>,
         \A x \in Keys : db[x] = None => db'[x] = None,
         pc' = "create" => db'[cur'] = None
  PROVE  PassInv'
<1>1. put_errs \subseteq Keys
  BY PutTyped DEF CopyInv, TypeOK
<1>2. NoneFits => NoneFits'
  BY <1>1, StillUnfit DEF NoneFits
<1>3. Count' = Count
  BY DEF Count
<1>4. QED BY <1>2, <1>3 DEF PassInv

(* RetryInv is kept by every step.                                          *)
LEMMA RetryStep ==
  ASSUME CopyInv, RetryInv, [Next]_vars
  PROVE  RetryInv'
<1> DEFINE Before == pc \in {"source", "dest", "get", "drop"} =>
                       put_errs = {} /\ keys = {} /\ old_err_count = -1
<1> USE DEF mode, sums, work, hist, budget
<1>1. Before /\ (InPass => PassInv) /\ RetryIsEnough
  BY DEF RetryInv
<1>2. /\ keys \subseteq DOMAIN to_put /\ DOMAIN to_put \subseteq Keys
      /\ pc \in {"redo", "create"} => cur \in keys /\ dir = "push"
      /\ db \in [Keys -> Versions \cup {None}]
  BY PutTyped DEF CopyInv, TypeOK
<1>3. ASSUME UNCHANGED <<pc, put_errs, keys, old_err_count>>, disturbed'
      PROVE  RetryInv'
  BY <1>1, <1>3 DEF RetryInv, InPass, RetryIsEnough, Completed
<1>4. CASE \/ \E d \in Directions, o \in Options : Start(d, o)
           \/ GetSourceChecksums \/ Get \/ DropFile \/ DropElement
           \/ PutFile \/ PutFilesDone
  BY <1>4, <1>1 DEF RetryInv, InPass, RetryIsEnough, Completed, Start, Finish,
     GetSourceChecksums, Get, DropFile, DropElement, PutFile, PutFilesDone
<1>5. CASE GetDestChecksums
  BY <1>5, <1>1 DEF RetryInv, InPass, RetryIsEnough, Completed, Finish,
     GetDestChecksums
<1>6. CASE EndDrop
  <2>1. /\ put_errs = {} /\ old_err_count = -1
        /\ UNCHANGED <<put_errs, old_err_count>>
    BY <1>1, <1>6 DEF EndDrop
  <2>2. CASE names = {}
    BY <2>1, <2>2, <1>6 DEF RetryInv, InPass, RetryIsEnough, Completed, Finish,
       EndDrop
  <2>3. CASE names # {}
    <3>1. pc' = "put" /\ keys' = DOMAIN to_put /\ UNCHANGED to_put
      BY <2>3, <1>6 DEF EndDrop
    <3>2. Cardinality({}) = 0 /\ Cardinality(DOMAIN to_put) \in Nat
      BY <1>2, FS_EmptySet, FS_Subset, FS_CardinalityType
    <3>3. PassInv'
      BY <2>1, <3>1, <3>2 DEF PassInv, Count, NoneFits
    <3>4. QED BY <2>1, <3>1, <3>3 DEF RetryInv, RetryIsEnough, Completed
  <2>4. QED BY <2>2, <2>3
<1>7. ASSUME pc' # "idle", pc' \in {"put", "redo", "create"},
             InPass' => InPass /\ (PassInv => PassInv')
      PROVE  RetryInv'
  BY <1>1, <1>7 DEF RetryInv, RetryIsEnough, Completed
<1>8. CASE AlterTable
  <2>1. PICK k \in Turn \cap Tables :
          /\ db[k] # None
          /\ \/ /\ db' = [db EXCEPT ![k] = to_put[k]]
                /\ keys' = keys \ {k}
                /\ UNCHANGED <<pc, put_errs, failed>>
             \/ /\ ~Fits(k, to_put[k]) \/ failed'
                /\ failed => failed'
                /\ UNCHANGED db \/ \E v \in Fresh(k) : db' = [db EXCEPT ![k] = v]
                /\ \/ pc' = "redo" /\ UNCHANGED <<keys, put_errs>>
                   \/ /\ put_errs' = put_errs \cup {k} /\ keys' = keys \ {k}
                      /\ UNCHANGED pc
    BY <1>8 DEF AlterTable, Fails
  <2>2. /\ pc = "put" /\ dir = "push" /\ k \in keys
        /\ UNCHANGED <<dir, to_put, old_err_count, disturbed>>
    BY <1>8 DEF AlterTable, Turn
  <2>3. \A x \in Keys : db[x] = None => db'[x] = None
    BY <2>1, <1>2
  <2>4. \/ /\ keys' = keys \ {k} /\ pc' = "put"
           /\ failed => failed'
           /\ \/ UNCHANGED put_errs
              \/ /\ put_errs' = put_errs \cup {k}
                 /\ ~Fits(k, to_put[k]) \/ failed'
        \/ /\ pc' = "redo" /\ UNCHANGED <<keys, put_errs>>
           /\ failed => failed'
    BY <2>1, <2>2
  <2>5. CASE keys' = keys \ {k} /\ pc' = "put"
    <3>1. InPass' => /\ InPass
                     /\ \/ UNCHANGED put_errs
                        \/ put_errs' = put_errs \cup {k} /\ ~Fits(k, to_put[k])
      BY <2>2, <2>4, <2>5 DEF InPass
    <3>2. QED BY <2>2, <2>3, <2>5, <3>1, <1>7, TurnPassed
  <2>6. CASE pc' = "redo" /\ UNCHANGED <<keys, put_errs>>
    <3>1. InPass' => InPass
      BY <2>2, <2>4, <2>6 DEF InPass
    <3>2. QED BY <2>2, <2>3, <2>6, <3>1, <1>7, KeysPassed
  <2>7. QED BY <2>4, <2>5, <2>6
<1>9. CASE PutSchemaElement
  <2>1. PICK k \in Turn :
          /\ k \in Tables => db[k] = None
          /\ cur' = k
          /\ pc' \in {"redo", "create"}
          /\ pc' = "create" => k \in Tables
    BY <1>9 DEF PutSchemaElement
  <2>2. /\ UNCHANGED <<db, dir, to_put, keys, put_errs, old_err_count,
                       disturbed, failed>>
        /\ pc = "put" /\ dir = "push"
    BY <1>9 DEF PutSchemaElement
  <2>3. InPass' => InPass
    BY <2>2 DEF InPass
  <2>4. pc' = "create" => db'[cur'] = None
    <3>1. UNCHANGED db
      BY <2>2
    <3>2. QED BY <2>1, <3>1
  <2>5. pc' # "idle" /\ pc' \in {"put", "redo", "create"}
    BY <2>1
  <2>6. \A x \in Keys : db[x] = None => db'[x] = None
    BY <2>2
  <2>7. PassInv => PassInv'
    BY <2>2, <2>4, <2>6, KeysPassed
  <2>8. QED BY <2>3, <2>5, <2>7, <1>7
<1>10. CASE Redo
  <2>1. /\ UNCHANGED <<dir, to_put, keys, cur, put_errs, old_err_count,
                       disturbed>>
        /\ pc = "redo" /\ pc' = "create"
        /\ \/ DbDrop(cur) /\ UNCHANGED failed
           \/ failed' /\ UNCHANGED db
    BY <1>10 DEF Redo, Fails
  <2>2. \A x \in Keys : db[x] = None => db'[x] = None
    BY <2>1 DEF DbDrop
  <2>3. cur \in Keys /\ dir = "push"
    BY <2>1, <1>2
  <2>4. InPass' => InPass /\ db'[cur'] = None
    BY <2>1, <2>3 DEF InPass, DbDrop, Gone
  <2>5. QED BY <2>1, <2>2, <2>4, <1>7, KeysPassed
<1>11. CASE Create
  <2>1. /\ UNCHANGED <<dir, to_put, old_err_count, disturbed>>
        /\ pc = "create" /\ pc' = "put" /\ keys' = keys \ {cur}
        /\ \/ UNCHANGED <<put_errs, failed>>
           \/ /\ ~(db[cur] = None /\ Fits(cur, to_put[cur])) \/ failed'
              /\ failed => failed'
              /\ put_errs' = put_errs \cup {cur} /\ UNCHANGED db
    BY <1>11 DEF Create, Fails
  <2>2. cur \in keys /\ dir = "push"
    BY <2>1, <1>2
  <2>3. InPass' => InPass
    BY <2>1, <2>2 DEF InPass
  <2>4. InPass' =>
          \/ UNCHANGED put_errs
          \/ /\ put_errs' = put_errs \cup {cur}
             /\ ~Fits(cur, to_put[cur]) /\ UNCHANGED db
    BY <2>1, <2>3, <1>1 DEF PassInv, InPass
  <2>5. QED BY <2>1, <2>2, <2>3, <2>4, <1>7, TurnPassed
<1>12. CASE EndPass
  <2>1. PICK again :
          /\ NextPass(again)
          /\ again <=> /\ put_errs # {} /\ Cardinality(DOMAIN to_put) # 1
                       /\ Cardinality(put_errs) # old_err_count
    BY <1>12 DEF EndPass
  <2>2. /\ pc = "put" /\ dir = "push" /\ keys = {}
        /\ UNCHANGED <<db, to_put, dir, disturbed, failed>>
    BY <2>1 DEF NextPass
  <2>3. Cardinality({}) = 0 /\ Cardinality(put_errs) \in Nat
    <3>1. put_errs \subseteq Keys
      BY <1>2 DEF CopyInv, TypeOK
    <3>2. QED BY <3>1, FS_EmptySet, FS_Subset, FS_CardinalityType
  <2>4. CASE again
    <3>1. /\ UNCHANGED pc /\ old_err_count' = Cardinality(put_errs)
          /\ keys' = put_errs /\ put_errs' = {}
      BY <2>1, <2>4 DEF NextPass
    <3>2. PassInv'
      BY <2>1, <2>2, <2>3, <2>4, <3>1 DEF PassInv, Count, NoneFits
    <3>3. QED BY <2>2, <3>1, <3>2 DEF RetryInv, RetryIsEnough, Completed
  <2>5. CASE ~again
    <3>1. pc' = "idle" /\ UNCHANGED put_errs
      BY <2>1, <2>5 DEF NextPass, Finish
    <3>2. ~disturbed /\ ~failed => NoneFits
      <4>1. SUFFICES ASSUME ~disturbed, ~failed PROVE NoneFits
        OBVIOUS
      <4>2. PassInv
        BY <4>1, <2>2, <1>1 DEF InPass
      <4>3. Count = Cardinality(put_errs)
        BY <2>2, <2>3 DEF Count
      <4>4. QED BY <4>2, <4>3, <2>1, <2>5 DEF PassInv, NoneFits
    <3>3. QED BY <2>2, <3>1, <3>2 DEF RetryInv, InPass, RetryIsEnough, Completed,
               NoneFits, Fits
  <2>6. QED BY <2>4, <2>5
<1>13. CASE Killed
  <2>1. pc' = "idle" /\ outcome' = "threw"
    BY <1>13 DEF Killed, Finish
  <2>2. QED BY <2>1 DEF RetryInv, InPass, RetryIsEnough, Completed
<1>14. CASE DbEdit \/ DiskEdit
  <2>1. Edit
    BY <1>14 DEF DbEdit, DiskEdit
  <2>2. UNCHANGED <<pc, put_errs, keys, old_err_count>> /\ disturbed'
    BY <2>1 DEF Edit
  <2>3. QED BY <2>2, <1>3
<1>15. CASE Rest \/ UNCHANGED vars
  BY <1>15, <1>1 DEF Rest, vars, RetryInv, InPass, PassInv, NoneFits, Count,
     RetryIsEnough, Completed, Fits
<1>16. QED BY <1>4, <1>5, <1>6, <1>8, <1>9, <1>10, <1>11, <1>12, <1>13, <1>14,
       <1>15 DEF Next, Copier

(* When Put gives up, however often, and no statement failed for a reason of*)
(* its own, no element that it reports could have been put (VxDbSchema.Put, *)
(* the loop over errs).                                                     *)
THEOREM RetriesSuffice == Spec => []RetryIsEnough
<1>1. Init => RetryInv
  BY DEF Init, RetryInv, InPass, RetryIsEnough, Completed
<1>2. CopyInv /\ RetryInv /\ [Next]_vars => RetryInv'
  BY RetryStep
<1>3. RetryInv => RetryIsEnough
  BY DEF RetryInv
<1>4. QED BY PlanIsHeld, <1>1, <1>2, <1>3, PTL DEF Spec

-----------------------------------------------------------------------------
(* What a copy leaves.  Texts do not come back, and no table is dropped to  *)
(* be created again while tables have triggers: with either, CopySettles is *)
(* false.                                                                   *)
Settling == ~Reuse /\ (Triggers = {} \/ \A o \in Options : ~o.destructive)

Planned == pc \in {"dest", "get"} \/ Changing

(* Every text that is anywhere has been an element's own.                   *)
SideUsed(k) ==
  /\ db[k] \in used[k] \cup {None}
  /\ disk[k].md5 \in used[k] \cup {None, Torn}
  /\ disk[k].text \in used[k] \cup {None, Torn, Cut}
PutUsed(k) ==
  k \in DOMAIN to_put =>
    to_put[k] \in used[k] \cup (IF dir = "pull" THEN {} ELSE {Cut})
SumUsed(k) ==
  dir = "pull" /\ Planned /\ k \in DOMAIN srcsums =>
    \A v \in Versions : srcsums[k] = Checksum(v) => v \in used[k]
UsedInv == \A k \in Keys : SideUsed(k) /\ PutUsed(k) /\ SumUsed(k)

(* A file may have the checksum of another text, as a pull reads checksums  *)
(* before texts.  The database has left that other text behind.             *)
Valid(k) == k \in Readable /\ disk[k].text = disk[k].md5
Lie(k, v) == Valid(k) /\ disk[k].sum = Checksum(v) /\ disk[k].text # v
LiesInv ==
  \A k \in Keys, v \in Versions : Lie(k, v) =>
    /\ v \in used[k] /\ db[k] # v
    /\ dir = "push" /\ Changing /\ k \in DOMAIN to_put => to_put[k] # v
LateInv ==
  dir = "pull" /\ Changing =>
    \A k \in DOMAIN to_put, v \in Versions :
      srcsums[k] = Checksum(v) /\ to_put[k] # v => db[k] # v

TextsInv == UsedInv /\ LiesInv /\ LateInv

(* What an element has been is not forgotten.                               *)
LEMMA UsedGrows ==
  ASSUME CopyInv, [Next]_vars
  PROVE  \A k \in Keys : used[k] \subseteq used'[k]
<1>1. used \in [Keys -> SUBSET Versions]
  BY DEF CopyInv, TypeOK
<1>2. \A k \in Keys : \A v :
        Use(k, v) => \A x \in Keys : used[x] \subseteq used'[x]
  BY <1>1 DEF Use
<1>3. CASE AlterTable
  <2>1. UNCHANGED used \/ \E k \in Turn : \E v \in Fresh(k) : Use(k, v)
    BY <1>3 DEF AlterTable
  <2>2. Turn \subseteq Keys
    BY PutTyped DEF Turn, CopyInv, TypeOK
  <2>3. QED BY <2>1, <2>2, <1>2
<1>4. CASE DbEdit \/ DiskEdit
  <2>1. UNCHANGED used \/ \E k \in Keys : \E v \in Fresh(k) : Use(k, v)
    BY <1>4 DEF DbEdit, DiskEdit
  <2>2. QED BY <2>1, <1>2
<1>5. CASE ~(AlterTable \/ DbEdit \/ DiskEdit)
  <2>1. UNCHANGED used
    BY <1>5 DEF Next, Copier, Rest, vars, hist, Start, GetSourceChecksums,
       GetDestChecksums, Get, DropFile, DropElement, EndDrop, PutFile,
       PutFilesDone, PutSchemaElement, Redo, Create, EndPass, NextPass, Killed
  <2>2. QED BY <2>1
<1>6. QED BY <1>3, <1>4, <1>5

(* What steps do to an element's text in the database: nothing, or it goes, *)
(* or it becomes one that it has not been, or a push puts the directory's.  *)
DbChange(k) ==
  \/ db'[k] = db[k]
  \/ db'[k] = None
  \/ db'[k] \in Fresh(k) /\ db'[k] \in used'[k]
  \/ /\ dir = "push" /\ Changing /\ k \in DOMAIN to_put
     /\ db'[k] = to_put[k] /\ to_put[k] # Cut

(* Every step is of these.                                                  *)
LEMMA DbChanges ==
  ASSUME CopyInv, [Next]_vars
  PROVE  \A k \in Keys : DbChange(k)
<1> SUFFICES ASSUME NEW k \in Keys PROVE DbChange(k)
  OBVIOUS
<1>1. /\ db \in [Keys -> Versions \cup {None}]
      /\ used \in [Keys -> SUBSET Versions]
      /\ keys \subseteq DOMAIN to_put /\ DOMAIN to_put \subseteq Keys
      /\ pc \in {"redo", "create"} => cur \in keys /\ dir = "push"
  BY PutTyped DEF CopyInv, TypeOK
<1>2. \A x : DbDrop(x) => DbChange(k)
  BY DEF DbDrop, DbChange
<1>3. \A x \in Keys : \A v \in Fresh(x) :
        db' = [db EXCEPT ![x] = v] /\ Use(x, v) => DbChange(k)
  BY <1>1 DEF DbChange, Use
<1>4. \A x \in DOMAIN to_put :
        /\ dir = "push" /\ Changing /\ to_put[x] # Cut
        /\ db' = [db EXCEPT ![x] = to_put[x]]
        => DbChange(k)
  BY <1>1 DEF DbChange
<1>5. CASE UNCHANGED db
  BY <1>5 DEF DbChange
<1>6. CASE DropElement \/ Redo
  BY <1>6, <1>2, <1>5 DEF DropElement, Redo
<1>7. CASE AlterTable
  <2>1. PICK x \in Turn :
          \/ Fits(x, to_put[x]) /\ db' = [db EXCEPT ![x] = to_put[x]]
          \/ UNCHANGED db
          \/ \E v \in Fresh(x) : Use(x, v) /\ db' = [db EXCEPT ![x] = v]
    BY <1>7 DEF AlterTable
  <2>2. dir = "push" /\ Changing /\ x \in DOMAIN to_put /\ x \in Keys
    BY <1>7, <1>1 DEF AlterTable, Changing, Turn
  <2>3. QED BY <2>1, <2>2, <1>3, <1>4, <1>5 DEF Fits
<1>8. CASE Create
  <2>1. \/ Fits(cur, to_put[cur]) /\ db' = [db EXCEPT ![cur] = to_put[cur]]
        \/ UNCHANGED db
    BY <1>8 DEF Create
  <2>2. dir = "push" /\ Changing /\ cur \in DOMAIN to_put
    BY <1>8, <1>1 DEF Create, Changing
  <2>3. QED BY <2>1, <2>2, <1>4, <1>5 DEF Fits
<1>9. CASE DbEdit
  <2>1. \/ \E x \in Keys : \E v \in Fresh(x) :
             db' = [db EXCEPT ![x] = v] /\ Use(x, v)
        \/ \E x : DbDrop(x)
    BY <1>9 DEF DbEdit
  <2>2. QED BY <2>1, <1>2, <1>3
<1>10. CASE ~(DropElement \/ Redo \/ AlterTable \/ Create \/ DbEdit)
  <2>1. UNCHANGED db
    BY <1>10 DEF Next, Copier, Rest, vars, Start, GetSourceChecksums,
       GetDestChecksums, Get, DropFile, EndDrop, PutFile,
       PutFilesDone, PutSchemaElement, EndPass, NextPass, Killed, DiskEdit
  <2>2. QED BY <2>1, <1>5
<1>11. QED BY <1>6, <1>7, <1>8, <1>9, <1>10

(* And to its file: nothing, or it is deleted or damaged, or a pull writes  *)
(* it, or the user gives it a new text, with or without a header that fits. *)
DiskChange(k) ==
  \/ disk'[k] = disk[k]
  \/ disk'[k] \in {NoFile, TornFile}
  \/ /\ dir = "pull" /\ Changing /\ k \in DOMAIN to_put
     /\ \/ disk'[k] = File(to_put[k], srcsums[k])
        \/ disk'[k] = [text |-> Cut, md5 |-> to_put[k], sum |-> srcsums[k]]
  \/ \E v \in Fresh(k) :
       /\ v \in used'[k]
       /\ disk'[k] \in {[disk[k] EXCEPT !.text = v], File(v, Checksum(v))}

(* Every step is of these, too.                                             *)
LEMMA DiskChanges ==
  ASSUME CopyInv, [Next]_vars
  PROVE  \A k \in Keys : DiskChange(k)
<1> SUFFICES ASSUME NEW k \in Keys PROVE DiskChange(k)
  OBVIOUS
<1>1. /\ disk \in [Keys -> Files] /\ used \in [Keys -> SUBSET Versions]
      /\ keys \subseteq DOMAIN to_put /\ DOMAIN to_put \subseteq Keys
  BY PutTyped DEF CopyInv, TypeOK
<1>2. CASE UNCHANGED disk
  BY <1>2 DEF DiskChange
<1>3. ASSUME NEW x \in Keys, NEW f, disk' = [disk EXCEPT ![x] = f],
             disk'[x] = f => DiskChange(x)
      PROVE  DiskChange(k)
  BY <1>1, <1>3 DEF DiskChange
<1>4. CASE DropFile
  <2>1. PICK x \in to_drop : disk' = [disk EXCEPT ![x] = NoFile]
    BY <1>4 DEF DropFile
  <2>2. x \in Keys
    BY DEF CopyInv, TypeOK
  <2>3. QED BY <2>1, <2>2, <1>3 DEF DiskChange
<1>5. CASE PutFile
  <2>1. PICK x \in keys : disk' = [disk EXCEPT ![x] = File(to_put[x], srcsums[x])]
    BY <1>5 DEF PutFile
  <2>2. dir = "pull" /\ Changing /\ x \in DOMAIN to_put /\ x \in Keys
    BY <1>1, <1>5 DEF PutFile, Changing
  <2>3. QED BY <2>1, <2>2, <1>3 DEF DiskChange
<1>6. CASE Killed
  <2>1. CASE ~UNCHANGED disk
    <3>1. PICK x \in keys :
            \/ disk' = [disk EXCEPT ![x] = TornFile]
            \/ disk' = [disk EXCEPT ![x] = [text |-> Cut, md5 |-> to_put[x],
                                            sum |-> srcsums[x]]]
      BY <1>6, <2>1 DEF Killed
    <3>2. dir = "pull" /\ Changing /\ x \in DOMAIN to_put /\ x \in Keys
      BY <1>1, <1>6, <2>1 DEF Killed, Changing
    <3>3. QED BY <3>1, <3>2, <1>3 DEF DiskChange
  <2>2. QED BY <2>1, <1>2
<1>7. CASE DiskEdit
  <2>1. PICK x \in Keys :
          \/ \E v \in Fresh(x) : disk' = [disk EXCEPT ![x].text = v] /\ Use(x, v)
          \/ \E v \in Fresh(x) :
               disk' = [disk EXCEPT ![x] = File(v, Checksum(v))] /\ Use(x, v)
          \/ disk' = [disk EXCEPT ![x] = NoFile]
          \/ disk' = [disk EXCEPT ![x] = TornFile]
    BY <1>7 DEF DiskEdit
  <2>2. CASE \/ disk' = [disk EXCEPT ![x] = NoFile]
             \/ disk' = [disk EXCEPT ![x] = TornFile]
    BY <2>2, <1>3 DEF DiskChange
  <2>3. ASSUME NEW v \in Fresh(x), Use(x, v),
               \/ disk' = [disk EXCEPT ![x].text = v]
               \/ disk' = [disk EXCEPT ![x] = File(v, Checksum(v))]
        PROVE  DiskChange(k)
    <3>1. v \in used'[x]
      BY <1>1, <2>3 DEF Use
    <3>2. PICK f \in {[disk[x] EXCEPT !.text = v], File(v, Checksum(v))} :
            disk' = [disk EXCEPT ![x] = f]
      BY <1>1, <2>3
    <3>3. disk'[x] = f => DiskChange(x)
      BY <3>1, <3>2 DEF DiskChange
    <3>4. QED BY <3>2, <3>3, <1>3
  <2>4. QED BY <2>1, <2>2, <2>3
<1>8. CASE ~(DropFile \/ PutFile \/ Killed \/ DiskEdit)
  <2>1. UNCHANGED disk
    BY <1>8 DEF Next, Copier, Rest, vars, Start, GetSourceChecksums,
       GetDestChecksums, Get, DropElement, EndDrop, PutFilesDone, AlterTable,
       PutSchemaElement, Redo, Create, EndPass, NextPass, DbEdit
  <2>2. QED BY <2>1, <1>2
<1>9. QED BY <1>4, <1>5, <1>6, <1>7, <1>8

(* And to the copy's plan: it is kept, or it is not made yet or no more, or *)
(* the source's checksums are read, or what is to be put is.                *)
PlanKept == /\ UNCHANGED <<dir, to_put, srcsums>>
            /\ (Changing' => Changing) /\ (Planned' => Planned)
NoPlan == /\ ~Planned' /\ ~Changing'
          /\ to_put' = <<>> \/ UNCHANGED <<dir, to_put>>
SumsRead == /\ srcsums' = SourceSums /\ ~Changing'
            /\ UNCHANGED <<db, disk, used, dir, to_put>>
TextsRead == /\ to_put' = Retrieved /\ Planned
             /\ UNCHANGED <<db, disk, used, dir, srcsums>>

(* No step does anything else.                                              *)
LEMMA PlanChanges ==
  ASSUME [Next]_vars
  PROVE  PlanKept \/ NoPlan \/ SumsRead \/ TextsRead
<1> USE DEF mode, sums, work, hist, Changing, Planned, Finish
<1>1. CASE \E d \in Directions, o \in Options : Start(d, o)
  BY <1>1 DEF Start, NoPlan
<1>2. CASE GetSourceChecksums
  BY <1>2 DEF GetSourceChecksums, SumsRead
<1>3. CASE GetDestChecksums
  BY <1>3 DEF GetDestChecksums, PlanKept, NoPlan
<1>4. CASE Get
  BY <1>4 DEF Get, TextsRead, NoPlan
<1>5. CASE EndDrop \/ PutFilesDone \/ EndPass \/ Killed
  BY <1>5 DEF EndDrop, PutFilesDone, EndPass, NextPass, Killed, PlanKept, NoPlan
<1>6. CASE \/ DropFile \/ DropElement \/ PutFile \/ PutSchemaElement \/ Redo
           \/ Create
  BY <1>6 DEF DropFile, DropElement, PutFile, PutSchemaElement, Redo, Create,
     PlanKept
<1>7. CASE AlterTable
  <2>1. UNCHANGED <<dir, to_put, srcsums>> /\ pc' \in {pc, "redo"} /\ pc = "put"
    BY <1>7 DEF AlterTable
  <2>2. QED BY <2>1 DEF PlanKept
<1>8. CASE DbEdit \/ DiskEdit
  <2>1. Edit
    BY <1>8 DEF DbEdit, DiskEdit
  <2>2. QED BY <2>1 DEF Edit, PlanKept
<1>9. CASE Rest \/ UNCHANGED vars
  BY <1>9 DEF Rest, vars, PlanKept
<1>10. QED BY <1>1, <1>2, <1>3, <1>4, <1>5, <1>6, <1>7, <1>8, <1>9
       DEF Next, Copier

(* No step makes up a text.                                                 *)
LEMMA UsedStep ==
  ASSUME CopyInv, UsedInv, [Next]_vars
  PROVE  UsedInv'
<1> SUFFICES ASSUME NEW k \in Keys
             PROVE  SideUsed(k)' /\ PutUsed(k)' /\ SumUsed(k)'
  BY DEF UsedInv
<1>1. /\ SideUsed(k) /\ PutUsed(k) /\ SumUsed(k)
      /\ used[k] \subseteq used'[k]
      /\ db[k] \in Versions \cup {None} /\ disk[k] \in Files
  BY UsedGrows DEF UsedInv, CopyInv, TypeOK
<1>2. SideUsed(k)'
  <2>1. db'[k] \in used'[k] \cup {None}
    BY <1>1, DbChanges DEF DbChange, SideUsed, PutUsed
  <2>2. /\ disk'[k].md5 \in used'[k] \cup {None, Torn}
        /\ disk'[k].text \in used'[k] \cup {None, Torn, Cut}
    <3>1. CASE disk'[k] = disk[k] \/ disk'[k] \in {NoFile, TornFile}
      BY <3>1, <1>1 DEF SideUsed, NoFile, TornFile, File
    <3>2. CASE /\ dir = "pull" /\ k \in DOMAIN to_put
               /\ \/ disk'[k] = File(to_put[k], srcsums[k])
                  \/ disk'[k] = [text |-> Cut, md5 |-> to_put[k],
                                 sum |-> srcsums[k]]
      BY <3>2, <1>1 DEF PutUsed, File
    <3>3. ASSUME NEW v \in used'[k],
                 disk'[k] \in {[disk[k] EXCEPT !.text = v], File(v, Checksum(v))}
          PROVE  /\ disk'[k].md5 \in used'[k] \cup {None, Torn}
                 /\ disk'[k].text \in used'[k] \cup {None, Torn, Cut}
      BY <3>3, <1>1 DEF SideUsed, File, Files
    <3>4. QED BY <3>1, <3>2, <3>3, DiskChanges DEF DiskChange
  <2>3. QED BY <2>1, <2>2 DEF SideUsed
<1>3. PutUsed(k)' /\ SumUsed(k)'
  <2>1. CASE PlanKept
    BY <2>1, <1>1 DEF PlanKept, PutUsed, SumUsed
  <2>2. CASE NoPlan
    BY <2>2, <1>1, EmptyTyped DEF NoPlan, PutUsed, SumUsed
  <2>3. CASE SumsRead
    <3>1. dir = "pull" /\ k \in DOMAIN SourceSums =>
            SourceSums[k] = {db[k]} /\ db[k] # None
      BY DEF SourceSums, DbSums, DbText, Checksum
    <3>2. SumUsed(k)'
      BY <2>3, <3>1, <1>1 DEF SumsRead, SumUsed, SideUsed, Checksum
    <3>3. QED BY <2>3, <3>2, <1>1 DEF SumsRead, PutUsed
  <2>4. CASE TextsRead
    <3>1. k \in DOMAIN Retrieved =>
            IF dir = "pull" THEN Retrieved[k] = db[k] /\ db[k] # None
            ELSE Retrieved[k] = disk[k].text /\ k \in Readable
      BY DEF Retrieved, DbText, DiskText
    <3>2. PutUsed(k)'
      BY <2>4, <3>1, <1>1 DEF TextsRead, PutUsed, SideUsed, Readable
    <3>3. QED BY <2>4, <3>2, <1>1 DEF TextsRead, SumUsed
  <2>5. QED BY <2>1, <2>2, <2>3, <2>4, PlanChanges
<1>4. QED BY <1>2, <1>3

(* A new text is not the one that a file's checksum is of.                  *)
LEMMA LiesStep ==
  ASSUME ~Reuse, CopyInv, TextsInv, [Next]_vars
  PROVE  LiesInv'
<1> SUFFICES ASSUME NEW k \in Keys, NEW v \in Versions, Lie(k, v)'
             PROVE  /\ v \in used'[k] /\ db'[k] # v
                    /\ (dir = "push" /\ Changing /\ k \in DOMAIN to_put)'
                         => to_put'[k] # v
  BY DEF LiesInv
<1>1. /\ SideUsed(k) /\ PutUsed(k) /\ SumUsed(k)
      /\ used[k] \subseteq used'[k]
      /\ disk[k] \in Files /\ Fresh(k) = Versions \ used[k]
      /\ v \notin {None, Cut, Torn}
  BY UsedGrows DEF TextsInv, UsedInv, CopyInv, TypeOK, Fresh
<1>2. /\ disk'[k].text \notin {None, Torn} /\ disk'[k].text = disk'[k].md5
      /\ disk'[k].sum = {v} /\ disk'[k].text # v
  BY DEF Lie, Valid, Readable, Checksum
<1>3. \/ disk'[k] = disk[k]
      \/ /\ dir = "pull" /\ Changing /\ k \in DOMAIN to_put
         /\ disk'[k] = File(to_put[k], srcsums[k])
  <2>1. disk'[k] \notin {NoFile, TornFile}
    BY <1>2 DEF NoFile, TornFile, File
  <2>2. ASSUME dir = "pull", k \in DOMAIN to_put
        PROVE  disk'[k] # [text |-> Cut, md5 |-> to_put[k], sum |-> srcsums[k]]
    <3>1. to_put[k] # Cut
      BY <2>2, <1>1 DEF PutUsed, CopyInv, TypeOK
    <3>2. QED BY <3>1, <1>2
  <2>3. ASSUME NEW w \in Fresh(k)
        PROVE  disk'[k] \notin {[disk[k] EXCEPT !.text = w], File(w, Checksum(w))}
    <3>1. disk'[k] # File(w, Checksum(w))
      BY <1>2 DEF File, Checksum
    <3>2. CASE disk'[k] = [disk[k] EXCEPT !.text = w]
      <4>1. disk'[k].text = w /\ disk'[k].md5 = disk[k].md5
        BY <3>2, <1>1 DEF Files
      <4>2. QED BY <4>1, <1>1, <1>2 DEF SideUsed
    <3>3. QED BY <3>1, <3>2
  <2>4. QED BY <2>1, <2>2, <2>3, DiskChanges DEF DiskChange
<1>4. /\ v \in used[k] /\ db[k] # v
      /\ dir = "push" /\ Changing /\ k \in DOMAIN to_put => to_put[k] # v
  <2>1. CASE disk'[k] = disk[k]
    <3>1. Lie(k, v)
      BY <2>1, <1>2 DEF Lie, Valid, Readable, Checksum
    <3>2. QED BY <3>1 DEF TextsInv, LiesInv
  <2>2. CASE /\ dir = "pull" /\ Changing /\ k \in DOMAIN to_put
             /\ disk'[k] = File(to_put[k], srcsums[k])
    <3>1. srcsums[k] = Checksum(v) /\ to_put[k] # v
      BY <2>2, <1>2 DEF File, Checksum
    <3>2. k \in DOMAIN srcsums
      BY <2>2 DEF CopyInv, names, AddOrChange
    <3>3. v \in used[k]
      BY <2>2, <3>1, <3>2, <1>1 DEF SumUsed, Planned
    <3>4. db[k] # v
      BY <2>2, <3>1 DEF TextsInv, LateInv
    <3>5. QED BY <2>2, <3>3, <3>4
  <2>3. QED BY <2>1, <2>2, <1>3
<1>5. db'[k] # v
  BY <1>1, <1>4, DbChanges DEF DbChange
<1>6. (dir = "push" /\ Changing /\ k \in DOMAIN to_put)' => to_put'[k] # v
  <2>1. CASE PlanKept
    BY <2>1, <1>4 DEF PlanKept
  <2>2. CASE NoPlan \/ SumsRead
    BY <2>2 DEF NoPlan, SumsRead
  <2>3. CASE TextsRead
    <3>1. dir = "push" /\ k \in DOMAIN Retrieved => Retrieved[k] = disk[k].text
      BY DEF Retrieved, DiskText
    <3>2. disk'[k] = disk[k]
      BY <2>3 DEF TextsRead
    <3>3. QED BY <2>3, <3>1, <3>2, <1>2 DEF TextsRead
  <2>4. QED BY <2>1, <2>2, <2>3, PlanChanges
<1>7. QED BY <1>1, <1>4, <1>5, <1>6

(* Nor is it one that a pull has read the checksum of.                      *)
LEMMA LateStep ==
  ASSUME ~Reuse, CopyInv, TextsInv, [Next]_vars
  PROVE  LateInv'
<1> SUFFICES ASSUME (dir = "pull" /\ Changing)', NEW k \in DOMAIN to_put',
                    NEW v \in Versions, srcsums'[k] = Checksum(v), to_put'[k] # v
             PROVE  db'[k] # v
  BY DEF LateInv
<1>1. CASE PlanKept
  <2>1. dir = "pull" /\ Changing /\ k \in DOMAIN to_put
        /\ srcsums[k] = Checksum(v) /\ to_put[k] # v
    BY <1>1 DEF PlanKept
  <2>2. k \in Keys /\ k \in DOMAIN srcsums
    BY <2>1, PutTyped DEF CopyInv, names, AddOrChange
  <2>3. v \in used[k] /\ db[k] # v /\ v # None
    BY <2>1, <2>2 DEF TextsInv, LateInv, UsedInv, SumUsed, Planned
  <2>4. DbChange(k) /\ Fresh(k) = Versions \ used[k]
    BY <2>2, DbChanges DEF Fresh
  <2>5. QED BY <2>1, <2>3, <2>4 DEF DbChange
<1>2. CASE NoPlan \/ SumsRead
  BY <1>2 DEF NoPlan, SumsRead
<1>3. CASE TextsRead
  <2>1. dir = "pull" /\ k \in DOMAIN Retrieved /\ db'[k] = db[k]
        /\ Retrieved[k] # v
    BY <1>3 DEF TextsRead
  <2>2. Retrieved[k] = db[k]
    BY <2>1 DEF Retrieved, DbText
  <2>3. QED BY <2>1, <2>2
<1>4. QED BY <1>1, <1>2, <1>3, PlanChanges

(* The three parts together.                                                *)
LEMMA TextsStep ==
  ASSUME ~Reuse, CopyInv, TextsInv, [Next]_vars
  PROVE  TextsInv'
BY UsedStep, LiesStep, LateStep DEF TextsInv

(* At the start every file has its own checksum.                            *)
LEMMA TextsInit == Init => TextsInv
<1> SUFFICES ASSUME Init PROVE TextsInv
  OBVIOUS
<1>1. \A k \in Keys :
        /\ used[k] = {db[k], disk[k].text} \ {None}
        /\ \E v \in Versions : disk[k] \in {NoFile, File(v, Checksum(v))}
  BY DEF Init
<1>2. \A k \in Keys : SideUsed(k)
  BY <1>1 DEF SideUsed, NoFile, File
<1>3. UsedInv
  BY <1>2, EmptyTyped DEF Init, UsedInv, PutUsed, SumUsed, Planned, Changing
<1>4. LiesInv
  BY <1>1 DEF LiesInv, Lie, Valid, Readable, NoFile, File, Checksum
<1>5. LateInv
  BY DEF Init, LateInv, Changing
<1>6. QED BY <1>3, <1>4, <1>5 DEF TextsInv

-----------------------------------------------------------------------------
(* How far a copy has come that nobody disturbs: its plan is what differs,  *)
(* and what it has handled is the same on both sides, or reported.          *)
Agree(k) ==
  /\ k \in Readable <=> db[k] # None
  /\ k \in Readable => DiskSums[k] = Checksum(db[k])
Removed == Remove(srcsums, destsums)
Alike == Keys \ (names \cup Removed)

\* A table's trigger that went with it, and that the directory should not have.
Orphan(k) == db[k] = None /\ k \in Triggers /\ ~(Needs[k] \subseteq Readable)

PullDone(k) ==
  /\ k \in Alike => Agree(k)
  /\ k \in Removed \ to_drop => k \notin Readable
  /\ pc = "put" /\ k \in names \ keys => disk[k] = File(db[k], Checksum(db[k]))
PushDone(k) ==
  /\ k \in Alike => Agree(k) \/ Orphan(k)
  /\ k \in Removed \ to_drop => db[k] = None \/ k \in drop_errs
  /\ pc \in {"put", "redo", "create"} /\ k \in names \ keys =>
       k \in put_errs \/ db[k] = to_put[k]
PullInv ==
  /\ Planned => srcsums = DbSums
  /\ pc = "get" => destsums = DiskSums
  /\ Changing =>
       /\ DOMAIN to_put = names /\ \A k \in names : to_put[k] = db[k]
       /\ \A k \in Keys : PullDone(k)
       /\ pc # "drop" => to_drop = {}
PushInv ==
  /\ Planned => srcsums = DiskSums
  /\ pc = "get" => destsums = DbSums
  /\ Changing =>
       /\ DOMAIN to_put = names /\ \A k \in names : to_put[k] = disk[k].text
       /\ \A k \in Keys : PushDone(k)
       /\ pc # "drop" => to_drop = {}
PullingInv == ~disturbed /\ dir = "pull" => PullInv
PushingInv == ~disturbed /\ dir = "push" => PushInv

(* The two lists of checksums, element by element.                          *)
LEMMA SumsOf ==
  ASSUME NEW k \in Keys
  PROVE  /\ k \in DOMAIN DiskSums <=> k \in Readable
         /\ k \in DOMAIN DbSums <=> db[k] # None
         /\ db[k] # None => DbSums[k] = Checksum(db[k])
BY DEF DiskSums, DbSums, DbText

(* What the plan leaves alone has the same checksums on both sides.         *)
LEMMA AlikeAgree ==
  ASSUME \/ srcsums = DbSums /\ destsums = DiskSums
         \/ srcsums = DiskSums /\ destsums = DbSums,
         NEW k \in Alike
  PROVE  Agree(k)
<1>1. k \in Keys /\ k \notin names /\ k \notin Removed
  BY DEF Alike
<1>2. /\ k \in DOMAIN srcsums <=> k \in DOMAIN destsums
      /\ k \in DOMAIN srcsums => srcsums[k] = destsums[k]
  BY <1>1 DEF names, AddOrChange, Removed, Remove
<1>3. QED BY <1>1, <1>2, SumsOf DEF Agree

(* The two lists are equal if they are element by element.                  *)
LEMMA AgreeAll ==
  /\ (\A k \in Keys : Agree(k)) => DiskSums = DbSums
  /\ DiskSums = DbSums => \A k \in Keys : Agree(k)
<1>1. /\ DOMAIN DiskSums \subseteq Keys /\ DOMAIN DbSums \subseteq Keys
      /\ DiskSums = [k \in DOMAIN DiskSums |-> DiskSums[k]]
      /\ DbSums = [k \in DOMAIN DbSums |-> DbSums[k]]
  BY DEF DiskSums, DbSums, DbText, Readable
<1>2. ASSUME \A k \in Keys : Agree(k)
      PROVE  DiskSums = DbSums
  <2>1. \A k \in Keys : /\ k \in DOMAIN DiskSums <=> k \in DOMAIN DbSums
                        /\ k \in DOMAIN DiskSums => DiskSums[k] = DbSums[k]
    BY <1>2, SumsOf DEF Agree
  <2>2. QED BY <1>1, <2>1
<1>3. ASSUME DiskSums = DbSums, NEW k \in Keys
      PROVE  Agree(k)
  BY <1>3, SumsOf DEF Agree
<1>4. QED BY <1>2, <1>3

(* Where the checksums agree, the texts are the same.                       *)
LEMMA AgreeSame ==
  ASSUME CopyInv, LiesInv, NEW k \in Keys, Agree(k)
  PROVE  Same(k)
<1>1. CASE k \notin Readable
  BY <1>1 DEF Agree, Same
<1>2. CASE k \in Readable
  <2>1. db[k] \in Versions /\ DiskSums[k] = Checksum(db[k])
    BY <1>2 DEF Agree, CopyInv, TypeOK
  <2>2. disk[k].text = disk[k].md5 /\ disk[k].sum = Checksum(db[k])
    BY <1>2, <2>1 DEF DiskSums, Checksum, NoSum
  <2>3. ~Lie(k, db[k])
    BY <2>1 DEF LiesInv
  <2>4. QED BY <1>2, <2>2, <2>3 DEF Lie, Valid, Same
<1>3. QED BY <1>1, <1>2

(* What depends on a side stays when the side does.                         *)
LEMMA SidesKept ==
  /\ UNCHANGED db => UNCHANGED DbSums
  /\ UNCHANGED disk => UNCHANGED <<DiskSums, Readable>>
  /\ \A k \in Keys :
       /\ disk'[k] = disk[k] => (k \in Readable)' = (k \in Readable)
       /\ disk'[k] = disk[k] /\ db'[k] = db[k] => Agree(k) = Agree(k)'
<1>1. UNCHANGED db => UNCHANGED DbSums
  BY DEF DbSums, DbText
<1>2. UNCHANGED disk => UNCHANGED <<DiskSums, Readable>>
  BY DEF DiskSums, Readable
<1>3. ASSUME NEW k \in Keys, disk'[k] = disk[k]
      PROVE  /\ (k \in Readable)' = (k \in Readable)
             /\ db'[k] = db[k] => Agree(k) = Agree(k)'
  <2>1. (k \in Readable)' <=> k \in Readable
    BY <1>3 DEF Readable
  <2>2. k \in Readable => DiskSums'[k] = DiskSums[k]
    BY <1>3, <2>1 DEF DiskSums
  <2>3. QED BY <2>1, <2>2 DEF Agree
<1>4. QED BY <1>1, <1>2, <1>3

(* A plan as it is made: everything that differs.                           *)
LEMMA PlanMade ==
  ASSUME CopyInv, pc = "get", pc' = "drop",
         UNCHANGED <<db, disk, sums, dir, drop_errs>>,
         dir = "push" => names \subseteq Readable,
         to_put' = Retrieved, to_drop' = Removed
  PROVE  /\ dir = "pull" /\ PullInv => PullInv'
         /\ dir = "push" /\ PushInv => PushInv'
<1> USE DEF sums
<1>1. UNCHANGED <<names, Removed, Alike>>
  BY DEF names, Removed, Alike
<1>2. /\ UNCHANGED <<DbSums, DiskSums, Readable>>
      /\ \A k \in Keys : Agree(k)' = Agree(k)
  BY SidesKept
<1>3. names \subseteq DOMAIN srcsums
  BY DEF names, AddOrChange
<1>4. ASSUME dir = "pull", PullInv PROVE PullInv'
  <2>1. srcsums = DbSums /\ destsums = DiskSums
    BY <1>4 DEF PullInv, Planned
  <2>2. names \subseteq DOMAIN DbText
    BY <1>3, <2>1 DEF DbSums
  <2>3. DOMAIN to_put' = names /\ \A k \in names : to_put'[k] = db[k]
    BY <1>4, <2>2 DEF Retrieved, DbText
  <2>4. \A k \in Keys : PullDone(k)'
    BY <1>1, <1>2, <2>1, AlikeAgree DEF PullDone
  <2>5. QED BY <1>1, <1>2, <2>1, <2>3, <2>4 DEF PullInv
<1>5. ASSUME dir = "push", PushInv PROVE PushInv'
  <2>1. srcsums = DiskSums /\ destsums = DbSums
    BY <1>5 DEF PushInv, Planned
  <2>2. DOMAIN to_put' = names /\ \A k \in names : to_put'[k] = disk[k].text
    BY <1>5 DEF Retrieved, DiskText
  <2>3. \A k \in Keys : PushDone(k)'
    BY <1>1, <1>2, <2>1, AlikeAgree DEF PushDone
  <2>4. QED BY <1>1, <1>2, <2>1, <2>2, <2>3 DEF PushInv
<1>6. QED BY <1>4, <1>5

(* Until there is one.                                                      *)
LEMMA PlanningStep ==
  ASSUME CopyInv, GetSourceChecksums \/ GetDestChecksums \/ Get
  PROVE  /\ dir = "pull" /\ PullInv => PullInv'
         /\ dir = "push" /\ PushInv => PushInv'
         /\ UNCHANGED <<dir, disturbed>>
<1> USE DEF mode, sums, work, hist
<1>1. UNCHANGED <<db, disk, dir, disturbed>> /\ UNCHANGED <<DbSums, DiskSums>>
  BY SidesKept DEF GetSourceChecksums, GetDestChecksums, Get
<1>2. CASE pc' = "idle"
  BY <1>1, <1>2 DEF PullInv, PushInv, Planned, Changing
<1>3. CASE GetSourceChecksums
  BY <1>1, <1>3 DEF GetSourceChecksums, SourceSums, PullInv, PushInv, Planned,
     Changing
<1>4. CASE GetDestChecksums /\ pc' # "idle"
  <2>1. pc = "dest" /\ pc' = "get" /\ srcsums' = srcsums /\ destsums' = DestSums
    BY <1>4 DEF GetDestChecksums, Finish
  <2>2. QED BY <1>1, <2>1 DEF DestSums, PullInv, PushInv, Planned, Changing
<1>5. CASE Get /\ pc' # "idle"
  <2>1. /\ pc = "get" /\ pc' = "drop" /\ UNCHANGED <<sums, drop_errs>>
        /\ dir = "pull" \/ names \subseteq Readable
        /\ to_put' = Retrieved /\ to_drop' = Removed
    BY <1>5 DEF Get, Finish, Removed
  <2>2. QED BY <1>1, <2>1, PlanMade
<1>6. QED BY <1>2, <1>3, <1>4, <1>5

(* A pull deletes files, then writes them.                                  *)
LEMMA PullStep ==
  ASSUME CopyInv, PullInv, dir = "pull", DropFile \/ EndDrop \/ PutFile
  PROVE  PullInv'
<1> USE DEF mode, sums
<1>1. CASE pc' = "idle"
  BY <1>1 DEF PullInv, Planned, Changing
<1>2. /\ Changing /\ UNCHANGED <<db, dir>> /\ UNCHANGED DbSums
      /\ pc' # "idle" => UNCHANGED <<sums, to_put, names, Removed, Alike>>
      /\ disk \in [Keys -> Files]
  BY SidesKept DEF DropFile, EndDrop, PutFile, Finish, Changing, names, Removed,
     Alike, CopyInv, TypeOK
<1>3. ASSUME pc' \in {"drop", "put"}, \A k \in Keys : PullDone(k)',
             pc' # "drop" => to_drop' = {}
      PROVE  PullInv'
  BY <1>2, <1>3 DEF PullInv, Planned
<1>4. \A k \in Keys : PullDone(k)
  BY <1>2 DEF PullInv
<1>5. CASE DropFile
  <2>1. PICK x \in to_drop : /\ disk' = [disk EXCEPT ![x] = NoFile]
                            /\ to_drop' = to_drop \ {x}
    BY <1>5 DEF DropFile
  <2>2. pc = "drop" /\ pc' = "drop" /\ UNCHANGED keys
    BY <1>5 DEF DropFile
  <2>3. x \in Keys /\ x \in Removed
    BY <2>2 DEF CopyInv, TypeOK, Changing, Removed
  <2>4. \A k \in Keys : PullDone(k)'
    <3>1. PullDone(x)'
      <4>1. disk'[x].text = None
        BY <1>2, <2>1, <2>3 DEF NoFile, File
      <4>2. QED BY <1>2, <2>2, <2>3, <4>1 DEF PullDone, Readable, Alike
    <3>2. ASSUME NEW k \in Keys \ {x}
          PROVE  PullDone(k)'
      <4>1. disk'[k] = disk[k] /\ db'[k] = db[k]
        BY <1>2, <2>1
      <4>2. Agree(k)' = Agree(k) /\ (k \in Readable)' = (k \in Readable)
        BY <4>1, SidesKept
      <4>3. QED BY <1>2, <1>4, <2>1, <2>2, <4>2 DEF PullDone
    <3>3. QED BY <3>1, <3>2
  <2>5. QED BY <1>3, <2>2, <2>4
<1>6. CASE EndDrop /\ pc' # "idle"
  <2>1. /\ pc = "drop" /\ pc' = "put" /\ to_drop = {} /\ keys' = DOMAIN to_put
        /\ UNCHANGED <<disk, to_drop>>
    BY <1>6 DEF EndDrop, Finish
  <2>2. DOMAIN to_put = names
    BY <1>2 DEF PullInv
  <2>3. \A k \in Keys :
          Agree(k)' = Agree(k) /\ (k \in Readable)' = (k \in Readable)
    BY <1>2, <2>1, SidesKept
  <2>4. \A k \in Keys : PullDone(k)'
    BY <1>2, <1>4, <1>6, <2>1, <2>2, <2>3 DEF PullDone
  <2>5. QED BY <1>3, <2>1, <2>4
<1>7. CASE PutFile
  <2>1. PICK x \in keys :
          /\ disk' = [disk EXCEPT ![x] = File(to_put[x], srcsums[x])]
          /\ keys' = keys \ {x}
    BY <1>7 DEF PutFile
  <2>2. pc = "put" /\ pc' = "put" /\ UNCHANGED to_drop /\ to_drop = {}
    BY <1>2, <1>7 DEF PutFile, PullInv
  <2>3. x \in Keys /\ x \in names
    BY <1>2, PutTyped DEF PullInv, CopyInv, TypeOK
  <2>4. \A k \in Keys : PullDone(k)'
    <3>1. PullDone(x)'
      <4>1. x \in DOMAIN DbSums /\ srcsums[x] = DbSums[x] /\ to_put[x] = db[x]
        BY <1>2, <2>3 DEF PullInv, Planned, names, AddOrChange
      <4>2. disk'[x] = File(db[x], Checksum(db[x]))
        BY <1>2, <2>1, <2>3, <4>1, SumsOf
      <4>3. x \notin Removed
        BY <2>3 DEF names, AddOrChange, Removed, Remove
      <4>4. QED BY <1>2, <2>2, <2>3, <4>2, <4>3 DEF PullDone, Alike
    <3>2. ASSUME NEW k \in Keys \ {x}
          PROVE  PullDone(k)'
      <4>1. disk'[k] = disk[k] /\ db'[k] = db[k]
        BY <1>2, <2>1
      <4>2. Agree(k)' = Agree(k) /\ (k \in Readable)' = (k \in Readable)
        BY <4>1, SidesKept
      <4>3. QED BY <1>2, <1>4, <1>7, <2>1, <2>2, <4>1, <4>2 DEF PullDone
    <3>3. QED BY <3>1, <3>2
  <2>5. QED BY <1>3, <2>2, <2>4
<1>8. QED BY <1>1, <1>5, <1>6, <1>7

(* A push drops elements, then puts others, each in turn.                   *)
LEMMA PushKept ==
  ASSUME UNCHANGED <<disk, to_put, names, Removed, Alike>>, NEW k \in Keys,
         db'[k] = db[k], PushDone(k),
         k \in to_drop => k \in to_drop' \/ k \in drop_errs',
         k \in drop_errs => k \in drop_errs',
         pc' \in {"put", "redo", "create"} /\ k \in names \ keys' =>
           k \in put_errs' \/ (pc # "drop" /\ k \notin keys /\ k \notin put_errs),
         pc \in {"put", "redo", "create"} \/ pc = "drop"
  PROVE  PushDone(k)'
<1>1. Agree(k)' = Agree(k) /\ UNCHANGED Readable
  BY SidesKept
<1>2. Orphan(k)' <=> Orphan(k)
  BY <1>1 DEF Orphan
<1>3. QED BY <1>1, <1>2 DEF PushDone

\* Dropping an element that is to be created again takes nothing with it.
LEMMA GoneAlone ==
  ASSUME Settling, CopyInv, NEW k \in Keys, k \in Tables => opts.destructive
  PROVE  Gone(k) = {k}
<1>1. opts \in Options
  BY DEF CopyInv, TypeOK
<1>2. k \in Tables => Triggers = {}
  BY <1>1 DEF Settling
<1>3. QED BY <1>2 DEF Gone

(* PushInv is kept, one element at a time.                                  *)
LEMMA PushStep ==
  ASSUME Settling, CopyInv, PushInv, dir = "push",
         DropElement \/ EndDrop \/ AlterTable \/ PutSchemaElement \/ Redo
           \/ Create \/ EndPass
  PROVE  PushInv'
<1> USE DEF mode, sums, work, hist
<1>1. CASE pc' = "idle"
  BY <1>1 DEF PushInv, Planned, Changing
<1>2. /\ Changing /\ UNCHANGED <<disk, dir, to_put>>
      /\ pc' # "idle" => UNCHANGED <<srcsums, destsums>>
  BY DEF DropElement, EndDrop, AlterTable, PutSchemaElement, Redo, Create,
     EndPass, NextPass, Finish, Changing
<1>3. /\ UNCHANGED DiskSums /\ UNCHANGED Readable
      /\ pc' # "idle" => UNCHANGED <<names, Removed, Alike>>
      /\ db \in [Keys -> Versions \cup {None}]
      /\ DOMAIN to_put = names /\ \A k \in Keys : PushDone(k)
      /\ pc # "drop" => to_drop = {}
      /\ keys \subseteq names /\ names \subseteq Keys
  BY <1>2, SidesKept, PutTyped DEF names, Removed, Alike, PushInv, CopyInv, TypeOK
<1>4. ASSUME Changing', \A k \in Keys : PushDone(k)', pc' # "idle",
             pc' # "drop" => to_drop' = {}
      PROVE  PushInv'
  BY <1>2, <1>3, <1>4 DEF PushInv, Planned, Changing
<1>5. ASSUME NEW k \in names
      PROVE  k \notin Alike /\ k \notin Removed
  BY <1>5 DEF Alike, names, AddOrChange, Removed, Remove
<1>6. ASSUME NEW x \in keys, pc' \in {"put", "redo", "create"},
             pc \in {"put", "redo", "create"},
             UNCHANGED <<to_drop, drop_errs>>,
             \A k \in Keys \ {x} : db'[k] = db[k],
             \/ UNCHANGED <<keys, put_errs>>
             \/ keys' = keys \ {x} /\ put_errs' = put_errs \cup {x}
             \/ keys' = keys \ {x} /\ UNCHANGED put_errs /\ db'[x] = to_put[x]
      PROVE  PushInv'
  <2>1. ASSUME NEW k \in Keys \ {x} PROVE PushDone(k)'
    BY <2>1, <1>2, <1>3, <1>6, PushKept
  <2>2. PushDone(x)'
    BY <1>2, <1>3, <1>5, <1>6 DEF PushDone
  <2>3. QED BY <2>1, <2>2, <1>3, <1>4, <1>6 DEF Changing
<1>7. CASE DropElement
  <2>1. PICK x \in to_drop :
          /\ to_drop' = to_drop \ {x}
          /\ \/ DbDrop(x) /\ UNCHANGED drop_errs
             \/ UNCHANGED db /\ drop_errs' = drop_errs \cup {x}
    BY <1>7 DEF DropElement
  <2>2. pc = "drop" /\ pc' = "drop"
    BY <1>7 DEF DropElement
  <2>3. x \in Keys /\ x \in Removed /\ x \notin Readable
    <3>1. x \in Keys /\ x \in Removed
      BY <1>2 DEF CopyInv, TypeOK, Changing, Removed
    <3>2. QED BY <1>2, <3>1, SumsOf DEF PushInv, Planned, Removed, Remove
  <2>4. ASSUME NEW k \in Keys PROVE PushDone(k)'
    <3>1. CASE db'[k] = None /\ k \in Gone(x)
      <4>1. k \in Alike => Orphan(k)'
        BY <3>1, <2>3, <1>3 DEF Gone, Orphan, Alike
      <4>2. QED BY <3>1, <4>1, <2>2, <1>3 DEF PushDone
    <3>2. CASE db'[k] = db[k] /\ (k = x => x \in drop_errs')
      BY <3>2, <2>1, <2>2, <1>2, <1>3, PushKept
    <3>3. QED BY <2>1, <2>3, <1>3, <3>1, <3>2 DEF DbDrop, Gone
  <2>5. QED BY <2>2, <2>4, <1>4 DEF Changing
<1>8. CASE EndDrop /\ pc' # "idle"
  <2>1. /\ pc = "drop" /\ pc' = "put" /\ to_drop = {} /\ keys' = DOMAIN to_put
        /\ UNCHANGED <<db, to_drop, drop_errs>>
    BY <1>8 DEF EndDrop, Finish
  <2>2. \A k \in Keys : PushDone(k)'
    BY <2>1, <1>2, <1>3, PushKept
  <2>3. QED BY <2>1, <2>2, <1>4 DEF Changing
<1>9. CASE AlterTable
  <2>1. PICK x \in Turn :
          /\ \/ UNCHANGED db
             \/ \E v : db' = [db EXCEPT ![x] = v]
          /\ \/ UNCHANGED <<keys, put_errs>>
             \/ keys' = keys \ {x} /\ put_errs' = put_errs \cup {x}
             \/ keys' = keys \ {x} /\ UNCHANGED put_errs
                /\ db' = [db EXCEPT ![x] = to_put[x]]
    BY <1>9 DEF AlterTable
  <2>2. /\ pc = "put" /\ pc' \in {"put", "redo"} /\ x \in keys /\ x \in Keys
        /\ UNCHANGED <<to_drop, drop_errs>>
    BY <1>3, <1>9 DEF AlterTable, Turn
  <2>3. \A k \in Keys \ {x} : db'[k] = db[k]
    BY <2>1, <1>3
  <2>4. db' = [db EXCEPT ![x] = to_put[x]] => db'[x] = to_put[x]
    BY <2>2, <1>3
  <2>5. QED BY <2>1, <2>2, <2>3, <2>4, <1>6
<1>10. CASE PutSchemaElement
  <2>1. /\ \E x : x \in keys
        /\ pc = "put" /\ pc' \in {"redo", "create"}
        /\ UNCHANGED <<db, keys, put_errs, to_drop, drop_errs>>
    BY <1>10 DEF PutSchemaElement, Turn
  <2>2. QED BY <2>1, <1>6
<1>11. CASE Redo
  <2>1. /\ pc = "redo" /\ pc' = "create"
        /\ DbDrop(cur) \/ UNCHANGED db
        /\ UNCHANGED <<keys, put_errs, to_drop, drop_errs>>
    BY <1>11 DEF Redo
  <2>2. cur \in keys /\ cur \in Keys /\ (cur \in Tables => opts.destructive)
    BY <2>1, <1>3 DEF CopyInv, TypeOK
  <2>3. \A k \in Keys \ {cur} : db'[k] = db[k]
    BY <2>1, <2>2, GoneAlone DEF DbDrop
  <2>4. QED BY <2>1, <2>2, <2>3, <1>6
<1>12. CASE Create
  <2>1. /\ pc = "create" /\ pc' = "put" /\ keys' = keys \ {cur}
        /\ UNCHANGED <<to_drop, drop_errs>>
        /\ \/ db' = [db EXCEPT ![cur] = to_put[cur]] /\ UNCHANGED put_errs
           \/ UNCHANGED db /\ put_errs' = put_errs \cup {cur}
    BY <1>12 DEF Create
  <2>2. cur \in keys /\ cur \in Keys
    BY <2>1, <1>3 DEF CopyInv, TypeOK
  <2>3. /\ \A k \in Keys \ {cur} : db'[k] = db[k]
        /\ \/ put_errs' = put_errs \cup {cur}
           \/ UNCHANGED put_errs /\ db'[cur] = to_put[cur]
    BY <2>1, <2>2, <1>3
  <2>4. QED BY <2>1, <2>2, <2>3, <1>6
<1>13. CASE EndPass /\ pc' # "idle"
  <2>1. /\ pc = "put" /\ pc' = "put" /\ keys = {} /\ keys' = put_errs
        /\ UNCHANGED <<db, to_drop, drop_errs>>
    BY <1>13 DEF EndPass, NextPass, Finish
  <2>2. \A k \in Keys : PushDone(k)'
    BY <2>1, <1>2, <1>3, PushKept
  <2>3. QED BY <2>1, <2>2, <1>3, <1>4 DEF Changing
<1>14. QED BY <1>1, <1>7, <1>8, <1>9, <1>10, <1>11, <1>12, <1>13

(* So a copy is always as far as its plan and its place say.                *)
LEMMA CopyingStep ==
  ASSUME CopyInv, [Next]_vars
  PROVE  /\ PullingInv => PullingInv'
         /\ Settling /\ PushingInv => PushingInv'
<1> USE DEF mode, sums, work, hist
<1>1. ASSUME pc' \in {"idle", "source"} PROVE PullingInv' /\ PushingInv'
  BY <1>1 DEF PullingInv, PushingInv, PullInv, PushInv, Planned, Changing
<1>2. CASE \/ \E d \in Directions, o \in Options : Start(d, o)
           \/ PutFilesDone \/ Killed
  BY <1>2, <1>1 DEF Start, PutFilesDone, Killed, Finish
<1>3. CASE GetSourceChecksums \/ GetDestChecksums \/ Get
  BY <1>3, PlanningStep DEF PullingInv, PushingInv
<1>4. CASE DropFile \/ PutFile \/ (EndDrop /\ dir = "pull")
  <2>1. UNCHANGED <<dir, disturbed>> /\ dir = "pull"
    BY <1>4 DEF DropFile, PutFile, EndDrop
  <2>2. QED BY <2>1, <1>4, PullStep DEF PullingInv, PushingInv
<1>5. CASE \/ DropElement \/ AlterTable \/ PutSchemaElement \/ Redo \/ Create
           \/ EndPass \/ (EndDrop /\ dir = "push")
  <2>1. UNCHANGED <<dir, disturbed>> /\ dir = "push"
    BY <1>5 DEF DropElement, AlterTable, PutSchemaElement, Redo, Create, EndPass,
       NextPass, EndDrop, CopyInv
  <2>2. QED BY <2>1, <1>5, PushStep DEF PullingInv, PushingInv
<1>6. CASE DbEdit \/ DiskEdit
  <2>1. disturbed'
    BY <1>6 DEF DbEdit, DiskEdit, Edit
  <2>2. QED BY <2>1 DEF PullingInv, PushingInv
<1>7. CASE Rest \/ UNCHANGED vars
  <2>1. UNCHANGED vars
    BY <1>7 DEF Rest
  <2>2. /\ UNCHANGED <<DbSums, DiskSums, Readable, names, Removed, Alike>>
        /\ \A k \in Keys : Agree(k)' = Agree(k) /\ Orphan(k)' = Orphan(k)
    BY <2>1, SidesKept DEF vars, names, Removed, Alike, Orphan
  <2>3. \A k \in Keys : PullDone(k)' = PullDone(k) /\ PushDone(k)' = PushDone(k)
    BY <2>1, <2>2 DEF vars, PullDone, PushDone
  <2>4. QED BY <2>1, <2>2, <2>3 DEF vars, PullingInv, PushingInv, PullInv,
               PushInv, Planned, Changing
<1>8. dir \in {"pull", "push"}
  BY DEF CopyInv, TypeOK
<1>9. QED BY <1>2, <1>3, <1>4, <1>5, <1>6, <1>7, <1>8 DEF Next, Copier

-----------------------------------------------------------------------------
(* The end of a copy.                                                       *)
\* A copy that nobody has disturbed is about to end, as copied.
Ending ==
  /\ ~disturbed
  /\ \/ pc = "dest" /\ srcsums = DestSums
     \/ /\ Changing /\ (pc = "drop" => to_drop = {})
        /\ (keys = {} /\ pc = "put") \/ names = {}

(* Only the last step of a copy says that it is done.                       *)
LEMMA CopyEnding ==
  ASSUME [Next]_vars, Completed'
  PROVE  /\ UNCHANGED <<db, disk, dir, drop_errs, put_errs>>
         /\ Completed \/ Ending
<1> USE DEF mode, sums, work, hist, Finish
<1>1. pc' = "idle" /\ outcome' = "copied" /\ ~disturbed'
  BY DEF Completed
<1>2. CASE GetDestChecksums
  BY <1>1, <1>2 DEF GetDestChecksums, Ending
<1>3. CASE EndDrop \/ PutFilesDone \/ EndPass
  BY <1>1, <1>3 DEF EndDrop, PutFilesDone, EndPass, NextPass, Changing, Ending
<1>4. CASE Rest \/ UNCHANGED vars
  <2>1. UNCHANGED vars
    BY <1>4 DEF Rest
  <2>2. QED BY <2>1 DEF vars, Completed
<1>5. CASE \/ \E d \in Directions, o \in Options : Start(d, o)
           \/ GetSourceChecksums \/ Get \/ DropFile \/ DropElement \/ PutFile
           \/ PutSchemaElement \/ Redo \/ Create \/ Killed
  BY <1>1, <1>5 DEF Start, GetSourceChecksums, Get, DropFile, DropElement,
     PutFile, PutSchemaElement, Redo, Create, Killed
<1>6. CASE AlterTable \/ DbEdit \/ DiskEdit
  <2>1. (pc = "put" /\ pc' \in {pc, "redo"}) \/ disturbed'
    BY <1>6 DEF AlterTable, DbEdit, DiskEdit, Edit
  <2>2. QED BY <1>1, <2>1
<1>7. QED BY <1>2, <1>3, <1>4, <1>5, <1>6 DEF Next, Copier

(* A pull that ends has made the checksums agree.                           *)
LEMMA PullEnds ==
  ASSUME CopyInv, PullingInv, dir = "pull", Ending
  PROVE  \A k \in Keys : Agree(k)
<1>1. PullInv
  BY DEF PullingInv, Ending
<1>2. CASE pc = "dest"
  <2>1. DiskSums = DbSums
    BY <1>1, <1>2 DEF Ending, DestSums, PullInv, Planned, Changing
  <2>2. QED BY <2>1, AgreeAll
<1>3. ASSUME pc # "dest", NEW k \in Keys
      PROVE  Agree(k)
  <2>1. /\ Changing /\ to_drop = {} /\ srcsums = DbSums /\ PullDone(k)
        /\ (keys = {} /\ pc = "put") \/ names = {}
    BY <1>1, <1>3 DEF Ending, PullInv, Planned
  <2>2. CASE k \in Alike
    BY <2>1, <2>2 DEF PullDone
  <2>3. CASE k \in Removed
    BY <2>1, <2>3, SumsOf DEF PullDone, Removed, Remove, Agree
  <2>4. CASE k \in names
    <3>1. disk[k] = File(db[k], Checksum(db[k])) /\ db[k] # None
      BY <2>1, <2>4, SumsOf DEF PullDone, names, AddOrChange
    <3>2. db[k] \in Versions
      BY <3>1 DEF CopyInv, TypeOK
    <3>3. k \in Readable /\ DiskSums[k] = Checksum(db[k])
      BY <3>1, <3>2 DEF Readable, DiskSums, File
    <3>4. QED BY <3>1, <3>3 DEF Agree
  <2>5. QED BY <2>2, <2>3, <2>4 DEF Alike
<1>4. QED BY <1>2, <1>3

(* A push that ends has put each element, or reported it.                   *)
LEMMA PushEnds ==
  ASSUME CopyInv, LiesInv, PushingInv, dir = "push", Ending, NEW k \in Keys
  PROVE  Exact(k)
<1>1. PushInv
  BY DEF PushingInv, Ending
<1>2. CASE pc = "dest"
  <2>1. DiskSums = DbSums
    BY <1>1, <1>2 DEF Ending, DestSums, PushInv, Planned, Changing
  <2>2. QED BY <2>1, AgreeAll, AgreeSame DEF Exact
<1>3. CASE pc # "dest"
  <2>1. /\ Changing /\ to_drop = {} /\ srcsums = DiskSums /\ PushDone(k)
        /\ (keys = {} /\ pc = "put") \/ names = {}
    BY <1>1, <1>3 DEF Ending, PushInv, Planned
  <2>2. CASE k \in Alike
    <3>1. CASE Agree(k)
      BY <3>1, AgreeSame DEF Exact
    <3>2. CASE Orphan(k)
      BY <3>2 DEF Orphan, Exact, Source
    <3>3. QED BY <3>1, <3>2, <2>1, <2>2 DEF PushDone
  <2>3. CASE k \in Removed
    BY <2>1, <2>3, SumsOf DEF PushDone, Removed, Remove, Exact, Reported, Same
  <2>4. CASE k \in names
    <3>1. k \in put_errs \/ db[k] = disk[k].text
      BY <1>1, <2>1, <2>4 DEF PushDone, PushInv
    <3>2. k \in Readable
      BY <2>1, <2>4, SumsOf DEF names, AddOrChange
    <3>3. QED BY <3>1, <3>2 DEF Exact, Reported, Same
  <2>5. QED BY <2>2, <2>3, <2>4 DEF Alike
<1>4. QED BY <1>2, <1>3

(* After a pull that nobody disturbed the checksums of both sides agree: the*)
(* next one says "No changes" (CopySchema, vxschema.cs).                    *)
THEOREM PullsSettle == Spec => []PullSettles
<1>1. Init => PullingInv /\ PullSettles
  BY DEF Init, PullingInv, PullInv, Planned, Changing, PullSettles, Completed
<1>2. ASSUME CopyInv, PullingInv, PullSettles, [Next]_vars
      PROVE  PullingInv' /\ PullSettles'
  <2>1. PullingInv'
    BY <1>2, CopyingStep
  <2>2. ASSUME Completed', dir' = "pull" PROVE (DiskSums = DbSums)'
    <3>1. UNCHANGED <<db, disk, dir>> /\ (Completed \/ Ending)
      BY <1>2, <2>2, CopyEnding
    <3>2. DiskSums = DbSums
      BY <1>2, <2>2, <3>1, PullEnds, AgreeAll DEF PullSettles
    <3>3. QED BY <3>1, <3>2, SidesKept
  <2>3. QED BY <2>1, <2>2 DEF PullSettles
<1>3. QED BY PlanIsHeld, <1>1, <1>2, PTL DEF Spec

(* A copy that nobody disturbed has made every element the same on both     *)
(* sides, or reported it, and after a pull the checksums agree too, whatever*)
(* came before (CopySchema; VxDiskSchema.ExportToDisk and ReadSchemaFile).  *)
(* Texts do not come back, and no table with triggers is created again: with*)
(* either it is false.                                                      *)
THEOREM CopiesSettle == ASSUME Settling PROVE Spec => []CopySettles
<1>1. Init => TextsInv /\ PullingInv /\ PushingInv /\ EveryMissReported
  BY TextsInit DEF Init, PullingInv, PushingInv, PullInv, PushInv, Planned,
     Changing, EveryMissReported, Completed
<1>2. ASSUME CopyInv, TextsInv, PullingInv, PushingInv, EveryMissReported,
             [Next]_vars
      PROVE  TextsInv' /\ PullingInv' /\ PushingInv' /\ EveryMissReported'
  <2>1. TextsInv'
    BY <1>2, TextsStep DEF Settling
  <2>2. PullingInv' /\ PushingInv'
    BY <1>2, CopyingStep
  <2>3. ASSUME Completed' PROVE \A k \in Keys : Exact(k)'
    <3>1. /\ UNCHANGED <<db, disk, dir, drop_errs, put_errs>>
          /\ Completed \/ Ending
      BY <1>2, <2>3, CopyEnding
    <3>2. LiesInv /\ dir \in {"pull", "push"}
      BY <1>2 DEF TextsInv, CopyInv, TypeOK
    <3>3. ASSUME Ending, NEW k \in Keys PROVE Exact(k)
      <4>1. CASE dir = "pull"
        BY <1>2, <3>2, <3>3, <4>1, PullEnds, AgreeSame DEF Exact
      <4>2. CASE dir = "push"
        BY <1>2, <3>2, <3>3, <4>2, PushEnds
      <4>3. QED BY <3>2, <4>1, <4>2
    <3>4. \A k \in Keys : Exact(k)
      BY <1>2, <3>1, <3>3 DEF EveryMissReported
    <3>5. UNCHANGED Readable /\ UNCHANGED DOMAIN DbText
      BY <3>1, SidesKept DEF DbText
    <3>6. QED BY <3>1, <3>4, <3>5 DEF Exact, Source, Reported, Same
  <2>4. QED BY <2>1, <2>2, <2>3 DEF EveryMissReported
<1>3. EveryMissReported /\ PullSettles => CopySettles
  BY DEF CopySettles
<1>4. QED BY PlanIsHeld, PullsSettle, <1>1, <1>2, <1>3, PTL DEF Spec
=============================================================================
