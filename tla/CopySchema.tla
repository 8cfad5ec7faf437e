----------------------------- MODULE CopySchema -----------------------------
(***************************************************************************)
(* Copying a schema between a database and a directory (vxschema.cs:        *)
(* CopySchema; sm push and sm pull), with both backends: the directory      *)
(* (vxdiskschema.cs) and the database (vxdbschema.cs), whose Put retries    *)
(* until the number of errors stops decreasing.                             *)
(*                                                                          *)
(* A copy asks each side for its checksums, then the source for the         *)
(* elements that differ, and then changes the destination one element at a  *)
(* time.  Meanwhile other clients change the database, the user changes     *)
(* files, statements fail, and the program may be killed.                   *)
(***************************************************************************)
EXTENDS Integers, FiniteSets

CONSTANTS
  Keys,                \* schema elements
  Tables, Triggers,    \* those that are tables, and triggers on tables
  Needs,               \* what must exist before an element can be created
  Versions,            \* texts of an element
  Directions, Options, \* the copies that are tried
  Reuse,               \* whether an edit may bring back an earlier text
  Flaky,               \* whether failures are without limit
  MaxEdits, MaxFails, MaxCopies

None == "none"      \* no element
Cut == "cut"        \* a text that stops in the middle
Torn == "torn"      \* a file without a whole header line

ASSUME KeysAssumption == IsFiniteSet(Keys) /\ Tables \cap Triggers = {}
                         /\ Tables \cup Triggers \subseteq Keys
ASSUME NeedsAssumption == Needs \in [Keys -> SUBSET Keys]
ASSUME VersionsAssumption == {None, Cut, Torn} \cap Versions = {}
ASSUME ModesAssumption ==
  /\ Directions \subseteq {"push", "pull"}
  /\ Options \subseteq [dry_run : BOOLEAN, destructive : BOOLEAN]
  /\ Reuse \in BOOLEAN /\ Flaky \in BOOLEAN
ASSUME BoundsAssumption == {MaxEdits, MaxFails, MaxCopies} \subseteq Nat

VARIABLES
  db,       \* the text of each element in the database, or None
  disk,     \* the file of each element, or None
  pc, dir, opts,
  srcsums, destsums,
  to_drop,  \* what is still to be dropped
  to_put,   \* the elements that were retrieved
  keys,     \* what the current pass of Put has still to handle
  cur,      \* the element being dropped and created
  drop_errs, put_errs, old_err_count,
  outcome,  \* how the last copy ended
  used,     \* history: the texts each element has had
  disturbed, failed,  \* history: another change, a failure in this copy
  edits, fails, copies

sums == <<srcsums, destsums>>
work == <<to_drop, to_put, keys, cur, drop_errs, put_errs, old_err_count>>
mode == <<dir, opts>>
hist == <<used, disturbed>>
budget == <<fails, failed>>
vars == <<db, disk, pc, mode, sums, work, outcome, hist, budget, edits, copies>>

-----------------------------------------------------------------------------
(* The two backends.                                                        *)

\* A list of checksums, which tells all texts apart; an empty list.
Checksum(text) == {text}
NoSum == {}

\* A file's text, the text its header's MD5 is of, and the header's checksum.
File(text, sum) == [text |-> text, md5 |-> text, sum |-> sum]
NoFile == File(None, NoSum)
TornFile == File(Torn, NoSum)
Readable == {k \in Keys : disk[k].text \notin {None, Torn}}

DiskText == [k \in Readable |-> disk[k].text]
\* ReadSchemaFile: no checksums for a file whose MD5 is wrong.
DiskSums ==
  [k \in Readable |->
     IF disk[k].text = disk[k].md5 THEN disk[k].sum ELSE NoSum]

DbText == [k \in {k \in Keys : db[k] # None} |-> db[k]]
DbSums == [k \in DOMAIN DbText |-> Checksum(db[k])]

SourceSums == IF dir = "pull" THEN DbSums ELSE DiskSums
DestSums == IF dir = "pull" THEN DiskSums ELSE DbSums

\* DROP takes a table's triggers with it.
Gone(k) == {k} \cup {t \in Triggers : k \in Tables /\ k \in Needs[t]}
DbDrop(k) == db' = [x \in Keys |-> IF x \in Gone(k) THEN None ELSE db[x]]

Fits(k, text) == text # Cut /\ \A n \in Needs[k] : db[n] # None

Fails == /\ fails > 0 \/ Flaky
         /\ fails' = IF Flaky THEN fails ELSE fails - 1
         /\ failed' = TRUE

-----------------------------------------------------------------------------
(* VxSchemaDiff: what turns the destination into the source.                *)

Remove(src, dest) == DOMAIN dest \ DOMAIN src
AddOrChange(src, dest) ==
  {k \in DOMAIN src : k \notin DOMAIN dest \/ dest[k] # src[k]}

names == AddOrChange(srcsums, destsums)

\* Each side has some of the elements, all of one version.
Init ==
  /\ \E v \in Versions : db \in [Keys -> {None, v}]
  /\ \E v \in Versions : disk \in [Keys -> {NoFile, File(v, Checksum(v))}]
  /\ used = [k \in Keys |-> {db[k], disk[k].text} \ {None}]
  /\ pc = "idle" /\ dir \in Directions /\ opts \in Options
  /\ srcsums = <<>> /\ destsums = <<>>
  /\ to_drop = {} /\ to_put = <<>> /\ keys = {} /\ cur = None
  /\ drop_errs = {} /\ put_errs = {} /\ old_err_count = -1
  /\ outcome = "none"
  /\ disturbed = FALSE /\ failed = FALSE
  /\ edits = MaxEdits /\ fails = MaxFails /\ copies = MaxCopies

Start(d, o) ==
  /\ pc = "idle" /\ copies > 0
  /\ copies' = copies - 1
  /\ pc' = "source" /\ dir' = d /\ opts' = o
  /\ to_drop' = {} /\ to_put' = <<>> /\ keys' = {} /\ cur' = None
  /\ drop_errs' = {} /\ put_errs' = {} /\ old_err_count' = -1
  /\ outcome' = "none" /\ disturbed' = FALSE /\ failed' = FALSE
  /\ UNCHANGED <<db, disk, sums, used, edits, fails>>

Finish(how) ==
  /\ pc' = "idle" /\ outcome' = how
  /\ srcsums' = <<>> /\ destsums' = <<>>

GetSourceChecksums ==
  /\ pc = "source"
  /\ srcsums' = SourceSums
  /\ pc' = "dest"
  /\ UNCHANGED <<db, disk, mode, destsums, work, outcome, hist, budget, edits,
                 copies>>

\* Nothing to do, or an empty source, which would delete everything.
GetDestChecksums ==
  /\ pc = "dest"
  /\ \/ /\ srcsums = <<>> /\ DestSums # <<>>
        /\ Finish("refused")
     \/ /\ srcsums = DestSums
        /\ Finish("copied")
     \/ /\ srcsums # <<>> /\ srcsums # DestSums
        /\ destsums' = DestSums
        /\ pc' = "get"
        /\ UNCHANGED <<srcsums, outcome>>
  /\ UNCHANGED <<db, disk, mode, work, hist, budget, edits, copies>>

\* A database returns those of the elements that it still has; a directory
\* throws when one is gone.
Retrieved ==
  LET text == IF dir = "pull" THEN DbText ELSE DiskText
  IN [k \in names \cap DOMAIN text |-> text[k]]

\* Mutant: a dry run is one that puts nothing.
GetThenDrop ==
  /\ pc = "get"
  /\ to_put' = IF opts.dry_run THEN <<>> ELSE Retrieved
  /\ to_drop' = Remove(srcsums, destsums)
  /\ pc' = "drop"
  /\ UNCHANGED <<db, disk, mode, sums, keys, cur, drop_errs, put_errs,
                 old_err_count, outcome, hist, budget, edits, copies>>

Get ==
  /\ pc = "get"
  /\ \/ /\ dir = "push" /\ ~(names \subseteq Readable)
        /\ Finish("threw") /\ UNCHANGED <<to_put, to_drop>>
     \/ /\ dir = "pull" \/ names \subseteq Readable
        /\ opts.dry_run
        /\ Finish("dry run") /\ UNCHANGED <<to_put, to_drop>>
     \/ /\ dir = "pull" \/ names \subseteq Readable
        /\ ~opts.dry_run
        /\ to_put' = Retrieved
        /\ to_drop' = Remove(srcsums, destsums)
        /\ pc' = "drop"
        /\ UNCHANGED <<sums, outcome>>
  /\ UNCHANGED <<db, disk, mode, keys, cur, drop_errs, put_errs,
                 old_err_count, hist, budget, edits, copies>>

DropFile ==
  /\ pc = "drop" /\ dir = "pull"
  /\ \E k \in to_drop :
       /\ disk' = [disk EXCEPT ![k] = NoFile]
       /\ to_drop' = to_drop \ {k}
  /\ UNCHANGED <<db, pc, mode, sums, to_put, keys, cur, drop_errs, put_errs,
                 old_err_count, outcome, hist, budget, edits, copies>>

DropElement ==
  /\ pc = "drop" /\ dir = "push"
  /\ \E k \in to_drop :
       /\ to_drop' = to_drop \ {k}
       /\ \/ /\ db[k] # None /\ DbDrop(k)
             /\ UNCHANGED <<drop_errs, budget>>
          \/ /\ db[k] = None /\ UNCHANGED <<db, budget>>
             /\ drop_errs' = drop_errs \cup {k}
          \/ /\ db[k] # None /\ Fails /\ UNCHANGED db
             /\ drop_errs' = drop_errs \cup {k}
  /\ UNCHANGED <<disk, pc, mode, sums, to_put, keys, cur, put_errs,
                 old_err_count, outcome, hist, edits, copies>>

\* Mutant: Put is asked for everything in the diff, retrieved or not.
EndDropAll ==
  /\ pc = "drop" /\ to_drop = {}
  /\ pc' = "put" /\ keys' = names
  /\ UNCHANGED <<db, disk, mode, sums, to_drop, to_put, cur, drop_errs,
                 put_errs, old_err_count, outcome, hist, budget, edits, copies>>

EndDrop ==
  /\ pc = "drop" /\ to_drop = {}
  /\ IF names = {} THEN Finish("copied") /\ UNCHANGED keys
     ELSE pc' = "put" /\ keys' = DOMAIN to_put /\ UNCHANGED <<sums, outcome>>
  /\ UNCHANGED <<db, disk, mode, to_drop, to_put, cur, drop_errs, put_errs,
                 old_err_count, hist, budget, edits, copies>>

\* Mutant: the header gets the checksums that the directory had.
PutFileOldSum ==
  /\ pc = "put" /\ dir = "pull"
  /\ \E k \in keys :
       /\ disk' = [disk EXCEPT ![k] = File(to_put[k],
                     IF k \in DOMAIN destsums THEN destsums[k] ELSE NoSum)]
       /\ keys' = keys \ {k}
  /\ UNCHANGED <<db, pc, mode, sums, to_drop, to_put, cur, drop_errs, put_errs,
                 old_err_count, outcome, hist, budget, edits, copies>>

\* ExportToDisk, with the checksum that was read before the text.
PutFile ==
  /\ pc = "put" /\ dir = "pull"
  /\ \E k \in keys :
       /\ disk' = [disk EXCEPT ![k] = File(to_put[k], srcsums[k])]
       /\ keys' = keys \ {k}
  /\ UNCHANGED <<db, pc, mode, sums, to_drop, to_put, cur, drop_errs, put_errs,
                 old_err_count, outcome, hist, budget, edits, copies>>

PutFilesDone ==
  /\ pc = "put" /\ dir = "pull" /\ keys = {}
  /\ Finish("copied")
  /\ UNCHANGED <<db, disk, mode, work, hist, budget, edits, copies>>
-----------------------------------------------------------------------------
(* VxDbSchema.Put.                                                          *)

\* Tables go first.
Turn == IF keys \cap Tables # {} THEN keys \cap Tables ELSE keys

\* A text that an edit may give to an element.
Fresh(k) == IF Reuse THEN Versions ELSE Versions \ used[k]
Use(k, v) == used' = [used EXCEPT ![k] = @ \cup {v}]

\* PutSchemaTables, for a table that exists.  An error may leave it changed
\* in part, as PutSchemaTable tells; with Destructive it is then dropped.
AlterTable ==
  /\ pc = "put" /\ dir = "push"
  /\ \E k \in Turn \cap Tables :
       /\ db[k] # None
       /\ \/ /\ Fits(k, to_put[k])
             /\ db' = [db EXCEPT ![k] = to_put[k]]
             /\ keys' = keys \ {k}
             /\ UNCHANGED <<pc, cur, put_errs, used, budget>>
          \/ /\ \/ ~Fits(k, to_put[k]) /\ UNCHANGED budget
                \/ Fails
             /\ \/ UNCHANGED <<db, used>>
                \/ \E v \in Fresh(k) : Use(k, v) /\ db' = [db EXCEPT ![k] = v]
             /\ IF opts.destructive
                THEN /\ pc' = "redo" /\ cur' = k
                     /\ UNCHANGED <<keys, put_errs>>
                ELSE /\ put_errs' = put_errs \cup {k} /\ keys' = keys \ {k}
                     /\ UNCHANGED <<pc, cur>>
  /\ UNCHANGED <<disk, mode, sums, to_drop, to_put, drop_errs, old_err_count,
                 outcome, disturbed, edits, copies>>

\* Mutant: drop whatever it is.
PutSchemaElementDropping ==
  /\ pc = "put" /\ dir = "push"
  /\ \E k \in Turn : cur' = k
  /\ pc' = "redo"
  /\ UNCHANGED <<db, disk, mode, sums, to_drop, to_put, keys, drop_errs,
                 put_errs, old_err_count, outcome, hist, budget, edits, copies>>

\* PutSchemaElement: drop, unless it is a table that may not be dropped.
PutSchemaElement ==
  /\ pc = "put" /\ dir = "push"
  /\ \E k \in Turn :
       /\ k \in Tables => db[k] = None
       /\ cur' = k
       /\ pc' = IF k \in Tables /\ ~opts.destructive THEN "create" ELSE "redo"
  /\ UNCHANGED <<db, disk, mode, sums, to_drop, to_put, keys, drop_errs,
                 put_errs, old_err_count, outcome, hist, budget, edits, copies>>

\* DropSchema's errors are not looked at.
Redo ==
  /\ pc = "redo"
  /\ \/ DbDrop(cur) /\ UNCHANGED budget
     \/ Fails /\ UNCHANGED db
  /\ pc' = "create"
  /\ UNCHANGED <<disk, mode, sums, work, outcome, hist, edits, copies>>

\* Mutant: a failing create is not reported.
CreateQuietly ==
  /\ pc = "create"
  /\ \/ /\ db[cur] = None /\ Fits(cur, to_put[cur])
        /\ db' = [db EXCEPT ![cur] = to_put[cur]]
        /\ UNCHANGED budget
     \/ /\ \/ ~(db[cur] = None /\ Fits(cur, to_put[cur])) /\ UNCHANGED budget
           \/ Fails
        /\ UNCHANGED db
  /\ pc' = "put" /\ cur' = None /\ keys' = keys \ {cur}
  /\ UNCHANGED <<disk, mode, sums, to_drop, to_put, drop_errs, put_errs,
                 old_err_count, outcome, hist, edits, copies>>

Create ==
  /\ pc = "create"
  /\ \/ /\ db[cur] = None /\ Fits(cur, to_put[cur])
        /\ db' = [db EXCEPT ![cur] = to_put[cur]]
        /\ UNCHANGED <<put_errs, budget>>
     \/ /\ \/ ~(db[cur] = None /\ Fits(cur, to_put[cur])) /\ UNCHANGED budget
           \/ Fails
        /\ put_errs' = put_errs \cup {cur}
        /\ UNCHANGED db
  /\ pc' = "put" /\ cur' = None /\ keys' = keys \ {cur}
  /\ UNCHANGED <<disk, mode, sums, to_drop, to_put, drop_errs, old_err_count,
                 outcome, hist, edits, copies>>

NextPass(again) ==
  /\ pc = "put" /\ dir = "push" /\ keys = {}
  /\ IF again
     THEN /\ old_err_count' = Cardinality(put_errs)
          /\ keys' = put_errs /\ put_errs' = {}
          /\ UNCHANGED <<pc, sums, outcome>>
     ELSE Finish("copied") /\ UNCHANGED <<old_err_count, keys, put_errs>>
  /\ UNCHANGED <<db, disk, mode, to_drop, to_put, cur, drop_errs, hist, budget,
                 edits, copies>>

\* Mutants: one pass only; as long as there are errors.
EndPassOnce == NextPass(FALSE)
EndPassForever == NextPass(put_errs # {})

\* Again, until the number of errors stops decreasing.
EndPass ==
  NextPass(/\ put_errs # {} /\ Cardinality(DOMAIN to_put) # 1
           /\ Cardinality(put_errs) # old_err_count)

-----------------------------------------------------------------------------
(* Failures, and everyone else.                                             *)

\* An exception, or the program is killed, perhaps while it writes a file.
Killed ==
  /\ pc # "idle" /\ Fails
  /\ Finish("threw")
  /\ \/ UNCHANGED disk
     \/ /\ pc = "put" /\ dir = "pull"
        /\ \E k \in keys :
             \/ disk' = [disk EXCEPT ![k] = TornFile]
             \/ disk' = [disk EXCEPT ![k] = [text |-> Cut, md5 |-> to_put[k],
                                             sum |-> srcsums[k]]]
  /\ UNCHANGED <<db, mode, work, hist, edits, copies>>

Edit == /\ edits > 0 /\ edits' = edits - 1
        /\ disturbed' = TRUE
        /\ UNCHANGED <<pc, mode, sums, work, outcome, budget, copies>>

\* Another client of the database.
DbEdit ==
  /\ Edit /\ UNCHANGED disk
  /\ \E k \in Keys :
       \/ \E v \in Fresh(k) :
            Fits(k, v) /\ db' = [db EXCEPT ![k] = v] /\ Use(k, v)
       \/ db[k] # None /\ DbDrop(k) /\ UNCHANGED used

\* The user edits, replaces, deletes or damages a file.
DiskEdit ==
  /\ Edit /\ UNCHANGED db
  /\ \E k \in Keys :
       \/ \E v \in Fresh(k) :
            /\ k \in Readable /\ disk' = [disk EXCEPT ![k].text = v] /\ Use(k, v)
       \/ \E v \in Fresh(k) :
            disk' = [disk EXCEPT ![k] = File(v, Checksum(v))] /\ Use(k, v)
       \/ k \in Readable /\ disk' = [disk EXCEPT ![k] = NoFile] /\ UNCHANGED used
       \/ k \in Readable /\ disk' = [disk EXCEPT ![k] = TornFile]
          /\ UNCHANGED used

Copier ==
  \/ GetSourceChecksums \/ GetDestChecksums \/ Get
  \/ DropFile \/ DropElement \/ EndDrop \/ PutFile \/ PutFilesDone
  \/ AlterTable \/ PutSchemaElement \/ Redo \/ Create \/ EndPass

\* Nobody starts another copy.
Rest == pc = "idle" /\ copies = 0 /\ UNCHANGED vars

Next ==
  \/ \E d \in Directions, o \in Options : Start(d, o)
  \/ Copier \/ Killed \/ DbEdit \/ DiskEdit \/ Rest

Spec == Init /\ [][Next]_vars
\* The thread goes on, and the server answers each statement.
FairSpec == Spec /\ WF_vars(Copier)

-----------------------------------------------------------------------------
(* Properties.                                                              *)

Texts == Versions \cup {Cut}
Sums == {Checksum(v) : v \in Versions} \cup {NoSum}
Files == [text : Texts \cup {None, Torn}, md5 : Texts \cup {None, Torn},
          sum : Sums]
SumSets == UNION {[K -> Sums] : K \in SUBSET Keys}

\* Every variable has its type; only elements that were retrieved are put.
TypeOK ==
  /\ db \in [Keys -> Versions \cup {None}] /\ disk \in [Keys -> Files]
  /\ pc \in {"idle", "source", "dest", "get", "drop", "put", "redo", "create"}
  /\ dir \in Directions /\ opts \in Options
  /\ srcsums \in SumSets /\ destsums \in SumSets
  /\ to_drop \subseteq Keys
  /\ to_put \in UNION {[K -> Texts] : K \in SUBSET Keys}
  /\ keys \subseteq DOMAIN to_put
  /\ pc \in {"redo", "create"} => cur \in keys
  /\ put_errs \subseteq DOMAIN to_put /\ drop_errs \subseteq Keys
  /\ old_err_count \in -1..Cardinality(Keys)
  /\ used \in [Keys -> SUBSET Versions]
  /\ edits \in 0..MaxEdits /\ fails \in 0..MaxFails /\ copies \in 0..MaxCopies

\* Why OnlyDifferences and TableKept hold: from Get on, the copy's plan is what
\* the checksums said, and only an element that may be dropped is redone.
Changing == pc \in {"drop", "put", "redo", "create"}
CopyInv ==
  /\ TypeOK
  /\ pc \in {"source", "dest", "get"} => keys = {} /\ put_errs = {}
  /\ pc = "get" \/ Changing => srcsums # <<>>
  /\ Changing =>
       /\ ~opts.dry_run
       /\ to_drop \subseteq Remove(srcsums, destsums)
       /\ DOMAIN to_put \subseteq names
  /\ pc \in {"redo", "create"} => dir = "push"
  /\ pc = "redo" /\ cur \in Tables => opts.destructive

Same(k) ==
  IF k \in Readable THEN db[k] = disk[k].text ELSE db[k] = None

Reported == drop_errs \cup put_errs
Source == IF dir = "pull" THEN DOMAIN DbText ELSE Readable

Exact(k) == Needs[k] \subseteq Source /\ k \notin Reported => Same(k)
Completed == pc = "idle" /\ outcome = "copied" /\ ~disturbed

\* A copy that nobody disturbed has made every element the same on both
\* sides, or has reported it, whatever races, crashes and failures there were
\* in earlier copies and failures in this one.
EveryMissReported == Completed => \A k \in Keys : Exact(k)

\* After such a pull the checksums agree, so that the next copy has nothing
\* to do.
PullSettles == Completed /\ dir = "pull" => DiskSums = DbSums

\* What a copy leaves is right, or reported, and stays so (the two above).
CopySettles == EveryMissReported /\ PullSettles

\* A copy's own steps change only the destination, and of it only elements
\* whose checksums were read and differed; a dry run changes nothing, nor
\* does a copy from an empty source.
OnlyDifferences ==
  [][edits' = edits =>
       /\ dir = "pull" => db' = db
       /\ dir = "push" => disk' = disk
       /\ \A k \in Keys :
            db'[k] # db[k] \/ disk'[k] # disk[k] =>
              /\ ~opts.dry_run /\ srcsums # <<>>
              /\ \/ k \in names \cup Remove(srcsums, destsums)
                 \/ k \in Triggers]_vars

\* When Put gives up and no statement failed for a reason of its own, each
\* element it reports needs something that is not there, or is no valid text.
RetryIsEnough ==
  Completed /\ dir = "push" /\ ~failed =>
    \A k \in put_errs : ~Fits(k, to_put[k])

\* Without Destructive, a table leaves the database only if the directory had
\* no file for it.
TableKept ==
  [][edits' = edits /\ ~opts.destructive =>
       \A k \in Tables :
         db[k] # None /\ db'[k] = None => k \notin DOMAIN srcsums]_vars

\* However statements fail, a copy ends.
CopyEnds == pc # "idle" ~> pc = "idle"

\* The comment on PutSchemaTables: with Destructive the schema is updated
\* exactly.
ForceIsExact == Completed /\ opts.destructive => \A k \in Keys : Exact(k)

\* The comment on CopySchema: the destination is made to look like the source.
LooksLikeSource == Completed /\ dir = "pull" => \A k \in Keys : Same(k)
=============================================================================
