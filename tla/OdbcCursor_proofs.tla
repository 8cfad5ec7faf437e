-------------------------- MODULE OdbcCursor_proofs --------------------------
(* The cursor of the ODBC driver, for any values of the constants: rows      *)
(* arrive from where the cursor is, whole when success is reported.  The     *)
(* invariant says that the cache starts with the rowset from the moment rows *)
(* were fetched, that a statement's arrays cover the columns of its result,  *)
(* and what holds of a rowset as long as it stays loaded.  What the loop     *)
(* over the rows of a rowset leaves is proved by induction over its rounds   *)
(* (Looping), on the solution of its recursion (LoopSolved).                 *)
EXTENDS OdbcCursor, WellFoundedInduction, SequenceTheorems, TLAPS

-----------------------------------------------------------------------------
(* The cursor: what a statement is made of.                                  *)
Cells == {"short", "long", "bad"}
CursorTypes == {"FORWARD_ONLY", "STATIC"}
Cached == [cols : {-1} \cup 0..MaxCol, rows : {<<>>} \cup {r.rows : r \in Results},
           base : Int, valid : BOOLEAN]
Lefts == [1..MaxCol -> {-2, -1, 0, 1}]
Options == [cursor : CursorTypes, maxRows : Nat, retrieve : BOOLEAN]
ARDs == [allocated : 0..MaxCol, bound : SUBSET (1..MaxCol),
         size : Nat \ {0}, size2 : Nat \ {0}]
GDatas == [allocated : 0..MaxCol, left : Lefts]
Statuses == {"ALLOCATED", "READY", "FINISHED"}
Types == {"UNKNOWN", "SELECT", "OTHER"}
Errors == {"NONE", "OTHER", "ROW", "POS_BEFORE"}
Cursors ==
  [status : Statuses, text : BOOLEAN, type : Types,
   res : Cached, curr : Int, start : Int, save : Int, lfc : Nat, col : Int, bindRow : Int,
   err : Errors, opt : Options, orig : Options,
   ard : ARDs, gd : GDatas]

\* the result is one of the answers, and its columns have their records
ResultOK(t) ==
  /\ t.res = NoResult \/ [cols |-> t.res.cols, rows |-> t.res.rows] \in Results
  /\ (t.status = "FINISHED") <=> HasResult(t)
  /\ t.res.cols <= t.ard.allocated

\* what lies behind the arrays of the descriptors is as if it never was
ColumnsOK(t) ==
  /\ t.ard.bound \subseteq 1..t.ard.allocated
  /\ \A c \in 1..MaxCol : c > t.gd.allocated => t.gd.left[c] = -1

\* the cache's base is the rowset's start as soon as rows were fetched
BaseOK(t) ==
  /\ t.lfc > 0 => t.res.rows # <<>>
  /\ HasResult(t) /\ (t.lfc > 0 \/ t.curr >= 0) => t.res.valid /\ t.start = t.res.base

Sound(t) == t \in Cursors /\ ResultOK(t) /\ ColumnsOK(t) /\ BaseOK(t)

LEMMA CursorNames ==
  /\ "ALLOCATED" \in Statuses /\ "READY" \in Statuses /\ "FINISHED" \in Statuses
  /\ "UNKNOWN" \in Types /\ "SELECT" \in Types /\ "OTHER" \in Types
  /\ "NONE" \in Errors /\ "OTHER" \in Errors /\ "ROW" \in Errors /\ "POS_BEFORE" \in Errors
  /\ NoResult \in Cached
  BY DEF Statuses, Types, Errors, NoResult, Cached

LEMMA Totals ==
  ASSUME NEW t \in Cursors, ResultOK(t)
  PROVE  /\ Total(t) \in Nat
         /\ ~HasResult(t) => Total(t) = 0
         /\ t.res.rows = <<>> <=> Total(t) = 0
         /\ HasResult(t) => t.res.cols \in 0..MaxCol
         /\ \A i \in 0..(Total(t) - 1), c \in 1..t.res.cols :
               HasResult(t) => t.res.rows[i + 1][c] \in Cells
<1>1. CASE t.res = NoResult
  BY <1>1 DEF HasResult, NoResult, Total
<1>2. CASE t.res # NoResult
  <2>1. PICK r \in Results : r.cols = t.res.cols /\ r.rows = t.res.rows
    BY <1>2 DEF ResultOK
  <2>2. r.cols \in 0..MaxCol /\ r.rows \in Seq([1..r.cols -> Cells])
    BY ResultsAssumption DEF Cells
  <2> DEFINE rows == t.res.rows
             cols == t.res.cols
  <2>3. rows \in Seq([1..cols -> Cells]) /\ cols \in 0..MaxCol
    BY <2>1, <2>2
  <2> HIDE DEF rows, cols
  <2>4. Len(rows) \in Nat /\ (rows = <<>> <=> Len(rows) = 0)
    BY <2>3
  <2>5. ASSUME NEW i \in 0..(Len(rows) - 1), NEW c \in 1..cols
        PROVE  rows[i + 1][c] \in Cells
    <3>1. i + 1 \in 1..Len(rows)
      BY <2>4
    <3>2. rows[i + 1] \in [1..cols -> Cells]
      BY <3>1, <2>3
    <3>3. QED BY <3>2
  <2>6. QED BY <1>2, <2>3, <2>4, <2>5 DEF Total, HasResult, rows, cols
<1>3. QED BY <1>1, <1>2

-----------------------------------------------------------------------------
(* The small steps.                                                          *)

LEMMA Erring ==
  ASSUME NEW t, Sound(t), NEW e \in Errors
  PROVE  Sound(SetError(t, e))
  BY DEF Sound, Cursors, ResultOK, ColumnsOK, BaseOK, HasResult, SetError

LEMMA Clearing ==
  ASSUME NEW t, Sound(t)
  PROVE  Sound(ClearError(t))
  BY Erring, CursorNames DEF ClearError

LEMMA Starting ==
  ASSUME NEW t \in Cursors, NEW start \in Int, NEW valid \in BOOLEAN
  PROVE  LET u == SetRowsetStart(t, start, valid)
         IN /\ u \in Cursors
            /\ u = [t EXCEPT !.start = start, !.res = u.res]
            /\ u.res.cols = t.res.cols /\ u.res.rows = t.res.rows
            /\ ~HasResult(t) => u.res = t.res
            /\ HasResult(t) => u.res.valid = valid
            /\ HasResult(t) /\ t.res.valid /\ valid => u.res.base = t.res.base + (start - t.start)
<1> DEFINE r == t.res
           base == Pick(r.valid, Pick(valid, r.base + (start - t.start), r.base),
                     Pick(valid, Pick(start < 0, -1, 0), r.base))
           next == Pick(HasResult(t), [r EXCEPT !.base = base, !.valid = valid], r)
<1>1. r \in Cached /\ t.start \in Int
  BY DEF Cursors
<1>2. base \in Int /\ (r.valid /\ valid => base = r.base + (start - t.start))
  BY <1>1 DEF Cached, Pick
<1> HIDE DEF base
<1>3. next \in Cached /\ next.cols = r.cols /\ next.rows = r.rows
      /\ (~HasResult(t) => next = r)
      /\ (HasResult(t) => next.valid = valid /\ next.base = base)
  BY <1>1, <1>2 DEF Cached, Pick
<1> HIDE DEF next
<1>4. SetRowsetStart(t, start, valid) = [t EXCEPT !.start = start, !.res = next]
  BY DEF SetRowsetStart, next, base
<1>5. QED BY <1>2, <1>3, <1>4 DEF Cursors

LEMMA Resetting ==
  ASSUME NEW g \in GDatas, NEW c \in Int
  PROVE  LET h == ResetAGetDataInfo(g, c)
         IN /\ h \in GDatas
            /\ h.allocated = g.allocated
            /\ \A d \in 1..MaxCol : h.left[d] = IF d = c /\ d <= g.allocated THEN -1
                                                ELSE g.left[d]
<1>1. MaxCol \in Nat /\ g.allocated \in 0..MaxCol /\ g.left \in Lefts
  BY SizesAssumption DEF GDatas
<1>2. CASE c \in 1..g.allocated
  <2> DEFINE left == [g.left EXCEPT ![c] = -1]
  <2>1. left \in Lefts /\ \A d \in 1..MaxCol : left[d] = IF d = c THEN -1 ELSE g.left[d]
    BY <1>1, <1>2 DEF Lefts
  <2>2. ResetAGetDataInfo(g, c) = [g EXCEPT !.left = left]
    BY <1>2 DEF ResetAGetDataInfo
  <2> HIDE DEF left
  <2>3. [g EXCEPT !.left = left] \in GDatas
    BY <2>1 DEF GDatas
  <2>4. [g EXCEPT !.left = left].left = left /\ [g EXCEPT !.left = left].allocated = g.allocated
    BY DEF GDatas
  <2>5. \A d \in 1..MaxCol : d = c => d <= g.allocated
    BY <1>1, <1>2
  <2>6. QED BY <2>1, <2>2, <2>3, <2>4, <2>5
<1>3. CASE c \notin 1..g.allocated
  BY <1>1, <1>3 DEF ResetAGetDataInfo
<1>4. QED BY <1>2, <1>3

LEMMA Columns ==
  ASSUME NEW t \in Cursors, ColumnsOK(t), NEW c \in {-1} \cup 0..(MaxCol - 1)
  PROVE  LET u == SetCurrentCol(t, c)
         IN /\ u \in Cursors /\ ColumnsOK(u)
            /\ u = [t EXCEPT !.col = c, !.gd = u.gd]
            /\ u.gd.allocated = t.gd.allocated
            /\ \A d \in 1..MaxCol : u.gd.left[d] = IF c # t.col /\ d = c + 1 THEN -1
                                                   ELSE t.gd.left[d]
<1>1. t.gd \in GDatas /\ t.col \in Int /\ c \in Int /\ MaxCol \in Nat
  BY SizesAssumption DEF Cursors
<1> DEFINE g == IF c >= 0 THEN ResetAGetDataInfo(t.gd, c + 1) ELSE t.gd
<1>2. g \in GDatas /\ g.allocated = t.gd.allocated
      /\ \A d \in 1..MaxCol : g.left[d] = IF d = c + 1 /\ d <= t.gd.allocated THEN -1
                                          ELSE t.gd.left[d]
  <2>1. CASE c >= 0
    <3> DEFINE k == c + 1
    <3>1. k \in Int /\ g = ResetAGetDataInfo(t.gd, k)
      BY <1>1, <2>1
    <3> HIDE DEF k, g
    <3>2. /\ g \in GDatas /\ g.allocated = t.gd.allocated
          /\ \A d \in 1..MaxCol : g.left[d] = IF d = k /\ d <= t.gd.allocated THEN -1
                                              ELSE t.gd.left[d]
      BY <1>1, <3>1, Resetting
    <3>3. QED BY <3>2 DEF k
  <2>2. CASE ~(c >= 0)
    <3>1. g = t.gd /\ \A d \in 1..MaxCol : d # c + 1
      BY <1>1, <2>2
    <3>2. QED BY <1>1, <3>1
  <2>3. QED BY <2>1, <2>2
<1>3. \A d \in 1..MaxCol : d > t.gd.allocated => t.gd.left[d] = -1
  BY DEF ColumnsOK
<1> HIDE DEF g
<1>4. \A d \in 1..MaxCol : g.left[d] = IF d = c + 1 THEN -1 ELSE t.gd.left[d]
  BY <1>1, <1>2, <1>3 DEF GDatas
<1>5. CASE c = t.col
  <2>1. SetCurrentCol(t, c) = t /\ t = [t EXCEPT !.col = c, !.gd = t.gd]
    BY <1>1, <1>5 DEF SetCurrentCol, Cursors
  <2>2. QED BY <1>5, <2>1
<1>6. CASE c # t.col
  <2>1. SetCurrentCol(t, c) = [t EXCEPT !.col = c, !.gd = g]
    BY <1>6 DEF SetCurrentCol, g
  <2>2. [t EXCEPT !.col = c, !.gd = g] \in Cursors
    BY <1>1, <1>2 DEF Cursors
  <2>3. [t EXCEPT !.col = c, !.gd = g].gd = g
         /\ [t EXCEPT !.col = c, !.gd = g].ard = t.ard
    BY <1>1 DEF Cursors
  <2>4. \A d \in 1..MaxCol : d > g.allocated => g.left[d] = -1
    BY <1>2, <1>3, <1>4
  <2>5. ColumnsOK([t EXCEPT !.col = c, !.gd = g])
    BY <2>3, <2>4 DEF ColumnsOK
  <2>6. QED BY <1>2, <1>4, <1>6, <2>1, <2>2, <2>3, <2>5
<1>7. QED BY <1>5, <1>6

LEMMA Extending ==
  ASSUME NEW g \in GDatas, NEW n \in 0..MaxCol, NEW shrink \in BOOLEAN,
         \A d \in 1..MaxCol : d > g.allocated => g.left[d] = -1
  PROVE  LET h == ExtendGetDataInfo(g, n, shrink)
         IN /\ h \in GDatas
            /\ h.allocated >= n /\ (shrink => h.allocated = n)
            /\ \A d \in 1..MaxCol : h.left[d] = IF d <= h.allocated THEN g.left[d] ELSE -1
<1>1. MaxCol \in Nat /\ g.allocated \in 0..MaxCol /\ g.left \in Lefts
  BY SizesAssumption DEF GDatas
<1>2. CASE g.allocated < n \/ (shrink /\ g.allocated > n)
  <2> DEFINE left == [c \in 1..MaxCol |-> Pick(c <= Min2(n, g.allocated), g.left[c], -1)]
  <2>1. ExtendGetDataInfo(g, n, shrink) = [allocated |-> n, left |-> left]
    BY <1>2 DEF ExtendGetDataInfo
  <2>2. left \in Lefts /\ \A d \in 1..MaxCol : left[d] = IF d <= n THEN g.left[d] ELSE -1
    BY <1>1 DEF Lefts, Pick, Min2
  <2> HIDE DEF left
  <2>3. QED BY <2>1, <2>2 DEF GDatas
<1>3. CASE ~(g.allocated < n \/ (shrink /\ g.allocated > n))
  BY <1>1, <1>3 DEF ExtendGetDataInfo
<1>4. QED BY <1>2, <1>3

LEMMA Recycling ==
  ASSUME NEW t, Sound(t)
  PROVE  LET u == Recycle(t)
         IN Sound(u) /\ ~HasResult(u) /\ u.status # "FINISHED" /\ u.lfc = 0
<1>1. CASE t.status = "ALLOCATED"
  <2>1. ~HasResult(t) /\ t.lfc = 0
    BY <1>1 DEF Sound, ResultOK, BaseOK, HasResult, NoResult, Cursors
  <2>2. QED BY <1>1, <2>1, Clearing DEF Recycle, ClearError, SetError, HasResult, Sound, Cursors
<1>2. CASE t.status # "ALLOCATED"
  <2> DEFINE before == -1
             zero == 0
             a == [t EXCEPT !.res = NoResult, !.status = "READY", !.curr = before]
             b == SetRowsetStart(a, before, FALSE)
             u == SetCurrentCol(b, -1)
             o == [u.opt EXCEPT !.cursor = t.orig.cursor, !.maxRows = t.orig.maxRows]
             w == [u EXCEPT !.bindRow = zero, !.lfc = zero]
             v == [w EXCEPT !.err = "NONE", !.opt = o]
  <2>1. t \in Cursors /\ ColumnsOK(t) /\ before \in Int /\ zero \in Nat /\ zero \in Int
    BY DEF Sound
  <2> HIDE DEF before, zero
  <2>2. a \in Cursors /\ a.status = "READY" /\ a.res = NoResult /\ a.ard = t.ard /\ a.gd = t.gd
    BY <2>1, CursorNames DEF Cursors
  <2> HIDE DEF a
  <2>3. b \in Cursors /\ ColumnsOK(b) /\ b.status = "READY" /\ b.res = NoResult
    <3>1. b \in Cursors /\ b = [a EXCEPT !.start = before, !.res = b.res] /\ b.res = a.res
      BY <2>1, <2>2, Starting DEF HasResult
    <3>2. b.status = a.status /\ b.ard = a.ard /\ b.gd = a.gd
      BY <2>2, <3>1 DEF Cursors
    <3>3. QED BY <2>1, <2>2, <3>1, <3>2 DEF ColumnsOK
  <2> HIDE DEF b
  <2>4. u \in Cursors /\ ColumnsOK(u) /\ u.status = "READY" /\ u.res = NoResult
    <3>1. u \in Cursors /\ ColumnsOK(u) /\ u = [b EXCEPT !.col = -1, !.gd = u.gd]
      BY <2>3, Columns
    <3>2. QED BY <2>3, <3>1 DEF Cursors
  <2>5. Recycle(t) = v
    BY <1>2, <2>4 DEF Recycle, before, zero, a, b, Cursors, Options
  <2> HIDE DEF u
  <2>6. o \in Options
    BY <2>1, <2>4 DEF Cursors, Options
  <2> HIDE DEF o
  <2>7. w \in Cursors /\ w.status = "READY" /\ w.res = NoResult /\ w.lfc = zero
        /\ w.ard = u.ard /\ w.gd = u.gd
    BY <2>1, <2>4 DEF Cursors
  <2> HIDE DEF w
  <2>8. v \in Cursors /\ v.status = "READY" /\ v.res = NoResult /\ v.lfc = zero
        /\ v.ard = u.ard /\ v.gd = u.gd
    BY <2>6, <2>7, CursorNames DEF Cursors
  <2> HIDE DEF v
  <2>9. ColumnsOK(v)
    BY <2>4, <2>8 DEF ColumnsOK
  <2>10. ResultOK(v)
    <3>1. v.ard.allocated \in Nat /\ NoResult.cols = -1
      BY <2>8 DEF Cursors, ARDs, NoResult
    <3>2. QED BY <2>8, <3>1 DEF ResultOK, HasResult
  <2>11. BaseOK(v) /\ ~HasResult(v) /\ v.lfc = 0
    BY <2>8 DEF BaseOK, HasResult, zero
  <2>12. QED BY <2>5, <2>8, <2>9, <2>10, <2>11 DEF Sound
<1>3. QED BY <1>1, <1>2

\* what soundness looks at
LEMMA Alike ==
  ASSUME NEW t, Sound(t), NEW u \in Cursors,
         u.res = t.res, u.status = t.status, u.lfc = t.lfc, u.curr = t.curr, u.start = t.start,
         u.ard.allocated >= t.ard.allocated, u.ard.bound \subseteq 1..u.ard.allocated,
         \A c \in 1..MaxCol : c > u.gd.allocated => u.gd.left[c] = -1
  PROVE  Sound(u)
<1>1. t \in Cursors /\ t.res.cols \in Int /\ t.ard.allocated \in Int /\ u.ard.allocated \in Int
  <2>1. t \in Cursors /\ MaxCol \in Nat
    BY SizesAssumption DEF Sound
  <2>2. \A v \in Cursors : v.res \in Cached /\ v.ard \in ARDs
    BY DEF Cursors
  <2>3. /\ \A r \in Cached : r.cols \in {-1} \cup 0..MaxCol
        /\ \A d \in ARDs : d.allocated \in 0..MaxCol
    BY DEF Cached, ARDs
  <2>4. QED BY <2>1, <2>2, <2>3
<1>2. HasResult(u) <=> HasResult(t)
  BY DEF HasResult
<1>3. ResultOK(t) /\ BaseOK(t)
  BY DEF Sound
<1>4. t.res.cols <= u.ard.allocated
  BY <1>1, <1>3 DEF ResultOK
<1>5. ResultOK(u)
  BY <1>2, <1>3, <1>4 DEF ResultOK
<1>6. ColumnsOK(u)
  BY DEF ColumnsOK
<1>7. BaseOK(u)
  BY <1>2, <1>3 DEF BaseOK
<1>8. QED BY <1>5, <1>6, <1>7 DEF Sound

LEMMA Widening ==
  ASSUME NEW a \in ARDs, NEW n \in 0..MaxCol
  PROVE  LET b == ExtendColumnBindings(a, n)
         IN /\ b \in ARDs
            /\ b.allocated >= a.allocated /\ b.allocated >= n
            /\ b.bound = a.bound /\ b.size = a.size /\ b.size2 = a.size2
  BY SizesAssumption DEF ARDs, ExtendColumnBindings

LEMMA Answering ==
  ASSUME NEW t, Sound(t), t.lfc = 0, NEW r \in Results
  PROVE  Sound(Answered(t, r))
<1> DEFINE before == -1
           res == NewResult(r)
           ard == ExtendColumnBindings(t.ard, r.cols)
           a == [t EXCEPT !.res = res, !.status = "FINISHED"]
           b == [a EXCEPT !.curr = before, !.ard = ard]
           c == SetRowsetStart(b, before, FALSE)
           u == SetCurrentCol(c, -1)
<1>1. t \in Cursors /\ ColumnsOK(t) /\ before \in Int /\ t.ard \in ARDs /\ r.cols \in 0..MaxCol
      /\ r = [cols |-> r.cols, rows |-> r.rows]
  <2>1. r.cols \in 0..MaxCol /\ r = [cols |-> r.cols, rows |-> r.rows]
    BY ResultsAssumption
  <2>2. QED BY <2>1 DEF Sound, Cursors
<1>2. res \in Cached /\ res # NoResult /\ res.cols = r.cols /\ res.rows = r.rows
  <2>1. res \in Cached
    BY <1>1 DEF NewResult, Cached
  <2>2. res.cols = r.cols /\ res.rows = r.rows /\ NoResult.cols = -1
    BY DEF NewResult, NoResult
  <2>3. QED BY <1>1, <2>1, <2>2, SizesAssumption
<1>3. /\ ard \in ARDs /\ ard.allocated >= t.ard.allocated /\ ard.allocated >= r.cols
      /\ ard.bound = t.ard.bound
  BY <1>1, Widening
<1>4. Answered(t, r) = u
  BY <1>1 DEF Answered, Cursors
<1> HIDE DEF before, res, ard
<1>5. a \in Cursors /\ a.res = res /\ a.status = "FINISHED" /\ a.gd = t.gd /\ a.lfc = 0
  BY <1>1, <1>2, CursorNames DEF Cursors
<1> HIDE DEF a
<1>6. /\ b \in Cursors /\ b.res = res /\ b.status = "FINISHED" /\ b.gd = t.gd /\ b.lfc = 0
      /\ b.ard = ard /\ b.curr = before
  BY <1>1, <1>3, <1>5 DEF Cursors
<1> HIDE DEF b
<1>7. /\ c \in Cursors /\ c.res.cols = r.cols /\ c.res.rows = r.rows /\ c.status = "FINISHED"
      /\ c.gd = t.gd /\ c.lfc = 0 /\ c.ard = ard /\ c.curr = before
  <2>1. /\ c \in Cursors /\ c = [b EXCEPT !.start = before, !.res = c.res]
        /\ c.res.cols = b.res.cols /\ c.res.rows = b.res.rows
    BY <1>1, <1>6, Starting
  <2>2. /\ c.status = b.status /\ c.gd = b.gd /\ c.lfc = b.lfc /\ c.ard = b.ard
        /\ c.curr = b.curr
    BY <1>6, <2>1 DEF Cursors
  <2>3. QED BY <1>2, <1>6, <2>1, <2>2
<1> HIDE DEF c
<1>8. ColumnsOK(c)
  <2>1. c.ard.allocated >= t.ard.allocated /\ c.ard.allocated \in Int /\ t.ard.allocated \in Int
    BY <1>1, <1>3, <1>7 DEF ARDs
  <2>2. QED BY <1>1, <1>3, <1>7, <2>1 DEF ColumnsOK
<1>9. /\ u \in Cursors /\ ColumnsOK(u) /\ u.res = c.res /\ u.status = "FINISHED" /\ u.lfc = 0
      /\ u.ard = ard /\ u.curr = before
  <2>1. u \in Cursors /\ ColumnsOK(u) /\ u = [c EXCEPT !.col = -1, !.gd = u.gd]
    BY <1>7, <1>8, Columns
  <2>2. u.res = c.res /\ u.status = c.status /\ u.lfc = c.lfc /\ u.ard = c.ard /\ u.curr = c.curr
    BY <1>7, <2>1 DEF Cursors
  <2>3. QED BY <1>7, <2>2, <2>1
<1> HIDE DEF u
<1>10. HasResult(u)
  <2>1. u.res.cols # NoResult.cols
    BY <1>1, <1>7, <1>9, SizesAssumption DEF NoResult
  <2>2. QED BY <2>1 DEF HasResult
<1>11. ResultOK(u)
  <2>1. [cols |-> u.res.cols, rows |-> u.res.rows] \in Results
    BY <1>1, <1>7, <1>9
  <2>2. QED BY <1>3, <1>7, <1>9, <1>10, <2>1 DEF ResultOK
<1>12. BaseOK(u)
  BY <1>9 DEF BaseOK, before
<1>13. QED BY <1>4, <1>9, <1>11, <1>12 DEF Sound

-----------------------------------------------------------------------------
(* Executing, preparing, closing.                                            *)

\* a handler's answer: sound, and as it was but for the error when refused
Keeps(t, r) ==
  /\ Sound(r.s)
  /\ r.ret = "ERROR" => \E e \in Errors \ {"ROW"} : r.s = SetError(t, e)

LEMMA Refusing ==
  ASSUME NEW t, Sound(t), NEW e \in Errors, e # "ROW"
  PROVE  /\ Keeps(t, Fail(t, e)) /\ Keeps(t, Fail(ClearError(t), e))
<1>1. SetError(ClearError(t), e) = SetError(t, e)
  BY DEF Sound, Cursors, SetError, ClearError
<1>2. QED BY <1>1, Erring DEF Keeps, Fail, Done

LEMMA Succeeding ==
  ASSUME NEW t, NEW u, Sound(u), NEW code, code # "ERROR"
  PROVE  Keeps(t, Done(u, code))
  BY DEF Keeps, Done

LEMMA Initializing ==
  ASSUME NEW t, Sound(t), NEW text \in BOOLEAN, NEW type \in Types
  PROVE  /\ Sound([t EXCEPT !.text = text, !.type = type])
         /\ [t EXCEPT !.text = text, !.type = type].lfc = t.lfc
<1>1. t \in Cursors
  BY DEF Sound
<1> DEFINE u == [t EXCEPT !.text = text, !.type = type]
<1>2. /\ u \in Cursors /\ u.res = t.res /\ u.status = t.status /\ u.lfc = t.lfc /\ u.curr = t.curr
      /\ u.start = t.start /\ u.ard = t.ard /\ u.gd = t.gd
  BY <1>1 DEF Cursors
<1> HIDE DEF u
<1>3. t.ard.allocated >= t.ard.allocated
  BY <1>1 DEF Cursors, ARDs
<1>4. Sound(u)
  BY <1>2, <1>3, Alike DEF Sound, ColumnsOK
<1>5. QED BY <1>2, <1>4 DEF u

LEMMA Unfetched ==
  ASSUME NEW t, Sound(t), ~OpenCheck(t)
  PROVE  t.lfc = 0
  BY DEF OpenCheck, Sound, BaseOK, Cursors, HasResult, NoResult

LEMMA ExecutingDirect ==
  ASSUME NEW t, Sound(t), NEW r \in Results
  PROVE  Keeps(t, ExecDirect(t, r))
<1> DEFINE c == ClearError(t)
<1>1. Sound(c)
  BY Clearing
<1>2. CASE OpenCheck(c)
  BY <1>2, Refusing, CursorNames DEF ExecDirect
<1>3. CASE ~OpenCheck(c)
  <2> DEFINE a == Recycle(InitializeStmts(c))
  <2>1. Sound(InitializeStmts(c))
    BY <1>1, Initializing, CursorNames DEF InitializeStmts
  <2>2. Sound(a) /\ a.lfc = 0
    BY <2>1, Recycling
  <2>3. Sound(Answered(a, r))
    BY <2>2, Answering
  <2>4. Sound([Answered(a, r) EXCEPT !.text = TRUE, !.type = "SELECT"])
    BY <2>3, Initializing, CursorNames
  <2>5. ExecDirect(t, r) = Done([Answered(a, r) EXCEPT !.text = TRUE, !.type = "SELECT"], "SUCCESS")
    BY <1>3 DEF ExecDirect
  <2>6. QED BY <2>4, <2>5, Succeeding
<1>4. QED BY <1>2, <1>3

LEMMA Executing ==
  ASSUME NEW t, Sound(t), NEW r \in Results
  PROVE  Keeps(t, Execute(t, r))
<1> DEFINE c == ClearError(t)
<1>1. Sound(c)
  BY Clearing
<1>2. CASE OpenCheck(c)
  BY <1>2, Refusing, CursorNames DEF Execute
<1>3. CASE ~OpenCheck(c)
  BY <1>1, <1>3, Unfetched, Answering, Succeeding DEF Execute
<1>4. QED BY <1>2, <1>3

LEMMA Preparing ==
  ASSUME NEW t, Sound(t), NEW type \in StatementTypes
  PROVE  Keeps(t, Prepare(t, type))
<1> DEFINE c == ClearError(t)
           u == IF c.status = "FINISHED" THEN Recycle(c) ELSE [c EXCEPT !.status = "READY"]
           v == InitializeStmts(u)
           w == [v EXCEPT !.text = TRUE, !.type = type]
<1>1. Sound(c)
  BY Clearing
<1>2. Sound(u)
  <2>1. CASE c.status = "FINISHED"
    BY <1>1, <2>1, Recycling
  <2>2. CASE c.status # "FINISHED"
    <3>1. c \in Cursors
      BY <1>1 DEF Sound
    <3> HIDE DEF c
    <3>2. /\ u \in Cursors /\ u.res = c.res /\ u.status = "READY" /\ u.lfc = c.lfc
          /\ u.curr = c.curr /\ u.start = c.start /\ u.ard = c.ard /\ u.gd = c.gd
      BY <2>2, <3>1, CursorNames DEF Cursors
    <3> HIDE DEF u
    <3>3. QED BY <1>1, <2>2, <3>2 DEF Sound, ResultOK, ColumnsOK, BaseOK, HasResult
  <2>3. QED BY <2>1, <2>2
<1> HIDE DEF u
<1>3. Sound(v)
  BY <1>2, Initializing, CursorNames DEF InitializeStmts
<1>4. type \in Types
  BY SizesAssumption DEF Types
<1>5. Sound(w)
  BY <1>3, <1>4, Initializing
<1>6. Prepare(t, type) = Done(w, "SUCCESS")
  BY DEF Prepare, u
<1>7. QED BY <1>5, <1>6, Succeeding

LEMMA Closing ==
  ASSUME NEW t, Sound(t)
  PROVE  Keeps(t, CloseStmt(t)) /\ Keeps(t, MoreResults(t))
<1>1. Sound(Recycle(ClearError(t)))
  BY Clearing, Recycling
<1>2. QED BY <1>1 DEF Keeps, CloseStmt, MoreResults, Done

LEMMA Unbinding ==
  ASSUME NEW t, Sound(t)
  PROVE  Keeps(t, UnbindStmt(t))
<1> DEFINE c == ClearError(t)
           a == ArdUnbindCols(t.ard)
           g == GDataUnbindCols(t.gd)
           u == [c EXCEPT !.ard = a, !.gd = g]
<1>1. /\ Sound(c) /\ c \in Cursors
      /\ t \in Cursors /\ t.ard \in ARDs /\ t.gd \in GDatas /\ c.ard = t.ard
  BY Clearing DEF Sound, Cursors, ClearError, SetError
<1>2. a \in ARDs /\ a.allocated = t.ard.allocated /\ a.bound = {}
  BY <1>1 DEF ARDs, ArdUnbindCols
<1>3. g \in GDatas /\ \A d \in 1..MaxCol : g.left[d] = -1
  BY <1>1 DEF GDatas, GDataUnbindCols, Lefts, FreshCols
<1>4. UnbindStmt(t) = Done(u, "SUCCESS")
  BY DEF UnbindStmt
<1> HIDE DEF c, a, g
<1>5. /\ u \in Cursors /\ u.res = c.res /\ u.status = c.status /\ u.lfc = c.lfc
      /\ u.curr = c.curr /\ u.start = c.start /\ u.ard = a /\ u.gd = g
  BY <1>1, <1>2, <1>3 DEF Cursors
<1> HIDE DEF u
<1>6. u.ard.allocated >= c.ard.allocated
  BY <1>1, <1>2, <1>5 DEF ARDs
<1>7. Sound(u)
  BY <1>1, <1>2, <1>3, <1>5, <1>6, Alike
<1>8. QED BY <1>4, <1>7, Succeeding

LEMMA Binding ==
  ASSUME NEW t, Sound(t), NEW c \in BindCols, NEW on \in BOOLEAN
  PROVE  Keeps(t, BindCol(t, c, on))
<1> DEFINE k == ClearError(t)
           a == ExtendColumnBindings(k.ard, c)
           g == ExtendGetDataInfo(k.gd, c, FALSE)
           ard == [a EXCEPT !.bound = Pick(on, @ \cup {c}, @ \ {c})]
           gets == [g EXCEPT !.left[c] = -1]
           u == [k EXCEPT !.ard = ard, !.gd = gets]
<1>1. Sound(k) /\ k \in Cursors /\ k.ard \in ARDs /\ k.gd \in GDatas
      /\ k.ard.bound \subseteq 1..k.ard.allocated
      /\ \A d \in 1..MaxCol : d > k.gd.allocated => k.gd.left[d] = -1
  BY Clearing DEF Sound, Cursors, ColumnsOK
<1>2. c \in 1..MaxCol /\ c \in 0..MaxCol /\ MaxCol \in Nat
  BY SizesAssumption
<1>3. /\ a \in ARDs /\ a.allocated >= k.ard.allocated /\ a.allocated >= c /\ a.bound = k.ard.bound
  BY <1>1, <1>2, Widening
<1>4. /\ g \in GDatas /\ g.allocated >= c
      /\ \A d \in 1..MaxCol : g.left[d] = IF d <= g.allocated THEN k.gd.left[d] ELSE -1
  BY <1>1, <1>2, Extending
<1>5. BindCol(t, c, on) = Done(u, "SUCCESS")
  BY <1>1 DEF BindCol, Cursors
<1> HIDE DEF a, g, k
<1>6. /\ ard \in ARDs /\ ard.allocated = a.allocated /\ ard.bound \subseteq 1..ard.allocated
  BY <1>1, <1>2, <1>3 DEF ARDs, Pick
<1>7. /\ gets \in GDatas /\ gets.allocated = g.allocated
      /\ \A d \in 1..MaxCol : d > gets.allocated => gets.left[d] = -1
  BY <1>2, <1>4 DEF GDatas, Lefts
<1> HIDE DEF ard, gets
<1>8. /\ u \in Cursors /\ u.res = k.res /\ u.status = k.status /\ u.lfc = k.lfc
      /\ u.curr = k.curr /\ u.start = k.start /\ u.ard = ard /\ u.gd = gets
  BY <1>1, <1>6, <1>7 DEF Cursors
<1> HIDE DEF u
<1>9. Sound(u)
  BY <1>1, <1>3, <1>6, <1>7, <1>8, Alike
<1>10. QED BY <1>5, <1>9, Succeeding

-----------------------------------------------------------------------------
(* Positioning, reading, options: the calls that keep the rows as loaded.    *)

\* a: the interface; cols: the columns read since the rowset was loaded
Loaded(t, a, cols) ==
  /\ HasResult(t) /\ t.start >= 0 /\ t.lfc > 0
  /\ \A c \in 1..MaxCol :
       c = t.col + 1 /\ c \notin cols /\ c <= t.res.cols => t.gd.left[c] = -1
  /\ a = "odbc2" /\ t.opt.maxRows = 0 /\ t.start + t.lfc < Total(t)
     => t.lfc = Pick(t.save > 0, t.save, t.ard.size2)
  /\ a = "odbc3" => t.save <= 0

LEMMA LoadedAlike ==
  ASSUME NEW t, NEW u, NEW a, NEW cols, Loaded(t, a, cols),
         u.res = t.res, u.start = t.start, u.lfc = t.lfc, u.col = t.col,
         u.opt.maxRows = t.opt.maxRows, u.save = t.save, u.ard.size2 = t.ard.size2,
         \A c \in 1..MaxCol : u.gd.left[c] \in {t.gd.left[c], -1}
  PROVE  Loaded(u, a, cols)
<1>1. Total(u) = Total(t)
  BY DEF Total
<1>2. QED BY <1>1 DEF Loaded, HasResult

LEMMA LoadedErring ==
  ASSUME NEW t, Sound(t), NEW e \in Errors, NEW a, NEW cols, Loaded(t, a, cols)
  PROVE  Loaded(SetError(t, e), a, cols)
<1> DEFINE u == SetError(t, e)
<1>1. /\ u.res = t.res /\ u.start = t.start /\ u.lfc = t.lfc /\ u.col = t.col
      /\ u.opt = t.opt /\ u.save = t.save /\ u.ard = t.ard /\ u.gd = t.gd
  BY DEF Sound, Cursors, SetError
<1> HIDE DEF u
<1>2. QED BY <1>1, LoadedAlike DEF u

LEMMA LoadedUnbinding ==
  ASSUME NEW t, Sound(t), NEW a, NEW cols, Loaded(t, a, cols)
  PROVE  Loaded(UnbindStmt(t).s, a, {})
<1> DEFINE u == UnbindStmt(t).s
<1>1. t \in Cursors /\ t.ard \in ARDs /\ t.gd \in GDatas
  BY DEF Sound, Cursors
<1>2. /\ u.res = t.res /\ u.start = t.start /\ u.lfc = t.lfc /\ u.col = t.col /\ u.opt = t.opt
      /\ u.save = t.save /\ u.ard = ArdUnbindCols(t.ard) /\ u.gd = GDataUnbindCols(t.gd)
  BY <1>1 DEF UnbindStmt, Done, ClearError, SetError, Cursors
<1>3. u.ard.size2 = t.ard.size2 /\ \A c \in 1..MaxCol : u.gd.left[c] = -1
  BY <1>1, <1>2 DEF ARDs, GDatas, ArdUnbindCols, GDataUnbindCols, FreshCols
<1> HIDE DEF u
<1>4. Total(u) = Total(t)
  BY <1>2 DEF Total
<1>5. QED BY <1>2, <1>3, <1>4 DEF Loaded, HasResult, u

LEMMA LoadedBinding ==
  ASSUME NEW t, Sound(t), NEW c \in BindCols, NEW on \in BOOLEAN,
         NEW a, NEW cols, Loaded(t, a, cols)
  PROVE  Loaded(BindCol(t, c, on).s, a, cols)
<1> DEFINE u == BindCol(t, c, on).s
           b == ExtendColumnBindings(t.ard, c)
           ard == [b EXCEPT !.bound = Pick(on, @ \cup {c}, @ \ {c})]
           g == ExtendGetDataInfo(t.gd, c, FALSE)
           gets == [g EXCEPT !.left[c] = -1]
<1>1. t \in Cursors /\ t.ard \in ARDs /\ t.gd \in GDatas /\ c \in 1..MaxCol /\ c \in 0..MaxCol
      /\ \A d \in 1..MaxCol : d > t.gd.allocated => t.gd.left[d] = -1
  BY SizesAssumption DEF Sound, Cursors, ColumnsOK
<1>2. /\ u.res = t.res /\ u.start = t.start /\ u.lfc = t.lfc /\ u.col = t.col /\ u.opt = t.opt
      /\ u.save = t.save /\ u.ard = ard /\ u.gd = gets
  BY <1>1 DEF BindCol, Done, ClearError, SetError, Cursors
<1> HIDE DEF u
<1>3. b \in ARDs /\ b.size2 = t.ard.size2
  BY <1>1, Widening
<1>4. g \in GDatas /\ \A d \in 1..MaxCol : g.left[d] \in {t.gd.left[d], -1}
  <2>1. /\ g \in GDatas
        /\ \A d \in 1..MaxCol : g.left[d] = IF d <= g.allocated THEN t.gd.left[d] ELSE -1
    BY <1>1, Extending
  <2>2. QED BY <2>1
<1> HIDE DEF b, g
<1>5. ard.size2 = t.ard.size2
  BY <1>3 DEF ARDs
<1>6. \A d \in 1..MaxCol : gets.left[d] \in {t.gd.left[d], -1}
  BY <1>4 DEF GDatas, Lefts
<1>7. \A d \in 1..MaxCol : u.gd.left[d] \in {t.gd.left[d], -1}
  BY <1>2, <1>6
<1>8. Loaded(u, a, cols)
  BY <1>2, <1>5, <1>7, LoadedAlike
<1>9. QED BY <1>8 DEF u

LEMMA Positioning ==
  ASSUME NEW t, Sound(t), NEW irow \in 0..3
  PROVE  /\ Keeps(t, SetPos(t, irow))
         /\ \A a, cols : Loaded(t, a, cols) /\ SetPos(t, irow).ret # "ERROR"
                         => Loaded(SetPos(t, irow).s, a, {})
<1> DEFINE c == ClearError(t)
           gets == [c.gd EXCEPT !.left =
                    [d \in 1..MaxCol |-> Pick(d <= c.gd.allocated, -1, c.gd.left[d])]]
           reset == [c EXCEPT !.gd = gets]
           g == RowIdx2GIdx(c, irow - 1)
           moved == [reset EXCEPT !.curr = g]
           Reaches == \A i \in 0..(irow - 1) : RowIdx2GIdx(c, i) < Total(c)
<1>1. /\ Sound(c) /\ c \in Cursors /\ c.gd \in GDatas
      /\ \A d \in 1..MaxCol : d > c.gd.allocated => c.gd.left[d] = -1
  BY Clearing DEF Sound, Cursors, ColumnsOK
<1>2. /\ c.res = t.res /\ c.start = t.start /\ c.lfc = t.lfc /\ c.col = t.col /\ c.opt = t.opt
      /\ c.save = t.save /\ c.ard = t.ard
  BY DEF Sound, Cursors, ClearError, SetError
<1>3. reset = [c EXCEPT !.gd.left =
                  [d \in 1..MaxCol |-> Pick(d <= c.gd.allocated, -1, c.gd.left[d])]]
  BY <1>1 DEF Cursors, GDatas
<1>4. SetPos(t, irow) =
        IF ~HasResult(c) \/ irow = 0 \/ irow > c.lfc THEN Fail(c, "OTHER")
        ELSE Done(IF Reaches THEN moved ELSE reset, "SUCCESS")
  BY <1>3 DEF SetPos
<1> HIDE DEF c
<1>5. gets \in GDatas /\ \A d \in 1..MaxCol : gets.left[d] = -1
  BY <1>1 DEF GDatas, Lefts, Pick
<1> HIDE DEF gets
<1>6. CASE ~HasResult(c) \/ irow = 0 \/ irow > c.lfc
  <2>1. SetPos(t, irow) = Fail(c, "OTHER")
    BY <1>4, <1>6
  <2>2. Keeps(t, SetPos(t, irow))
    BY <2>1, Refusing, CursorNames DEF c
  <2>3. QED BY <2>1, <2>2 DEF Fail, Done
<1>7. CASE ~(~HasResult(c) \/ irow = 0 \/ irow > c.lfc)
  <2>1. c.lfc > 0 /\ HasResult(c)
    BY <1>1, <1>7 DEF Cursors
  <2>2. g \in Int
    BY <1>1 DEF RowIdx2GIdx, Cursors
  <2> HIDE DEF g
  <2>3. \A u \in {moved, reset} :
           /\ u \in Cursors /\ u.res = c.res /\ u.status = c.status /\ u.lfc = c.lfc
           /\ u.start = c.start /\ u.ard = c.ard /\ u.gd = gets /\ u.col = c.col
           /\ u.opt = c.opt /\ u.save = c.save
    BY <1>1, <1>5, <2>2 DEF Cursors
  <2> HIDE DEF moved, reset
  <2>4. ASSUME NEW u \in {moved, reset} PROVE Sound(u)
    <3>1. BaseOK(u)
      BY <1>1, <2>1, <2>3 DEF Sound, BaseOK, HasResult
    <3>2. QED BY <1>1, <1>5, <2>3, <3>1 DEF Sound, ResultOK, ColumnsOK, HasResult
  <2>5. ASSUME NEW u \in {moved, reset}, NEW a, NEW cols, Loaded(t, a, cols)
        PROVE  Loaded(u, a, {})
    <3>1. Total(u) = Total(t)
      BY <1>2, <2>3 DEF Total
    <3>2. QED BY <1>2, <1>5, <2>3, <2>5, <3>1 DEF Loaded, HasResult
  <2>6. SetPos(t, irow).s \in {moved, reset} /\ SetPos(t, irow).ret = "SUCCESS"
    BY <1>4, <1>7 DEF Done
  <2> HIDE DEF c
  <2>7. QED BY <2>4, <2>5, <2>6 DEF Keeps
<1>8. QED BY <1>6, <1>7

LEMMA Pieces ==
  ASSUME NEW cell \in Cells, NEW left \in {-2, -1, 0, 1}
  PROVE  Piece(cell, left).left \in {-2, -1, 0, 1}
  BY DEF Piece, Cells

LEMMA OnRow ==
  ASSUME NEW t, Sound(t), HasResult(t), t.curr \in 0..(Total(t) - 1)
  PROVE  GIdx2CacheIdx(t, t.curr) = t.curr
<1>1. t.res.valid /\ t.start = t.res.base /\ t.start \in Int /\ t.curr \in Int
  BY DEF Sound, BaseOK, Cursors
<1>2. QED BY <1>1 DEF GIdx2CacheIdx, Pick

LEMMA Getting ==
  ASSUME NEW t, Sound(t), NEW c \in 1..MaxCol
  PROVE  LET r == GetData(t, c)
         IN \/ r.row = -1 /\ r.s = SetError(t, "OTHER")
            \/ /\ Sound(r.s) /\ HasResult(t)
               /\ r.row = t.curr /\ t.curr \in 0..(Total(t) - 1) /\ c <= t.res.cols
               /\ t.col # c - 1 \/ t.gd.left[c] = -1
                  => r.ret = Piece(t.res.rows[t.curr + 1][c], -1).ret
               /\ \A a, cols : Loaded(t, a, cols) => Loaded(r.s, a, {c})
<1> DEFINE k == ClearError(t)
           u == SetCurrentCol(k, c - 1)
           g == ExtendGetDataInfo(u.gd, u.ard.allocated, TRUE)
           index == GIdx2CacheIdx(k, k.curr)
           p == Piece(k.res.rows[index + 1][c], g.left[c])
           gets == [g EXCEPT !.left[c] = p.left]
           err == Pick(p.ret \in {"INFO", "ERROR"}, "OTHER", u.err)
           after == [u EXCEPT !.gd = gets, !.err = err]
           refused == k.status # "FINISHED" \/ c > k.res.cols \/ k.curr < 0 \/ k.curr >= Total(k)
<1>1. Sound(k) /\ k \in Cursors /\ ColumnsOK(k)
  BY Clearing DEF Sound
<1>2. /\ k.res = t.res /\ k.start = t.start /\ k.lfc = t.lfc /\ k.col = t.col /\ k.opt = t.opt
      /\ k.save = t.save /\ k.ard = t.ard /\ k.gd = t.gd /\ k.curr = t.curr
      /\ k.status = t.status /\ Total(k) = Total(t)
      /\ SetError(k, "OTHER") = SetError(t, "OTHER")
  BY DEF Sound, Cursors, ClearError, SetError, Total
<1>3. CASE refused
  <2>1. GetData(t, c).row = -1 /\ GetData(t, c).s = SetError(k, "OTHER")
    BY <1>3 DEF GetData
  <2>2. QED BY <1>2, <2>1
<1>4. CASE ~refused
  <2>1. GetData(t, c) = [s |-> after, ret |-> p.ret, row |-> index]
    BY <1>4 DEF GetData
  <2>2. /\ HasResult(k) /\ k.curr \in 0..(Total(k) - 1) /\ c <= k.res.cols /\ c \in 1..k.res.cols
    <3>1. Total(k) \in Nat /\ k.res.cols \in Int /\ k.curr \in Int /\ c \in Int
      BY <1>1, Totals, SizesAssumption DEF Sound, Cursors, Cached
    <3>2. QED BY <1>1, <1>4, <3>1 DEF Sound, ResultOK
  <2>3. index = k.curr
    BY <1>1, <2>2, OnRow
  <2>4. k.res.rows[index + 1][c] \in Cells
    BY <1>1, <2>2, <2>3, Totals DEF Sound
  <2>5. /\ u \in Cursors /\ ColumnsOK(u) /\ u = [k EXCEPT !.col = c - 1, !.gd = u.gd]
        /\ \A d \in 1..MaxCol : u.gd.left[d] = IF c - 1 # k.col /\ d = c THEN -1
                                               ELSE k.gd.left[d]
    <3> DEFINE e == c - 1
    <3>1. e \in {-1} \cup 0..(MaxCol - 1) /\ \A d \in 1..MaxCol : d = e + 1 <=> d = c
      BY SizesAssumption
    <3> HIDE DEF e
    <3>2. LET w == SetCurrentCol(k, e)
          IN /\ w \in Cursors /\ ColumnsOK(w) /\ w = [k EXCEPT !.col = e, !.gd = w.gd]
             /\ \A d \in 1..MaxCol : w.gd.left[d] = IF e # k.col /\ d = e + 1 THEN -1
                                                    ELSE k.gd.left[d]
      BY <1>1, <3>1, Columns
    <3>3. QED BY <3>1, <3>2 DEF e
  <2>6. /\ u.res = k.res /\ u.status = k.status /\ u.lfc = k.lfc /\ u.curr = k.curr
        /\ u.start = k.start /\ u.ard = k.ard /\ u.opt = k.opt /\ u.save = k.save
        /\ u.col = c - 1 /\ u.gd \in GDatas /\ u.ard \in ARDs /\ u.err \in Errors
    BY <1>1, <2>5 DEF Cursors
  <2> HIDE DEF k, u, index
  <2>7. /\ g \in GDatas /\ g.allocated = u.ard.allocated /\ g.allocated \in 0..MaxCol
        /\ \A d \in 1..MaxCol : g.left[d] = IF d <= g.allocated THEN u.gd.left[d] ELSE -1
    <3>1. u.ard.allocated \in 0..MaxCol
      BY <2>6 DEF ARDs
    <3>2. \A d \in 1..MaxCol : d > u.gd.allocated => u.gd.left[d] = -1
      BY <2>5 DEF ColumnsOK
    <3> DEFINE n == u.ard.allocated
               shrink == TRUE
               before == u.gd
    <3>3. n \in 0..MaxCol /\ shrink \in BOOLEAN /\ shrink /\ before \in GDatas
          /\ \A d \in 1..MaxCol : d > before.allocated => before.left[d] = -1
      BY <2>6, <3>1, <3>2
    <3>4. g = ExtendGetDataInfo(before, n, shrink)
      OBVIOUS
    <3> HIDE DEF n, shrink, g, before
    <3> DEFINE h == ExtendGetDataInfo(before, n, shrink)
    <3>7. /\ h \in GDatas /\ h.allocated >= n /\ (shrink => h.allocated = n)
          /\ \A d \in 1..MaxCol : h.left[d] = IF d <= h.allocated THEN before.left[d] ELSE -1
      BY <3>3, Extending
    <3>8. g = h
      BY <3>4
    <3> HIDE DEF h
    <3>5. /\ g \in GDatas /\ g.allocated >= n /\ (shrink => g.allocated = n)
          /\ \A d \in 1..MaxCol : g.left[d] = IF d <= g.allocated THEN before.left[d] ELSE -1
      BY <3>7, <3>8
    <3>6. QED BY <3>3, <3>5 DEF n, before
  <2> HIDE DEF g, refused
  <2>8. c <= g.allocated
    <3>1. k.res.cols <= g.allocated
      BY <1>1, <2>6, <2>7 DEF Sound, ResultOK
    <3>2. k.res.cols \in Int
      BY <1>1, SizesAssumption DEF Cursors, Cached
    <3>3. c <= k.res.cols /\ c \in Int /\ g.allocated \in Int
      BY <2>2, <2>7, SizesAssumption
    <3>4. QED BY <3>1, <3>2, <3>3
  <2>9. g.left[c] \in {-2, -1, 0, 1}
    BY <2>7 DEF GDatas, Lefts
  <2>10. p.left \in {-2, -1, 0, 1}
    BY <2>4, <2>9, Pieces
  <2>11. err \in Errors
    BY <2>6, CursorNames DEF Pick
  <2>12. k.col # c - 1 \/ k.gd.left[c] = -1 => p = Piece(k.res.rows[k.curr + 1][c], -1)
    <3>1. ASSUME k.col # c - 1 \/ k.gd.left[c] = -1 PROVE g.left[c] = -1
      BY <2>5, <2>7, <2>8, <3>1
    <3>2. QED BY <2>3, <3>1
  <2>13. GetData(t, c).ret = p.ret /\ GetData(t, c).row = k.curr /\ GetData(t, c).s = after
    BY <2>1, <2>3
  <2> HIDE DEF p, err
  <2>14. /\ gets \in GDatas /\ gets.allocated = g.allocated
         /\ \A d \in 1..MaxCol : d > gets.allocated => gets.left[d] = -1
    <3> DEFINE left == [g.left EXCEPT ![c] = p.left]
    <3>1. left \in Lefts /\ \A d \in 1..MaxCol : d # c => left[d] = g.left[d]
      BY <2>7, <2>10 DEF GDatas, Lefts
    <3>2. gets = [g EXCEPT !.left = left]
      BY <2>7 DEF GDatas
    <3> HIDE DEF left
    <3>3. gets \in GDatas /\ gets.allocated = g.allocated /\ gets.left = left
      BY <2>7, <3>1, <3>2 DEF GDatas
    <3>4. \A d \in 1..MaxCol : d > g.allocated => d # c /\ g.left[d] = -1
      BY <2>7, <2>8
    <3>5. QED BY <3>1, <3>3, <3>4
  <2> HIDE DEF gets
  <2>15. /\ after \in Cursors /\ after.res = k.res /\ after.status = k.status /\ after.lfc = k.lfc
         /\ after.curr = k.curr /\ after.start = k.start /\ after.ard = k.ard /\ after.gd = gets
         /\ after.opt = k.opt /\ after.save = k.save /\ after.col = c - 1
    BY <2>5, <2>6, <2>11, <2>14 DEF Cursors
  <2> HIDE DEF after
  <2>16. Sound(after)
    <3>1. k.ard.bound \subseteq 1..k.ard.allocated /\ k.ard.allocated \in Int
      BY <1>1 DEF ColumnsOK, Cursors, ARDs
    <3>2. QED BY <1>1, <2>14, <2>15, <3>1, Alike
  <2>17. ASSUME NEW a, NEW cols, Loaded(t, a, cols) PROVE Loaded(after, a, {c})
    <3>1. Total(after) = Total(t)
      BY <1>2, <2>15 DEF Total
    <3>2. \A d \in 1..MaxCol : d = after.col + 1 => d \in {c}
      BY <2>15
    <3>3. QED BY <1>2, <2>15, <2>17, <3>1, <3>2 DEF Loaded, HasResult
  <2>18. QED BY <1>2, <2>2, <2>12, <2>13, <2>16, <2>17 DEF HasResult
<1>5. QED BY <1>3, <1>4

LEMMA Numbering ==
  ASSUME NEW t, Sound(t)
  PROVE  RowNumber(t).s \in {t, SetError(t, "OTHER")}
  BY DEF RowNumber

\* the calls that set an option
Setting(t, r) ==
  \/ \E v \in CursorTypes : r = SetCursorType(t, v)
  \/ \E v \in MaxRowsValues : r = SetMaxRows(t, v)
  \/ \E v \in RetrieveValues : r = SetRetrieveData(t, v)

LEMMA SettingOptions ==
  ASSUME NEW t, Sound(t), NEW r, Setting(t, r)
  PROVE  /\ Sound(r.s)
         /\ \A a, cols : Loaded(t, a, cols) => Loaded(r.s, a, cols)
<1>1. t \in Cursors /\ t.opt \in Options /\ t.orig \in Options /\ t.ard \in ARDs
  BY DEF Sound, Cursors
<1>2. ASSUME NEW opt \in Options, NEW orig \in Options,
             HasResult(t) => opt.maxRows = t.opt.maxRows
      PROVE  LET u == [t EXCEPT !.opt = opt, !.orig = orig]
             IN /\ Sound(u)
                /\ \A a, cols : Loaded(t, a, cols) => Loaded(u, a, cols)
  <2> DEFINE u == [t EXCEPT !.opt = opt, !.orig = orig]
  <2>1. /\ u \in Cursors /\ u.res = t.res /\ u.status = t.status /\ u.lfc = t.lfc
        /\ u.curr = t.curr /\ u.start = t.start /\ u.ard = t.ard /\ u.gd = t.gd
        /\ u.opt = opt /\ u.save = t.save /\ u.col = t.col
    BY <1>1 DEF Cursors
  <2> HIDE DEF u
  <2>2. t.ard.bound \subseteq 1..t.ard.allocated /\ t.ard.allocated \in Int
        /\ \A c \in 1..MaxCol : c > t.gd.allocated => t.gd.left[c] = -1
    BY <1>1 DEF Sound, ColumnsOK, ARDs
  <2>3. Sound(u)
    BY <2>1, <2>2, Alike
  <2>4. ASSUME NEW a, NEW cols, Loaded(t, a, cols) PROVE Loaded(u, a, cols)
    <3>1. HasResult(t)
      BY <2>4 DEF Loaded
    <3>2. QED BY <1>2, <2>1, <2>4, <3>1, LoadedAlike
  <2>5. QED BY <2>3, <2>4 DEF u
<1>3. ASSUME NEW v \in CursorTypes, r = SetCursorType(t, v) PROVE
         /\ Sound(r.s)
         /\ \A a, cols : Loaded(t, a, cols) => Loaded(r.s, a, cols)
  <2>1. CASE HasResult(t)
    <3>1. r.s = SetError(t, "OTHER")
      BY <1>3, <2>1 DEF SetCursorType, Fail, Done
    <3>2. QED BY <3>1, Erring, LoadedErring, CursorNames
  <2>2. CASE ~HasResult(t)
    <3> DEFINE opt == [t.opt EXCEPT !.cursor = v]
               orig == [t.orig EXCEPT !.cursor = v]
    <3>1. opt \in Options /\ orig \in Options /\ opt.maxRows = t.opt.maxRows
      BY <1>1 DEF Options
    <3>2. r.s = [t EXCEPT !.opt = opt, !.orig = orig]
      BY <1>1, <1>3, <2>2 DEF SetCursorType, Done, Cursors
    <3> HIDE DEF opt, orig
    <3> DEFINE u == [t EXCEPT !.opt = opt, !.orig = orig]
    <3>3. Sound(u) /\ \A a, cols : Loaded(t, a, cols) => Loaded(u, a, cols)
      BY <1>2, <3>1
    <3> HIDE DEF u
    <3>4. r.s = u
      BY <3>2 DEF u
    <3>5. QED BY <3>3, <3>4
  <2>3. QED BY <2>1, <2>2
<1>4. ASSUME NEW v \in MaxRowsValues, r = SetMaxRows(t, v) PROVE
         /\ Sound(r.s)
         /\ \A a, cols : Loaded(t, a, cols) => Loaded(r.s, a, cols)
  <2> DEFINE opt == [t.opt EXCEPT !.maxRows = Pick(HasResult(t), @, v)]
             orig == [t.orig EXCEPT !.maxRows = v]
             u == [t EXCEPT !.opt = opt, !.orig = orig]
  <2>1. v \in Nat
    BY SizesAssumption
  <2>2. opt \in Options /\ orig \in Options /\ (HasResult(t) => opt.maxRows = t.opt.maxRows)
    BY <1>1, <2>1 DEF Options, Pick
  <2>3. r.s = u \/ r.s = SetError(u, "OTHER")
    <3>1. u = [t EXCEPT !.orig.maxRows = v, !.opt.maxRows = Pick(HasResult(t), @, v)]
      BY <1>1 DEF Cursors
    <3> HIDE DEF u
    <3>2. QED BY <1>4, <3>1 DEF SetMaxRows, Done
  <2> HIDE DEF opt, orig
  <2>4. Sound(u) /\ \A a, cols : Loaded(t, a, cols) => Loaded(u, a, cols)
    BY <1>2, <2>2
  <2> HIDE DEF u
  <2>5. QED BY <2>3, <2>4, Erring, LoadedErring, CursorNames
<1>5. ASSUME NEW v \in RetrieveValues, r = SetRetrieveData(t, v) PROVE
         /\ Sound(r.s)
         /\ \A a, cols : Loaded(t, a, cols) => Loaded(r.s, a, cols)
  <2> DEFINE opt == [t.opt EXCEPT !.retrieve = v]
             orig == t.orig
  <2>1. opt \in Options /\ orig \in Options /\ opt.maxRows = t.opt.maxRows
    BY <1>1, SizesAssumption DEF Options
  <2>2. r.s = [t EXCEPT !.opt = opt, !.orig = orig]
    BY <1>1, <1>5 DEF SetRetrieveData, Done, Cursors
  <2> HIDE DEF opt, orig
  <2> DEFINE u == [t EXCEPT !.opt = opt, !.orig = orig]
  <2>3. Sound(u) /\ \A a, cols : Loaded(t, a, cols) => Loaded(u, a, cols)
    BY <1>2, <2>1
  <2> HIDE DEF u
  <2>4. r.s = u
    BY <2>2 DEF u
  <2>5. QED BY <2>3, <2>4
<1>6. QED BY <1>3, <1>4, <1>5 DEF Setting

LEMMA Resizing ==
  ASSUME NEW t, Sound(t), NEW v \in RowsetSizes
  PROVE  /\ Sound(SetRowsetSize(t, v).s) /\ Sound(SetRowArraySize(t, v).s)
         /\ \A cols : Loaded(t, "odbc2", cols) => Loaded(SetRowsetSize(t, v).s, "odbc2", cols)
         /\ \A cols : Loaded(t, "odbc3", cols) => Loaded(SetRowArraySize(t, v).s, "odbc3", cols)
<1>1. /\ t \in Cursors /\ t.ard \in ARDs /\ v \in Nat \ {0} /\ t.save \in Int
      /\ t.ard.bound \subseteq 1..t.ard.allocated
      /\ \A c \in 1..MaxCol : c > t.gd.allocated => t.gd.left[c] = -1
  BY SizesAssumption DEF Sound, Cursors, ColumnsOK
<1>2. ASSUME NEW ard \in ARDs, ard.allocated = t.ard.allocated, ard.bound = t.ard.bound,
             NEW save \in Int
      PROVE  LET u == [t EXCEPT !.save = save, !.ard = ard]
             IN /\ Sound(u) /\ u.res = t.res /\ u.lfc = t.lfc
                /\ u.start = t.start /\ u.ard = ard /\ u.gd = t.gd
                /\ u.opt = t.opt /\ u.save = save /\ u.col = t.col /\ Total(u) = Total(t)
  <2> DEFINE u == [t EXCEPT !.save = save, !.ard = ard]
  <2>1. /\ u \in Cursors /\ u.res = t.res /\ u.status = t.status /\ u.lfc = t.lfc
        /\ u.curr = t.curr /\ u.start = t.start /\ u.ard = ard /\ u.gd = t.gd
        /\ u.opt = t.opt /\ u.save = save /\ u.col = t.col
    BY <1>1 DEF Cursors
  <2> HIDE DEF u
  <2>2. ard.allocated \in Int
    BY DEF ARDs
  <2>3. Sound(u)
    BY <1>1, <1>2, <2>1, <2>2, Alike
  <2>4. QED BY <2>1, <2>3 DEF u, Total
<1> DEFINE save == Pick(t.save <= 0 /\ t.lfc > 0, t.ard.size2, t.save)
           ard2 == [t.ard EXCEPT !.size2 = v]
           ard3 == [t.ard EXCEPT !.size = v]
           u2 == [t EXCEPT !.save = save, !.ard = ard2]
           kept == t.save
           u3 == [t EXCEPT !.save = kept, !.ard = ard3]
<1>3. SetRowsetSize(t, v).s = u2 /\ SetRowArraySize(t, v).s = u3
  BY <1>1 DEF SetRowsetSize, SetRowArraySize, Done, Cursors
<1>4. /\ ard2 \in ARDs /\ ard2.allocated = t.ard.allocated /\ ard2.bound = t.ard.bound
      /\ ard2.size2 = v
      /\ ard3 \in ARDs /\ ard3.allocated = t.ard.allocated /\ ard3.bound = t.ard.bound
      /\ save \in Int /\ kept \in Int
  BY <1>1 DEF ARDs, Pick
<1> HIDE DEF ard2, ard3, kept
<1>5. /\ Sound(u2) /\ u2.res = t.res /\ u2.lfc = t.lfc /\ u2.start = t.start /\ u2.ard = ard2
      /\ u2.gd = t.gd /\ u2.opt = t.opt /\ u2.save = save /\ u2.col = t.col /\ Total(u2) = Total(t)
  BY <1>2, <1>4
<1>6. /\ Sound(u3) /\ u3.res = t.res /\ u3.lfc = t.lfc /\ u3.start = t.start /\ u3.ard = ard3
      /\ u3.gd = t.gd /\ u3.opt = t.opt /\ u3.col = t.col /\ Total(u3) = Total(t)
      /\ u3.save = kept
  BY <1>2, <1>4
<1> HIDE DEF u2, u3
<1>7. ASSUME NEW cols, Loaded(t, "odbc2", cols) PROVE Loaded(u2, "odbc2", cols)
  <2>1. t.lfc > 0 /\ save = Pick(t.save > 0, t.save, t.ard.size2) /\ save > 0
    BY <1>1, <1>7 DEF Loaded, Pick, ARDs
  <2>2. QED BY <1>5, <1>7, <2>1 DEF Loaded, HasResult, Pick
<1>8. ASSUME NEW cols, Loaded(t, "odbc3", cols) PROVE Loaded(u3, "odbc3", cols)
  BY <1>6, <1>8 DEF Loaded, HasResult, kept
<1>9. QED BY <1>3, <1>5, <1>6, <1>7, <1>8

-----------------------------------------------------------------------------
(* Fetching one row.                                                         *)

\* every bound column of the row arrives whole
Whole(t, index) == \A c \in Delivered(t, index) : t.res.rows[index + 1][c] = "short"

LEMMA RowResults ==
  ASSUME NEW t, NEW index
  PROVE  /\ RowResult(t, index) \in {"SUCCESS", "INFO", "ERROR"}
         /\ RowResult(t, index) = "SUCCESS" => Whole(t, index)
<1> DEFINE wrong == {c \in Delivered(t, index) : t.res.rows[index + 1][c] # "short"}
           last == CHOOSE c \in wrong : \A d \in wrong : d <= c
<1>1. RowResult(t, index) = IF wrong = {} THEN "SUCCESS"
                          ELSE IF t.res.rows[index + 1][last] = "long" THEN "INFO" ELSE "ERROR"
  BY DEF RowResult
<1> HIDE DEF last
<1>2. wrong = {} => Whole(t, index)
  BY DEF Whole
<1> HIDE DEF wrong
<1>3. QED BY <1>1, <1>2

\* what one row leaves as it was
SameRowset(t, u) ==
  /\ u.res = t.res /\ u.status = t.status /\ u.start = t.start /\ u.ard = t.ard
  /\ u.opt = t.opt /\ u.save = t.save

FetchedRow(t, f) ==
  /\ f.s \in Cursors /\ ColumnsOK(f.s) /\ SameRowset(t, f.s)
  /\ f.ret \in {"SUCCESS", "INFO", "ERROR", "NO_DATA"}
  /\ f.ret = "NO_DATA" =>
       /\ f.s.lfc = 0 /\ f.s.gd = t.gd
       /\ t.opt.maxRows = 0 => t.curr >= Total(t) - 1
  /\ f.ret # "NO_DATA" =>
       /\ f.s.lfc = 1 /\ f.s.curr = t.curr + 1 /\ t.curr < Total(t) - 1
       /\ t.opt.retrieve => \A c \in 1..MaxCol : c <= t.res.cols => f.s.gd.left[c] = -1
  /\ f.ret = "ERROR" => f.s.err = "ROW"
  /\ f.ret = "SUCCESS" /\ t.opt.retrieve => Whole(t, t.curr + 1)

LEMMA FetchingGData ==
  ASSUME NEW t \in Cursors, ColumnsOK(t)
  PROVE  LET g == FetchedGData(t)
         IN /\ g \in GDatas
            /\ \A c \in 1..MaxCol : c > g.allocated => g.left[c] = -1
            /\ \A c \in 1..MaxCol : c <= t.res.cols => g.left[c] = -1
<1> DEFINE n == t.ard.allocated
           shrink == TRUE
           before == t.gd
           g == ExtendGetDataInfo(before, n, shrink)
           left == [c \in 1..MaxCol |-> Pick(c <= t.res.cols, -1, g.left[c])]
<1>1. /\ n \in 0..MaxCol /\ shrink \in BOOLEAN /\ before \in GDatas
      /\ \A c \in 1..MaxCol : c > before.allocated => before.left[c] = -1
  BY DEF Cursors, ARDs, ColumnsOK
<1>2. FetchedGData(t) = [g EXCEPT !.left = left]
  BY DEF FetchedGData
<1> HIDE DEF n, shrink, before, g
<1>3. /\ g \in GDatas
      /\ \A c \in 1..MaxCol : g.left[c] = IF c <= g.allocated THEN before.left[c] ELSE -1
  BY <1>1, Extending DEF g
<1>4. g.allocated \in 0..MaxCol /\ g.left \in Lefts
  BY <1>3 DEF GDatas
<1>5. /\ left \in Lefts
      /\ \A c \in 1..MaxCol : left[c] = IF c <= t.res.cols THEN -1 ELSE g.left[c]
  BY <1>4 DEF Lefts, Pick
<1> HIDE DEF left
<1>6. /\ [g EXCEPT !.left = left] \in GDatas /\ [g EXCEPT !.left = left].left = left
      /\ [g EXCEPT !.left = left].allocated = g.allocated
  BY <1>3, <1>5 DEF GDatas
<1>7. \A c \in 1..MaxCol : c > g.allocated => g.left[c] = -1
  BY <1>3, <1>4, SizesAssumption
<1>8. QED BY <1>2, <1>5, <1>6, <1>7

LEMMA FetchingRow ==
  ASSUME NEW t \in Cursors, ColumnsOK(t), ResultOK(t)
  PROVE  FetchedRow(t, FetchRow(t))
<1> DEFINE none == 0
           one == 1
           a == [t EXCEPT !.lfc = none]
           next == t.curr + 1
           u == [a EXCEPT !.curr = next, !.lfc = one]
           gets == FetchedGData(u)
           col == Pick(Delivered(u, u.curr) # {}, -1, u.col)
           err == Pick(RowResult(u, u.curr) = "SUCCESS", u.err, "ROW")
           copied == [u EXCEPT !.gd = gets, !.col = col, !.err = err]
           past == Total(a)
           gone == [a EXCEPT !.curr = past]
<1>1. none \in Nat /\ one \in Nat /\ next \in Int /\ t.opt \in Options /\ t.curr \in Int
  BY DEF Cursors
<1>2. a.curr + 1 = next
  BY DEF Cursors
<1>3. FetchRow(t) = IF AtEnd(a) THEN Done(gone, "NO_DATA")
                    ELSE IF ~a.opt.retrieve THEN Done(u, "SUCCESS")
                    ELSE Done(copied, RowResult(u, u.curr))
  BY <1>2 DEF FetchRow
<1> HIDE DEF none, one, next
<1>4. a \in Cursors /\ SameRowset(t, a) /\ a.lfc = none /\ a.gd = t.gd /\ a.curr = t.curr
      /\ Total(a) = Total(t)
  BY <1>1 DEF Cursors, SameRowset, Total
<1> HIDE DEF a
<1>5. u \in Cursors /\ SameRowset(t, u) /\ u.lfc = one /\ u.gd = t.gd /\ u.curr = next
      /\ u.col \in Int /\ u.err \in Errors
  BY <1>1, <1>4 DEF Cursors, SameRowset
<1> HIDE DEF u
<1>6. ColumnsOK(a) /\ ColumnsOK(u)
  BY <1>4, <1>5 DEF ColumnsOK, SameRowset
<1>7. /\ gets \in GDatas
      /\ \A c \in 1..MaxCol : c > gets.allocated => gets.left[c] = -1
      /\ \A c \in 1..MaxCol : c <= u.res.cols => gets.left[c] = -1
  BY <1>5, <1>6, FetchingGData
<1> HIDE DEF gets
<1>8. Total(t) \in Nat /\ t.opt.maxRows \in Nat
  BY <1>1, Totals DEF Options
<1>9. /\ AtEnd(a) /\ t.opt.maxRows = 0 => t.curr >= Total(t) - 1
      /\ ~AtEnd(a) => t.curr < Total(t) - 1
  BY <1>1, <1>4, <1>8 DEF AtEnd, SameRowset
<1>10. CASE AtEnd(a)
  <2>1. past \in Int
    BY <1>4, <1>8
  <2> HIDE DEF past
  <2>2. /\ gone \in Cursors /\ SameRowset(a, gone) /\ gone.lfc = none /\ gone.gd = a.gd
    BY <1>4, <2>1 DEF Cursors, SameRowset
  <2> HIDE DEF gone
  <2>3. SameRowset(t, gone) /\ ColumnsOK(gone)
    BY <1>4, <1>6, <2>2 DEF SameRowset, ColumnsOK
  <2>4. FetchRow(t).s = gone /\ FetchRow(t).ret = "NO_DATA"
    BY <1>3, <1>10 DEF Done
  <2>5. QED BY <1>4, <1>9, <1>10, <2>2, <2>3, <2>4 DEF FetchedRow, none
<1>11. CASE ~AtEnd(a) /\ ~a.opt.retrieve
  <2>1. SameRowset(t, u) /\ ColumnsOK(u) /\ ~t.opt.retrieve
    BY <1>4, <1>5, <1>6, <1>11 DEF SameRowset
  <2>2. FetchRow(t).s = u /\ FetchRow(t).ret = "SUCCESS"
    BY <1>3, <1>11 DEF Done
  <2>3. QED BY <1>5, <1>9, <1>11, <2>1, <2>2 DEF FetchedRow, one, next
<1>12. CASE ~AtEnd(a) /\ a.opt.retrieve
  <2>1. /\ col \in Int /\ err \in Errors
    BY <1>5, CursorNames DEF Pick
  <2>2. RowResult(u, u.curr) = "ERROR" => err = "ROW"
    BY DEF Pick
  <2> HIDE DEF col, err
  <2>3. /\ copied \in Cursors /\ SameRowset(u, copied) /\ copied.lfc = one /\ copied.gd = gets
        /\ copied.curr = next /\ copied.err = err
    BY <1>5, <1>7, <2>1 DEF Cursors, SameRowset
  <2> HIDE DEF copied
  <2>4. SameRowset(t, copied)
    BY <1>5, <2>3 DEF SameRowset
  <2>5. ColumnsOK(copied)
    BY <1>6, <1>7, <2>3 DEF ColumnsOK, SameRowset
  <2>6. FetchRow(t).s = copied /\ FetchRow(t).ret = RowResult(u, u.curr)
    BY <1>3, <1>12 DEF Done
  <2>7. \A c \in 1..MaxCol : c <= t.res.cols => copied.gd.left[c] = -1
    <3>1. u.res = t.res /\ copied.gd = gets
      BY <1>5, <2>3 DEF SameRowset
    <3>2. QED BY <1>7, <3>1
  <2>8. /\ RowResult(u, u.curr) \in {"SUCCESS", "INFO", "ERROR"}
        /\ RowResult(u, u.curr) = "SUCCESS" => Whole(u, u.curr)
    BY RowResults
  <2>9. Whole(u, u.curr) => Whole(t, next)
    BY <1>5 DEF Whole, Delivered, SameRowset
  <2>10. QED BY <1>9, <1>12, <2>2, <2>3, <2>4, <2>5, <2>6, <2>7, <2>8, <2>9
             DEF FetchedRow, one, next
<1>13. QED BY <1>10, <1>11, <1>12

-----------------------------------------------------------------------------
(* The rows of a rowset.                                                     *)

First(t) == [s |-> t, ret |-> "SUCCESS", i |-> 0, info |-> FALSE]
Following(p, i) ==
  LET f == FetchRow([p.s EXCEPT !.bindRow = i - 1])
  IN  IF p.ret \in {"NO_DATA", "ERROR"} THEN p
      ELSE [s |-> f.s, ret |-> f.ret,
            i |-> p.i + Pick(f.ret \in {"NO_DATA", "ERROR"}, 0, 1),
            info |-> p.info \/ f.ret = "INFO"]

LEMMA LoopDefined ==
  ASSUME NEW t, NEW size \in Nat
  PROVE  RowLoop(t, size) =
         (CHOOSE step : step = [i \in 0..size |-> IF i = 0 THEN First(t)
                                                  ELSE Following(step[i - 1], i)])[size]
  BY DEF RowLoop, First, Following

\* every set of numbers with a member has a least one
LEMMA LeastNat ==
  ASSUME NEW T, T \subseteq Nat, T # {}
  PROVE  \E x \in T : \A y \in T : x <= y
<1> DEFINE R == OpToRel(<, Nat)
<1>1. IsWellFoundedOn(R, Nat)
  BY NatLessThanWellFounded
<1>2. \A x, y \in Nat : x < y => <<x, y>> \in R
  BY DEF OpToRel
<1> HIDE DEF R
<1>3. \E x \in T : \A y \in T : ~(<<y, x>> \in R)
  BY <1>1, WFMin
<1>4. PICK x \in T : \A y \in T : ~(<<y, x>> \in R)
  BY <1>3
<1>5. ASSUME NEW y \in T PROVE x <= y
  <2>1. x \in Nat /\ y \in Nat /\ ~(y < x)
    BY <1>2, <1>4
  <2>2. QED BY <2>1
<1>6. QED BY <1>5

\* a set that holds zero and the successor of its members up to n holds them all
LEMMA UpTo ==
  ASSUME NEW n \in Nat, NEW S, 0 \in S, \A i \in 0..(n - 1) : i \in S => i + 1 \in S
  PROVE  0..n \subseteq S
<1> DEFINE T == {i \in 0..n : i \notin S}
<1>1. SUFFICES ASSUME T # {} PROVE FALSE
  OBVIOUS
<1>2. PICK x \in T : \A y \in T : x <= y
  <2>1. T \subseteq Nat
    OBVIOUS
  <2> HIDE DEF T
  <2>2. QED BY <1>1, <2>1, LeastNat
<1>3. x \in 1..n /\ x - 1 \in 0..(n - 1) /\ x - 1 \in 0..n /\ x - 1 + 1 = x /\ ~(x <= x - 1)
  BY <1>2
<1>4. x - 1 \in S
  BY <1>2, <1>3
<1>5. QED BY <1>2, <1>3, <1>4

\* the recursion of the loop has a solution
LEMMA LoopSolved ==
  ASSUME NEW t, NEW size \in Nat
  PROVE  \E step : step = [i \in 0..size |-> IF i = 0 THEN First(t) ELSE Following(step[i - 1], i)]
<1> DEFINE Solves(f, n) == f = [i \in 0..n |-> IF i = 0 THEN First(t) ELSE Following(f[i - 1], i)]
           S == {n \in Nat : \E f : Solves(f, n)}
<1>1. 0 \in S
  <2> DEFINE f == [i \in 0..0 |-> First(t)]
  <2>1. Solves(f, 0)
    OBVIOUS
  <2>2. QED BY <2>1
<1>2. ASSUME NEW n \in 0..(size - 1), n \in S PROVE n + 1 \in S
  <2>1. PICK f : Solves(f, n)
    BY <1>2
  <2> DEFINE g == [i \in 0..(n + 1) |-> IF i <= n THEN f[i] ELSE Following(f[n], n + 1)]
  <2>2. \A i \in 0..n : g[i] = f[i]
    OBVIOUS
  <2>3. ASSUME NEW i \in 0..(n + 1)
        PROVE  g[i] = IF i = 0 THEN First(t) ELSE Following(g[i - 1], i)
    <3>1. CASE i = 0
      BY <2>1, <3>1
    <3>2. CASE i \in 1..n
      <4>1. g[i] = f[i] /\ g[i - 1] = f[i - 1] /\ i # 0 /\ i \in 0..n
        BY <2>2, <3>2
      <4>2. f[i] = Following(f[i - 1], i)
        BY <2>1, <4>1
      <4>3. QED BY <4>1, <4>2
    <3>3. CASE i = n + 1
      BY <2>2, <3>3
    <3>4. QED BY <3>1, <3>2, <3>3
  <2>4. Solves(g, n + 1)
    <3>1. g = [i \in 0..(n + 1) |-> g[i]]
      OBVIOUS
    <3> HIDE DEF g
    <3>2. QED BY <2>3, <3>1
  <2> HIDE DEF g, Solves
  <2>5. QED BY <2>4
<1>3. 0..size \subseteq S
  <2> HIDE DEF S
  <2>1. QED BY <1>1, <1>2, UpTo
<1>4. QED BY <1>3

\* what the loop has done after i rounds; u: the statement before it
Looped(u, p, i) ==
  /\ p.s \in Cursors /\ ColumnsOK(p.s) /\ SameRowset(u, p.s)
  /\ p.ret \in {"SUCCESS", "INFO", "ERROR", "NO_DATA"} /\ p.info \in BOOLEAN
  /\ p.i \in 0..i /\ p.i <= Total(u)
  /\ p.s.lfc > 0 => Total(u) > 0
  /\ p.ret \in {"SUCCESS", "INFO"} => p.i = i /\ p.s.curr = u.start - 1 + i
  /\ p.ret = "NO_DATA" /\ u.opt.maxRows = 0 => u.start + p.i >= Total(u)
  /\ p.ret = "ERROR" => p.s.err = "ROW"
  /\ u.opt.retrieve /\ p.i > 0 /\ p.ret # "ERROR"
     => \A c \in 1..MaxCol : c <= u.res.cols => p.s.gd.left[c] = -1
  /\ u.opt.retrieve /\ ~p.info /\ p.ret # "ERROR"
     => \A index \in u.start..(u.start + p.i - 1) : Whole(u, index)

\* ready for the loop: the cursor is before the first row of the rowset
Placed(u) ==
  /\ u \in Cursors /\ ColumnsOK(u) /\ ResultOK(u)
  /\ u.start \in Nat /\ u.curr = u.start - 1
  /\ u.lfc > 0 => Total(u) > 0

LEMMA SameTotal ==
  ASSUME NEW t, NEW u, SameRowset(t, u)
  PROVE  /\ Total(u) = Total(t) /\ (HasResult(u) <=> HasResult(t))
         /\ ResultOK(t) => ResultOK(u)
         /\ \A index : Whole(u, index) <=> Whole(t, index)
  BY DEF SameRowset, Total, HasResult, ResultOK, Whole, Delivered

LEMMA OneMore ==
  ASSUME NEW u, Placed(u), NEW i \in Nat, NEW p, Looped(u, p, i)
  PROVE  Looped(u, Following(p, i + 1), i + 1)
<1> DEFINE bind == i + 1 - 1
           t == [p.s EXCEPT !.bindRow = bind]
           f == FetchRow(t)
           q == Following(p, i + 1)
<1>1. CASE p.ret \in {"NO_DATA", "ERROR"}
  <2>1. q = p
    BY <1>1 DEF Following
  <2> HIDE DEF q
  <2>2. p.i \in 0..(i + 1) /\ p.ret \notin {"SUCCESS", "INFO"}
    BY <1>1 DEF Looped
  <2>3. QED BY <2>1, <2>2 DEF Looped, q
<1>2. CASE p.ret \in {"SUCCESS", "INFO"}
  <2>1. /\ p.s \in Cursors /\ ColumnsOK(p.s) /\ SameRowset(u, p.s) /\ p.i = i
        /\ p.s.curr = u.start - 1 + i /\ p.info \in BOOLEAN /\ p.i <= Total(u)
        /\ p.ret # "ERROR" /\ bind \in Int /\ u.start \in Nat /\ Total(u) \in Nat
    BY <1>2, Totals DEF Looped, Placed
  <2>2. q = [s |-> f.s, ret |-> f.ret,
             i |-> p.i + Pick(f.ret \in {"NO_DATA", "ERROR"}, 0, 1),
             info |-> p.info \/ f.ret = "INFO"]
    BY <1>2 DEF Following
  <2> HIDE DEF bind, q
  <2>3. /\ t \in Cursors /\ SameRowset(p.s, t) /\ t.gd = p.s.gd /\ t.curr = p.s.curr
        /\ t.lfc = p.s.lfc
    BY <2>1 DEF Cursors, SameRowset
  <2> HIDE DEF t
  <2>4. ColumnsOK(t) /\ SameRowset(u, t)
    BY <2>1, <2>3 DEF ColumnsOK, SameRowset
  <2>5. ResultOK(t) /\ Total(t) = Total(u) /\ \A index : Whole(t, index) <=> Whole(u, index)
    BY <2>4, SameTotal DEF Placed
  <2>6. FetchedRow(t, f)
    BY <2>3, <2>4, <2>5, FetchingRow
  <2> HIDE DEF f
  <2>7. /\ f.s \in Cursors /\ ColumnsOK(f.s) /\ SameRowset(u, f.s)
        /\ f.ret \in {"SUCCESS", "INFO", "ERROR", "NO_DATA"}
    BY <2>4, <2>6 DEF FetchedRow, SameRowset
  <2>8. CASE f.ret = "NO_DATA"
    <3>1. q = [s |-> f.s, ret |-> "NO_DATA", i |-> i, info |-> p.info]
      BY <2>1, <2>2, <2>8 DEF Pick
    <3>2. /\ f.s.lfc = 0 /\ f.s.gd = p.s.gd
          /\ u.opt.maxRows = 0 => u.start + i >= Total(u)
      BY <2>1, <2>3, <2>4, <2>5, <2>6, <2>8 DEF FetchedRow, SameRowset
    <3>3. /\ q.s = f.s /\ q.ret = "NO_DATA" /\ q.i = i /\ q.info = p.info
      BY <3>1
    <3>4. /\ u.opt.retrieve /\ i > 0 => \A c \in 1..MaxCol : c <= u.res.cols => p.s.gd.left[c] = -1
          /\ u.opt.retrieve /\ ~p.info => \A index \in u.start..(u.start + i - 1) : Whole(u, index)
      BY <2>1 DEF Looped
    <3>5. QED BY <2>1, <2>7, <3>2, <3>3, <3>4 DEF Looped, q
  <2>9. CASE f.ret = "ERROR"
    <3>1. q = [s |-> f.s, ret |-> "ERROR", i |-> i, info |-> p.info]
      BY <2>1, <2>2, <2>9 DEF Pick
    <3>2. /\ f.s.err = "ROW" /\ Total(u) > 0
      BY <2>1, <2>3, <2>5, <2>6, <2>9 DEF FetchedRow
    <3>3. /\ q.s = f.s /\ q.ret = "ERROR" /\ q.i = i /\ q.info = p.info
      BY <3>1
    <3>4. QED BY <2>1, <2>7, <3>2, <3>3 DEF Looped, q
  <2>10. CASE f.ret \in {"SUCCESS", "INFO"}
    <3>1. q = [s |-> f.s, ret |-> f.ret, i |-> i + 1, info |-> p.info \/ f.ret = "INFO"]
      BY <2>1, <2>2, <2>10 DEF Pick
    <3>2. /\ f.s.curr = u.start - 1 + (i + 1) /\ u.start - 1 + i < Total(u) - 1
          /\ u.opt.retrieve => \A c \in 1..MaxCol : c <= u.res.cols => f.s.gd.left[c] = -1
          /\ f.ret = "SUCCESS" /\ u.opt.retrieve => Whole(u, u.start + i)
      BY <2>1, <2>3, <2>4, <2>5, <2>6, <2>10 DEF FetchedRow, SameRowset
    <3>3. /\ q.s = f.s /\ q.ret = f.ret /\ q.i = i + 1 /\ q.info = (p.info \/ f.ret = "INFO")
      BY <3>1
    <3>4. ASSUME u.opt.retrieve, ~q.info, NEW index \in u.start..(u.start + (i + 1) - 1)
          PROVE  Whole(u, index)
      <4>1. ~p.info /\ f.ret = "SUCCESS"
        BY <2>10, <3>3, <3>4
      <4>2. \A r \in u.start..(u.start + i - 1) : Whole(u, r)
        BY <2>1, <3>4, <4>1 DEF Looped
      <4>3. index = u.start + i \/ index \in u.start..(u.start + i - 1)
        BY <2>1
      <4>4. QED BY <3>2, <3>4, <4>1, <4>2, <4>3
    <3>5. i + 1 \in 0..(i + 1) /\ i + 1 <= Total(u) /\ Total(u) > 0
      BY <2>1, <3>2
    <3>6. q.info \in BOOLEAN
      BY <2>1, <3>3
    <3>7. QED BY <2>7, <2>10, <3>2, <3>3, <3>4, <3>5, <3>6 DEF Looped, q
  <2>11. QED BY <2>7, <2>8, <2>9, <2>10
<1>3. QED BY <1>1, <1>2 DEF Looped

LEMMA Looping ==
  ASSUME NEW u, Placed(u), NEW size \in Nat
  PROVE  Looped(u, RowLoop(u, size), size)
<1> DEFINE Step(f) == f = [i \in 0..size |-> IF i = 0 THEN First(u) ELSE Following(f[i - 1], i)]
           step == CHOOSE f : Step(f)
           S == {i \in 0..size : Looped(u, step[i], i)}
<1>1. Step(step)
  <2>1. \E f : Step(f)
    BY LoopSolved
  <2> HIDE DEF Step
  <2>2. QED BY <2>1
<1>2. RowLoop(u, size) = step[size]
  BY LoopDefined
<1> HIDE DEF step
<1>3. step[0] = First(u) /\ \A i \in 1..size : step[i] = Following(step[i - 1], i)
  BY <1>1
<1>4. Looped(u, First(u), 0)
  <2>1. Total(u) \in Nat /\ u.start \in Nat
    BY Totals DEF Placed
  <2>2. SameRowset(u, u)
    BY DEF SameRowset
  <2> DEFINE p == First(u)
  <2>3. p.s = u /\ p.ret = "SUCCESS" /\ p.i = 0 /\ p.info = FALSE
    BY DEF First
  <2> HIDE DEF p
  <2>4. \A index \in u.start..(u.start + p.i - 1) : Whole(u, index)
    BY <2>1, <2>3
  <2>5. u.curr = u.start - 1 + 0 /\ p.i \in 0..0 /\ p.i <= Total(u) /\ ~(p.i > 0)
    BY <2>1, <2>3 DEF Placed
  <2>6. p.s \in Cursors /\ ColumnsOK(p.s) /\ (p.s.lfc > 0 => Total(u) > 0) /\ SameRowset(u, p.s)
    BY <2>2, <2>3 DEF Placed
  <2>7. p.s.curr = u.start - 1 + 0 /\ p.info \in BOOLEAN
    BY <2>3, <2>5
  <2>8. p.ret \in {"SUCCESS", "INFO", "ERROR", "NO_DATA"} /\ p.ret # "ERROR" /\ p.ret # "NO_DATA"
    BY <2>3
  <2>9. p.i = 0
    BY <2>3
  <2>10. Looped(u, p, 0)
    BY <2>4, <2>5, <2>6, <2>7, <2>8, <2>9 DEF Looped
  <2>11. QED BY <2>10 DEF p
<1>5. 0 \in S
  BY <1>3, <1>4
<1>6. ASSUME NEW i \in 0..(size - 1), i \in S PROVE i + 1 \in S
  <2>1. i + 1 \in 1..size /\ i + 1 \in 0..size /\ i + 1 - 1 = i /\ i \in Nat
    OBVIOUS
  <2>2. Looped(u, step[i], i)
    BY <1>6
  <2>3. step[i + 1] = Following(step[i], i + 1)
    BY <1>3, <2>1
  <2>4. Looped(u, step[i + 1], i + 1)
    BY <2>1, <2>2, <2>3, OneMore
  <2>5. QED BY <2>1, <2>4
<1>7. 0..size \subseteq S
  <2> HIDE DEF S
  <2>1. QED BY <1>5, <1>6, UpTo
<1>8. QED BY <1>2, <1>7

-----------------------------------------------------------------------------
(* A rowset.                                                                 *)

\* Before the first row or behind the last.
LEMMA Leaving ==
  ASSUME NEW t, Sound(t), NEW start \in Int
  PROVE  Sound([SetRowsetStart(t, start, TRUE) EXCEPT !.curr = -1])
<1> DEFINE before == -1
           valid == TRUE
           a == SetRowsetStart(t, start, valid)
           u == [a EXCEPT !.curr = before]
<1>1. t \in Cursors /\ before \in Int /\ valid \in BOOLEAN
  BY DEF Sound
<1> HIDE DEF before, valid
<1>2. /\ a \in Cursors
      /\ a = [t EXCEPT !.start = start, !.res = a.res]
      /\ a.res.cols = t.res.cols /\ a.res.rows = t.res.rows
      /\ ~HasResult(t) => a.res = t.res
      /\ HasResult(t) => a.res.valid = valid
      /\ HasResult(t) /\ t.res.valid /\ valid => a.res.base = t.res.base + (start - t.start)
  BY <1>1, Starting
<1>3. /\ a.status = t.status /\ a.lfc = t.lfc /\ a.ard = t.ard /\ a.gd = t.gd /\ a.start = start
  BY <1>1, <1>2 DEF Cursors
<1> HIDE DEF a
<1>4. /\ u \in Cursors /\ u.res = a.res /\ u.status = t.status /\ u.lfc = t.lfc /\ u.ard = t.ard
      /\ u.gd = t.gd /\ u.start = start /\ u.curr = before
  BY <1>1, <1>2, <1>3 DEF Cursors
<1> HIDE DEF u
<1>5. HasResult(u) <=> HasResult(t)
  <2>1. CASE ~HasResult(t)
    BY <1>2, <1>4, <2>1 DEF HasResult
  <2>2. CASE HasResult(t)
    <3>1. u.res.cols # NoResult.cols
      BY <1>1, <1>2, <1>4, <2>2, Totals DEF Sound, NoResult
    <3>2. QED BY <2>2, <3>1 DEF HasResult
  <2>3. QED BY <2>1, <2>2
<1>6. ResultOK(u)
  BY <1>2, <1>4, <1>5 DEF Sound, ResultOK, HasResult
<1>7. ColumnsOK(u)
  BY <1>4 DEF Sound, ColumnsOK
<1>8. BaseOK(u)
  <2>1. u.lfc > 0 => u.res.rows # <<>>
    BY <1>2, <1>4 DEF Sound, BaseOK
  <2>2. ASSUME HasResult(u), u.lfc > 0 \/ u.curr >= 0 PROVE u.res.valid /\ u.start = u.res.base
    <3>1. t.lfc > 0 /\ HasResult(t)
      BY <1>4, <1>5, <2>2 DEF before
    <3>2. t.res.valid /\ t.start = t.res.base /\ t.start \in Int
      BY <1>1, <3>1 DEF Sound, BaseOK, Cursors
    <3>3. a.res.base = t.res.base + (start - t.start) /\ a.res.valid
      BY <1>2, <3>1, <3>2 DEF valid
    <3>4. QED BY <1>4, <3>2, <3>3
  <2>3. QED BY <2>1, <2>2 DEF BaseOK
<1>9. [SetRowsetStart(t, start, TRUE) EXCEPT !.curr = -1] = u
  BY DEF u, a, before, valid
<1>10. QED BY <1>4, <1>6, <1>7, <1>8, <1>9 DEF Sound

LEMMA Placing ==
  ASSUME NEW t, Sound(t), HasResult(t), NEW start \in Nat
  PROVE  LET a == [SetRowsetStart(t, start, TRUE) EXCEPT !.curr = start - 1]
             u == [a EXCEPT !.res.base = start]
         IN /\ Placed(u)
            /\ u.start = start /\ u.res.valid /\ u.res.base = start
            /\ u.res.cols = t.res.cols /\ u.res.rows = t.res.rows
            /\ u.status = t.status /\ u.ard = t.ard /\ u.opt = t.opt /\ u.save = t.save
<1> DEFINE before == start - 1
           valid == TRUE
           a == SetRowsetStart(t, start, valid)
           b == [a EXCEPT !.curr = before]
           res == [b.res EXCEPT !.base = start]
           u == [b EXCEPT !.res = res]
<1>1. t \in Cursors /\ before \in Int /\ valid \in BOOLEAN /\ start \in Int
  BY DEF Sound
<1> HIDE DEF valid
<1>2. /\ a \in Cursors
      /\ a = [t EXCEPT !.start = start, !.res = a.res]
      /\ a.res.cols = t.res.cols /\ a.res.rows = t.res.rows
      /\ a.res.valid = valid
  <2>1. /\ a \in Cursors
        /\ a = [t EXCEPT !.start = start, !.res = a.res]
        /\ a.res.cols = t.res.cols /\ a.res.rows = t.res.rows
        /\ ~HasResult(t) => a.res = t.res
        /\ HasResult(t) => a.res.valid = valid
        /\ HasResult(t) /\ t.res.valid /\ valid => a.res.base = t.res.base + (start - t.start)
    BY <1>1, Starting
  <2>2. QED BY <2>1
<1>3. /\ a.status = t.status /\ a.lfc = t.lfc /\ a.ard = t.ard /\ a.gd = t.gd /\ a.start = start
      /\ a.opt = t.opt /\ a.save = t.save
  BY <1>1, <1>2 DEF Cursors
<1>4. [[SetRowsetStart(t, start, TRUE) EXCEPT !.curr = start - 1] EXCEPT !.res.base = start] = u
  BY <1>2 DEF valid, Cursors, Cached
<1> HIDE DEF a, before
<1>5. /\ b \in Cursors /\ b.res = a.res /\ b.status = t.status /\ b.lfc = t.lfc /\ b.ard = t.ard
      /\ b.gd = t.gd /\ b.start = start /\ b.curr = before /\ b.opt = t.opt /\ b.save = t.save
      /\ b.res \in Cached
  BY <1>1, <1>2, <1>3 DEF Cursors
<1> HIDE DEF b
<1>6. /\ res \in Cached /\ res.cols = t.res.cols /\ res.rows = t.res.rows /\ res.valid
      /\ res.base = start
  BY <1>1, <1>2, <1>5 DEF Cached, valid
<1> HIDE DEF res
<1>7. /\ u \in Cursors /\ u.res = res /\ u.status = t.status /\ u.lfc = t.lfc /\ u.ard = t.ard
      /\ u.gd = t.gd /\ u.start = start /\ u.curr = before /\ u.opt = t.opt /\ u.save = t.save
  BY <1>5, <1>6 DEF Cursors
<1> HIDE DEF u
<1>8. HasResult(u)
  <2>1. u.res.cols # NoResult.cols
    BY <1>1, <1>6, <1>7, Totals DEF Sound, NoResult
  <2>2. QED BY <2>1 DEF HasResult
<1>9. ResultOK(u) /\ ColumnsOK(u)
  BY <1>6, <1>7, <1>8 DEF Sound, ResultOK, ColumnsOK, HasResult
<1>10. u.lfc > 0 => Total(u) > 0
  <2>1. Total(u) = Total(t) /\ Total(t) \in Nat /\ (t.res.rows = <<>> <=> Total(t) = 0)
    BY <1>1, <1>6, <1>7, Totals DEF Sound, Total
  <2>2. QED BY <1>7, <2>1 DEF Sound, BaseOK
<1>11. Placed(u)
  BY <1>7, <1>9, <1>10 DEF Placed, before
<1>12. QED BY <1>4, <1>6, <1>7, <1>11

\* what a fetched rowset promises; t: the statement before the call
FetchedRowset(t, r, start, size) ==
  /\ Sound(r.s) /\ r.s.start = start
  /\ r.ret = "ERROR" => r.s.err = "ROW"
  /\ r.ret \in {"SUCCESS", "INFO"} /\ t.opt.retrieve =>
       \A a \in {"odbc2", "odbc3"} :
         (a = "odbc2" => size = t.ard.size2) => Loaded(r.s, a, {})
  /\ r.ret = "SUCCESS" /\ t.opt.retrieve =>
       \A index \in start..(start + r.s.lfc - 1) : Whole(t, index)

LEMMA FetchingRowset ==
  ASSUME NEW t, Sound(t), HasResult(t), t.save = -1, NEW start \in Nat, NEW size \in Nat
  PROVE  FetchedRowset(t, FetchRowset(t, start, size), start, size)
<1> DEFINE a == [SetRowsetStart(t, start, TRUE) EXCEPT !.curr = start - 1]
           u == [a EXCEPT !.res.base = start]
           l == RowLoop(u, size)
           zero == 0
           clipped == t.err = "POS_BEFORE"
           r == FetchRowset(t, start, size)
           w == [l.s EXCEPT !.lfc = l.i, !.bindRow = zero]
           v == [w EXCEPT !.curr = start]
<1>1. /\ Placed(u)
      /\ u.start = start /\ u.res.valid /\ u.res.base = start
      /\ u.res.cols = t.res.cols /\ u.res.rows = t.res.rows
      /\ u.status = t.status /\ u.ard = t.ard /\ u.opt = t.opt /\ u.save = -1
  <2>1. /\ Placed(u)
        /\ u.start = start /\ u.res.valid /\ u.res.base = start
        /\ u.res.cols = t.res.cols /\ u.res.rows = t.res.rows
        /\ u.status = t.status /\ u.ard = t.ard /\ u.opt = t.opt /\ u.save = t.save
    BY Placing, Zenon
  <2> HIDE DEF u
  <2>2. QED BY <2>1
<1>2. r = IF l.ret = "ERROR" THEN Done(l.s, "ERROR")
          ELSE Done(v, IF l.i = 0 THEN "NO_DATA"
                       ELSE IF l.info \/ clipped THEN "INFO" ELSE "SUCCESS")
  BY DEF FetchRowset, Finish
<1> HIDE DEF u, r, clipped
<1>3. /\ Looped(u, l, size)
  BY <1>1, Looping
<1> HIDE DEF l
<1>4. /\ l.s \in Cursors /\ ColumnsOK(l.s) /\ SameRowset(u, l.s) /\ l.i \in Nat
      /\ ResultOK(l.s) /\ Total(l.s) = Total(u) /\ Total(u) = Total(t) /\ Total(u) \in Nat
      /\ \A index : Whole(u, index) <=> Whole(t, index)
  <2>1. l.s \in Cursors /\ ColumnsOK(l.s) /\ SameRowset(u, l.s) /\ l.i \in Nat
    BY <1>3 DEF Looped
  <2>2. Total(u) = Total(t) /\ \A index : Whole(u, index) <=> Whole(t, index)
    BY <1>1 DEF Total, Whole, Delivered
  <2>3. Total(u) \in Nat /\ ResultOK(u)
    BY <1>1, Totals DEF Placed
  <2>4. QED BY <2>1, <2>2, <2>3, SameTotal
<1>5. HasResult(l.s) /\ l.s.res.valid /\ l.s.start = start /\ l.s.res.base = start
      /\ (l.s.res.rows = <<>> <=> Total(u) = 0)
  <2>1. l.s.res.cols = t.res.cols /\ t.res.cols # NoResult.cols
    BY <1>1, <1>4, Totals DEF Sound, NoResult, SameRowset
  <2>2. HasResult(l.s)
    BY <2>1 DEF HasResult
  <2>3. QED BY <1>1, <1>4, <2>2, Totals DEF SameRowset
<1>6. CASE l.ret = "ERROR"
  <2>1. r.s = l.s /\ r.ret = "ERROR"
    BY <1>2, <1>6 DEF Done
  <2>2. l.s.err = "ROW" /\ (l.s.lfc > 0 => Total(u) > 0)
    BY <1>3, <1>6 DEF Looped
  <2>3. BaseOK(l.s)
    BY <1>4, <1>5, <2>2 DEF BaseOK
  <2>4. Sound(l.s)
    BY <1>4, <2>3 DEF Sound
  <2>5. QED BY <1>5, <2>1, <2>2, <2>4 DEF FetchedRowset, r
<1>7. CASE l.ret # "ERROR"
  <2>1. r.s = v /\ r.ret = IF l.i = 0 THEN "NO_DATA"
                           ELSE IF l.info \/ clipped THEN "INFO" ELSE "SUCCESS"
    BY <1>2, <1>7 DEF Done
  <2>2. zero \in Int /\ start \in Int
    OBVIOUS
  <2> HIDE DEF zero
  <2>3. /\ w \in Cursors /\ w.lfc = l.i /\ w.res = l.s.res
        /\ w.status = l.s.status /\ w.start = l.s.start /\ w.ard = l.s.ard /\ w.gd = l.s.gd
        /\ w.opt = l.s.opt /\ w.save = l.s.save /\ w.col = l.s.col
    BY <1>4, <2>2 DEF Cursors
  <2> HIDE DEF w
  <2>4. /\ v \in Cursors /\ v.lfc = l.i /\ v.curr = start /\ v.res = l.s.res
        /\ v.status = l.s.status /\ v.start = l.s.start /\ v.ard = l.s.ard /\ v.gd = l.s.gd
        /\ v.opt = l.s.opt /\ v.save = l.s.save /\ v.col = l.s.col
    BY <2>2, <2>3 DEF Cursors
  <2> HIDE DEF v
  <2>5. /\ v.start = start /\ v.ard = t.ard /\ v.opt = t.opt /\ v.save = -1 /\ HasResult(v)
        /\ Total(v) = Total(t) /\ v.res.cols = t.res.cols
    BY <1>1, <1>4, <1>5, <2>4 DEF SameRowset, HasResult, Total
  <2>6. Sound(v)
    <3>1. l.i > 0 => Total(u) > 0
      BY <1>3, <1>4 DEF Looped
    <3>2. BaseOK(v)
      BY <1>4, <1>5, <2>4, <3>1 DEF BaseOK
    <3>3. ResultOK(v) /\ ColumnsOK(v)
      BY <1>4, <2>4 DEF ResultOK, ColumnsOK, HasResult
    <3>4. QED BY <2>4, <3>2, <3>3 DEF Sound
  <2>7. ASSUME l.i # 0, t.opt.retrieve, NEW b \in {"odbc2", "odbc3"},
               b = "odbc2" => size = t.ard.size2
        PROVE  Loaded(v, b, {})
    <3>1. l.i > 0 /\ \A c \in 1..MaxCol : c <= u.res.cols => l.s.gd.left[c] = -1
      BY <1>1, <1>3, <1>4, <1>7, <2>7 DEF Looped
    <3>2. \A c \in 1..MaxCol : c <= v.res.cols => v.gd.left[c] = -1
      BY <1>1, <2>4, <2>5, <3>1
    <3>3. ASSUME b = "odbc2", v.opt.maxRows = 0, v.start + v.lfc < Total(v)
          PROVE  v.lfc = v.ard.size2
      <4>1. ~(start + l.i >= Total(u)) /\ u.opt.maxRows = 0
        BY <1>1, <1>4, <2>4, <2>5, <3>3
      <4>2. l.ret # "NO_DATA"
        BY <1>1, <1>3, <4>1 DEF Looped
      <4>3. l.i = size
        BY <1>3, <1>7, <4>2 DEF Looped
      <4>4. QED BY <2>4, <2>5, <2>7, <3>3, <4>3
    <3>4. v.start >= 0 /\ v.lfc > 0 /\ v.save <= 0 /\ ~(v.save > 0)
      BY <2>4, <2>5, <3>1
    <3>5. QED BY <2>5, <3>2, <3>3, <3>4 DEF Loaded, Pick
  <2>8. ASSUME r.ret = "SUCCESS", t.opt.retrieve
        PROVE  \A index \in start..(start + v.lfc - 1) : Whole(t, index)
    <3>1. ~l.info
      BY <2>1, <2>8
    <3>2. \A index \in start..(start + l.i - 1) : Whole(u, index)
      BY <1>1, <1>3, <1>7, <2>8, <3>1 DEF Looped
    <3>3. QED BY <1>4, <2>4, <3>2
  <2>9. r.ret \in {"SUCCESS", "INFO"} => l.i # 0
    BY <2>1
  <2>10. r.ret # "ERROR"
    BY <2>1
  <2>11. QED BY <2>1, <2>5, <2>6, <2>7, <2>8, <2>9, <2>10 DEF FetchedRowset, r
<1>8. QED BY <1>6, <1>7

AllDirections == {"NEXT", "PRIOR", "FIRST", "LAST", "ABSOLUTE", "RELATIVE", "BOOKMARK"}

LEMMA Targets ==
  ASSUME NEW t, Sound(t), NEW dir \in AllDirections, NEW off \in Int,
         NEW size \in Nat, NEW saved \in Int
  PROVE  Target(t, dir, off, size, saved) \in Int
<1>1. Total(t) \in Int /\ t.start \in Int /\ Bookmark \in Int /\ Outside \in Int
  BY Totals, SizesAssumption DEF Sound, Cursors, Outside
<1>2. ASSUME NEW from \in Int, NEW n \in Int
      PROVE  Forward(t, from, n) \in Int /\ Backward(t, from, n) \in Int
  BY <1>1 DEF Forward, Backward, Pick
<1>3. CASE dir = "NEXT"
  BY <1>1, <1>3 DEF Target, NextStart, Pick
<1>4. LastStart(t, size) \in Int
  BY <1>1 DEF LastStart, Pick
<1>5. CASE dir = "PRIOR"
  BY <1>1, <1>4, <1>5 DEF Target, PriorStart, Pick
<1>6. CASE dir = "FIRST"
  BY <1>6 DEF Target
<1>7. CASE dir = "LAST"
  BY <1>4, <1>7 DEF Target
<1>8. CASE dir = "ABSOLUTE"
  <2> DEFINE last == Total(t) - 1
             back == -off
             zero == 0
  <2>1. last \in Int /\ back \in Int /\ zero \in Int
    BY <1>1
  <2>2. Target(t, dir, off, size, saved)
          \in {Outside, Forward(t, zero, off), Backward(t, last, back)}
    BY <1>8 DEF Target, AbsoluteStart
  <2> HIDE DEF last, back, zero
  <2>3. Forward(t, zero, off) \in Int /\ Backward(t, last, back) \in Int
    BY <1>2, <2>1
  <2>4. QED BY <1>1, <2>2, <2>3
<1>9. CASE dir = "RELATIVE"
  <2> DEFINE next == t.start + 1
             before == t.start - 1
             back == -off
  <2>1. next \in Int /\ back \in Int /\ before \in Int
    BY <1>1
  <2>2. Target(t, dir, off, size, saved)
          \in {t.start, Forward(t, next, off), Backward(t, before, back)}
    BY <1>9 DEF Target, RelativeStart
  <2> HIDE DEF next, back, before
  <2>3. Forward(t, next, off) \in Int /\ Backward(t, before, back) \in Int
    BY <1>2, <2>1
  <2>4. QED BY <1>1, <2>2, <2>3
<1>10. CASE dir = "BOOKMARK"
  <2> DEFINE i == Pick(Bookmark < 0, Total(t) - 1 - Total(t) - Bookmark, Bookmark - 1)
  <2>1. i \in Int
    BY <1>1 DEF Pick
  <2> HIDE DEF i
  <2>2. Forward(t, i, off + 1) \in Int /\ Backward(t, i, 1 - off) \in Int
    BY <1>2, <2>1
  <2>3. QED BY <1>10, <2>2 DEF Target, BookmarkStart, i
<1>11. QED BY <1>3, <1>5, <1>6, <1>7, <1>8, <1>9, <1>10 DEF AllDirections

\* what a fetch promises; size is the one the interface uses
FetchedOr(t, r, dir, off, size) ==
  \/ r.ret = "ERROR" /\ \E e \in Errors : r.s = SetError(t, e)
  \/ r.ret = "NO_DATA" /\ Sound(r.s)
  \/ \E start \in Nat :
       /\ HasResult(t) /\ FetchedRowset(t, r, start, size)
       /\ start = Pick(Target(t, dir, off, size, t.save) < 0, 0, Target(t, dir, off, size, t.save))

LEMMA ExtendedFetching ==
  ASSUME NEW t, Sound(t), NEW dir \in AllDirections, NEW off \in Int, NEW size \in Nat
  PROVE  FetchedOr(t, ExtendedFetch(t, dir, off, size), dir, off, size)
<1> DEFINE c == ClearError(t)
           none == -1
           u == [c EXCEPT !.save = none]
           v == IF Clipped(u, dir, size) THEN SetError(u, "POS_BEFORE") ELSE u
           target == Target(u, dir, off, size, c.save)
           r == ExtendedFetch(t, dir, off, size)
           start == Pick(target < 0, 0, target)
<1>1. Sound(c) /\ c \in Cursors /\ none \in Int /\ none = -1
  BY Clearing DEF Sound
<1>2. /\ c.res = t.res /\ c.start = t.start /\ c.opt = t.opt /\ c.ard = t.ard /\ c.save = t.save
      /\ c.save \in Int
  BY DEF Sound, Cursors, ClearError, SetError
<1>3. \/ r = Fail(c, "OTHER")
      \/ r = Done(c, "NO_DATA")
      \/ /\ HasResult(c)
         /\ \/ r = AfterEnd(v)
            \/ r = BeforeStart(v)
            \/ r = FetchRowset(v, start, size)
  <2> HIDE DEF v, target, start
  <2>1. r = IF c.opt.cursor = "FORWARD_ONLY" /\ dir # "NEXT" THEN Fail(c, "OTHER")
            ELSE IF ~HasResult(c) THEN Fail(c, "OTHER")
            ELSE IF c.ard.allocated = 0
                 THEN Pick(c.type # "SELECT", Done(c, "NO_DATA"), Fail(c, "OTHER"))
            ELSE IF target >= Total(c) THEN AfterEnd(v)
            ELSE IF target + size <= 0 THEN BeforeStart(v)
            ELSE FetchRowset(v, start, size)
    BY DEF ExtendedFetch, v, target, start
  <2> HIDE DEF r, c
  <2>2. QED BY <2>1 DEF Pick
<1> HIDE DEF c, none, r
<1>4. /\ u \in Cursors /\ u.res = c.res /\ u.status = c.status /\ u.start = c.start
      /\ u.curr = c.curr /\ u.lfc = c.lfc /\ u.opt = c.opt /\ u.ard = c.ard /\ u.gd = c.gd
      /\ u.save = -1 /\ u.ard \in ARDs
  BY <1>1 DEF Cursors
<1> HIDE DEF u
<1>5. Sound(u)
  <2>1. u.ard.allocated >= c.ard.allocated
    BY <1>4 DEF ARDs
  <2>2. QED BY <1>1, <1>4, <2>1, Alike DEF Sound, ColumnsOK
<1>6. /\ Sound(v) /\ v.res = t.res /\ v.opt = t.opt /\ v.ard = t.ard /\ v.save = -1
  <2>1. Sound(SetError(u, "POS_BEFORE"))
    BY <1>5, Erring, CursorNames
  <2>2. /\ SetError(u, "POS_BEFORE").res = u.res /\ SetError(u, "POS_BEFORE").opt = u.opt
        /\ SetError(u, "POS_BEFORE").ard = u.ard /\ SetError(u, "POS_BEFORE").save = u.save
    BY <1>4 DEF SetError, Cursors
  <2>3. QED BY <1>2, <1>4, <1>5, <2>1, <2>2
<1>7. target \in Int /\ target = Target(t, dir, off, size, t.save)
  <2>1. target \in Int
    BY <1>2, <1>5, Targets
  <2>2. Total(u) = Total(t) /\ u.start = t.start
    BY <1>2, <1>4 DEF Total
  <2>3. QED
    BY <1>2, <2>1, <2>2
       DEF Target, NextStart, PriorStart, LastStart, AbsoluteStart, RelativeStart,
           BookmarkStart, Forward, Backward
<1>8. start \in Nat
  BY <1>7 DEF Pick
<1> HIDE DEF v, target
<1>9. CASE r = Fail(c, "OTHER")
  <2>1. Keeps(t, Fail(c, "OTHER")) /\ Fail(c, "OTHER").ret = "ERROR"
    BY Refusing, CursorNames DEF c, Fail, Done
  <2>2. \E e \in Errors : r.s = SetError(t, e)
    BY <1>9, <2>1 DEF Keeps
  <2>3. QED BY <1>9, <2>1, <2>2 DEF FetchedOr, r
<1>10. CASE r = Done(c, "NO_DATA")
  BY <1>1, <1>10 DEF FetchedOr, Done, r
<1>11. CASE r = AfterEnd(v) \/ r = BeforeStart(v)
  <2>1. Total(v) \in Int
    BY <1>6, Totals DEF Sound
  <2>2. Sound(r.s) /\ r.ret = "NO_DATA"
    <3> DEFINE before == -1
               past == Total(v)
               a == [SetRowsetStart(v, before, TRUE) EXCEPT !.curr = -1]
               b == [SetRowsetStart(v, past, TRUE) EXCEPT !.curr = -1]
    <3>1. (r.s = a \/ r.s = b) /\ r.ret = "NO_DATA"
      <4>1. CASE r = AfterEnd(v)
        <5>1. r = [s |-> b, ret |-> "NO_DATA"]
          BY <4>1 DEF AfterEnd, Done
        <5>2. QED BY <5>1
      <4>2. CASE r = BeforeStart(v)
        <5>1. r = [s |-> a, ret |-> "NO_DATA"]
          BY <4>2 DEF BeforeStart, Done
        <5>2. QED BY <5>1
      <4>3. QED BY <1>11, <4>1, <4>2
    <3>2. before \in Int /\ past \in Int
      BY <2>1
    <3> HIDE DEF before, past
    <3>3. Sound(a) /\ Sound(b)
      BY <1>6, <3>2, Leaving
    <3> HIDE DEF a, b
    <3>4. QED BY <3>1, <3>3
  <2>3. QED BY <2>2 DEF FetchedOr, r
<1>12. CASE HasResult(c) /\ r = FetchRowset(v, start, size)
  <2>1. HasResult(v) /\ HasResult(t)
    BY <1>2, <1>6, <1>12 DEF HasResult
  <2> HIDE DEF start
  <2>2. FetchedRowset(v, r, start, size)
    BY <1>6, <1>8, <1>12, <2>1, FetchingRowset
  <2>3. \A index : Whole(v, index) <=> Whole(t, index)
    BY <1>6 DEF Whole, Delivered
  <2>4. FetchedRowset(t, r, start, size)
    BY <1>6, <2>2, <2>3 DEF FetchedRowset
  <2>5. QED BY <1>7, <1>8, <2>1, <2>4 DEF FetchedOr, r, start
<1>13. QED BY <1>3, <1>9, <1>10, <1>11, <1>12

-----------------------------------------------------------------------------
(* The invariant of the cursor.                                              *)

\* between two calls the statement is sound, and a rowset the application was
\* shown is as it was loaded but for the columns it has read since
Inv ==
  /\ Sound(s)
  /\ api \in {"odbc2", "odbc3"}
  /\ seen \in [cols : SUBSET (1..MaxCol), loaded : BOOLEAN]
  /\ seen.loaded => Loaded(s, api, seen.cols)

LEMMA Beginning == Init => Inv
<1> SUFFICES ASSUME Init PROVE Inv
  OBVIOUS
<1>1. MaxCol \in Nat /\ NoResult \in Cached
  BY SizesAssumption, CursorNames
<1>2. NewARD \in ARDs /\ NewARD.bound = {} /\ NewARD.allocated = 0
  BY <1>1 DEF NewARD, ARDs
<1>3. NewGData \in GDatas /\ \A c \in 1..MaxCol : NewGData.left[c] = -1
  BY <1>1 DEF NewGData, GDatas, FreshCols, Lefts
<1>4. DefaultOptions \in Options
  BY DEF DefaultOptions, Options, CursorTypes
<1>5. /\ s.res = NoResult /\ s.status = "ALLOCATED" /\ s.lfc = 0 /\ s.ard = NewARD
      /\ s.gd = NewGData /\ s \in Cursors
  BY <1>1, <1>2, <1>3, <1>4, CursorNames DEF Init, NewStatement, Cursors
<1>6. ResultOK(s)
  BY <1>2, <1>5 DEF ResultOK, HasResult, NoResult
<1>7. ColumnsOK(s)
  BY <1>2, <1>3, <1>5 DEF ColumnsOK
<1>8. BaseOK(s)
  BY <1>5 DEF BaseOK, HasResult
<1>9. seen \in [cols : SUBSET (1..MaxCol), loaded : BOOLEAN] /\ ~seen.loaded
  BY DEF Init
<1>10. QED BY <1>5, <1>6, <1>7, <1>8, <1>9 DEF Inv, Sound, Init

LEMMA Moving ==
  ASSUME Inv, NEW r, Keeps(s, r), NEW loaded \in BOOLEAN, Move(r, loaded),
         loaded /\ r.ret # "ERROR" => Loaded(r.s, api, {})
  PROVE  Inv'
<1>1. s' = r.s /\ api' = api /\ Sound(s')
  BY DEF Move, Keeps
<1>2. CASE r.ret = "ERROR"
  <2>1. PICK e \in Errors \ {"ROW"} : r.s = SetError(s, e)
    BY <1>2 DEF Keeps
  <2>2. r.s.err # "ROW"
    BY <2>1 DEF SetError, Inv, Sound, Cursors
  <2>3. seen' = seen
    BY <1>2, <2>2 DEF Move, Moved
  <2>4. seen.loaded => Loaded(SetError(s, e), api, seen.cols)
    BY <2>1, LoadedErring DEF Inv
  <2>5. QED BY <1>1, <2>1, <2>3, <2>4 DEF Inv
<1>3. CASE r.ret # "ERROR"
  <2>1. seen' = [cols |-> {}, loaded |-> loaded]
    BY <1>3 DEF Move, Moved
  <2>2. QED BY <1>1, <1>3, <2>1 DEF Inv
<1>4. QED BY <1>2, <1>3

LEMMA Calling ==
  ASSUME Inv, NEW r, Sound(r.s), Call(r), seen.loaded => Loaded(r.s, api, seen.cols)
  PROVE  Inv'
  BY DEF Inv, Call

\* a fetch of either interface, with the size that interface uses
Fetches(dir, off, size) ==
  /\ dir \in AllDirections /\ off \in Int /\ size \in Nat
  /\ api = "odbc2" => size = s.ard.size2
  /\ api = "odbc3" => size = s.ard.size
  /\ FetchCall(dir, ExtendedFetch(s, dir, off, size))

LEMMA BothFetch ==
  ASSUME Inv, SQLFetchScroll \/ SQLExtendedFetch
  PROVE  \E dir, off, size : Fetches(dir, off, size)
<1>1. /\ s.ard.size \in Nat /\ s.ard.size2 \in Nat
      /\ Directions \subseteq AllDirections /\ Offsets \subseteq Int
  BY SizesAssumption DEF Inv, Sound, Cursors, ARDs, AllDirections
<1>2. CASE SQLFetchScroll
  <2>1. PICK dir \in Directions, off \in Offsets :
          FetchCall(dir, ExtendedFetch(s, dir, off, s.ard.size)) /\ api = "odbc3"
    BY <1>2 DEF SQLFetchScroll
  <2>2. Fetches(dir, off, s.ard.size)
    BY <1>1, <2>1 DEF Fetches
  <2>3. QED BY <2>2
<1>3. CASE SQLExtendedFetch
  <2>1. PICK dir \in Directions, off \in Offsets :
          FetchCall(dir, ExtendedFetch(s, dir, off, s.ard.size2)) /\ api = "odbc2"
    BY <1>3 DEF SQLExtendedFetch
  <2>2. Fetches(dir, off, s.ard.size2)
    BY <1>1, <2>1 DEF Fetches
  <2>3. QED BY <2>2
<1>4. QED BY <1>2, <1>3

LEMMA FetchPreserves ==
  ASSUME Inv, NEW dir, NEW off, NEW size, Fetches(dir, off, size)
  PROVE  Inv'
<1> DEFINE r == ExtendedFetch(s, dir, off, size)
<1>1. FetchedOr(s, r, dir, off, size)
  BY ExtendedFetching DEF Inv, Fetches
<1>2. /\ s' = r.s /\ api' = api /\ Moved(r, s.opt.retrieve /\ r.ret \in {"SUCCESS", "INFO"})
      /\ s.opt.retrieve \in BOOLEAN
  BY DEF Fetches, FetchCall, Inv, Sound, Cursors, Options
<1> HIDE DEF r
<1>3. CASE r.ret = "ERROR" /\ \E e \in Errors : r.s = SetError(s, e)
  <2>1. PICK e \in Errors : r.s = SetError(s, e)
    BY <1>3
  <2>2. Sound(r.s) /\ (seen.loaded => Loaded(r.s, api, seen.cols))
    BY <2>1, Erring, LoadedErring DEF Inv
  <2>3. seen' = seen \/ seen' = [cols |-> {}, loaded |-> FALSE]
    BY <1>2, <1>3 DEF Moved
  <2>4. CASE seen' = seen
    BY <1>2, <2>2, <2>4 DEF Inv
  <2>5. CASE seen' = [cols |-> {}, loaded |-> FALSE]
    BY <1>2, <2>2, <2>5 DEF Inv
  <2>6. QED BY <2>3, <2>4, <2>5
<1>4. CASE r.ret = "NO_DATA" /\ Sound(r.s)
  <2>1. seen' = [cols |-> {}, loaded |-> FALSE]
    BY <1>2, <1>4 DEF Moved
  <2>2. QED BY <1>2, <1>4, <2>1 DEF Inv
<1>5. ASSUME NEW start \in Nat, FetchedRowset(s, r, start, size) PROVE Inv'
  <2>1. Sound(r.s) /\ (r.ret = "ERROR" => r.s.err = "ROW")
    BY <1>5 DEF FetchedRowset
  <2>2. seen' = [cols |-> {}, loaded |-> s.opt.retrieve /\ r.ret \in {"SUCCESS", "INFO"}]
    BY <1>2, <2>1 DEF Moved
  <2>3. s.opt.retrieve /\ r.ret \in {"SUCCESS", "INFO"} => Loaded(r.s, api, {})
    BY <1>5 DEF FetchedRowset, Inv, Fetches
  <2>4. QED BY <1>2, <2>1, <2>2, <2>3 DEF Inv
<1>6. QED BY <1>1, <1>3, <1>4, <1>5 DEF FetchedOr

LEMMA Stepping == Inv /\ [Next]_vars => Inv'
<1> SUFFICES ASSUME Inv, [Next]_vars PROVE Inv'
  OBVIOUS
<1>s. Sound(s) /\ seen.loaded \in BOOLEAN /\ seen.cols \in SUBSET (1..MaxCol)
  BY DEF Inv
<1>1. CASE SQLExecDirect
  <2>1. PICK r \in Results : Move(ExecDirect(s, r), FALSE)
    BY <1>1 DEF SQLExecDirect
  <2>2. QED BY <1>s, <2>1, ExecutingDirect, Moving
<1>2. CASE SQLExecute
  <2>1. PICK r \in Results : Move(Execute(s, r), FALSE)
    BY <1>2 DEF SQLExecute
  <2>2. QED BY <1>s, <2>1, Executing, Moving
<1>3. CASE SQLPrepare
  <2>1. PICK type \in StatementTypes : Move(Prepare(s, type), FALSE)
    BY <1>3 DEF SQLPrepare
  <2>2. QED BY <1>s, <2>1, Preparing, Moving
<1>4. CASE SQLCloseCursor \/ SQLMoreResults
  BY <1>s, <1>4, Closing, Moving DEF SQLCloseCursor, SQLMoreResults
<1>5. CASE SQLUnbind
  <2>1. seen.loaded => Loaded(UnbindStmt(s).s, api, {})
    BY <1>s, LoadedUnbinding DEF Inv
  <2>2. QED BY <1>s, <1>5, <2>1, Unbinding, Moving DEF SQLUnbind
<1>6. CASE SQLBindCol
  <2>1. PICK c \in BindCols, on \in BOOLEAN : Call(BindCol(s, c, on))
    BY <1>6 DEF SQLBindCol
  <2>2. seen.loaded => Loaded(BindCol(s, c, on).s, api, seen.cols)
    BY <1>s, LoadedBinding DEF Inv
  <2>3. Sound(BindCol(s, c, on).s)
    BY <1>s, Binding DEF Keeps
  <2>4. QED BY <2>1, <2>2, <2>3, Calling
<1>7. CASE SQLFetchScroll \/ SQLExtendedFetch
  BY <1>7, BothFetch, FetchPreserves
<1>8. CASE SQLSetPos
  <2>1. PICK irow \in 0..3 : Move(SetPos(s, irow), seen.loaded)
    BY <1>8 DEF SQLSetPos
  <2>2. Keeps(s, SetPos(s, irow))
    BY <1>s, Positioning
  <2>3. seen.loaded /\ SetPos(s, irow).ret # "ERROR" => Loaded(SetPos(s, irow).s, api, {})
    BY <1>s, Positioning DEF Inv
  <2>4. QED BY <1>s, <2>1, <2>2, <2>3, Moving
<1>9. CASE SQLGetData
  <2>1. PICK c \in 1..MaxCol :
          /\ Read("GetData", GetData(s, c), seen.loaded /\ c \notin seen.cols)
          /\ seen' = IF GetData(s, c).row >= 0 THEN [seen EXCEPT !.cols = {c}] ELSE seen
    BY <1>9 DEF SQLGetData
  <2> DEFINE r == GetData(s, c)
  <2>2. s' = r.s /\ api' = api /\ seen' = IF r.row >= 0 THEN [seen EXCEPT !.cols = {c}] ELSE seen
    BY <2>1 DEF Read
  <2>3. \/ r.row = -1 /\ r.s = SetError(s, "OTHER")
        \/ /\ Sound(r.s)
           /\ r.row = s.curr /\ s.curr \in 0..(Total(s) - 1)
           /\ \A a, cols : Loaded(s, a, cols) => Loaded(r.s, a, {c})
    BY <1>s, Getting
  <2> HIDE DEF r
  <2>4. CASE r.row = -1 /\ r.s = SetError(s, "OTHER")
    <3>1. seen' = seen
      BY <2>2, <2>4
    <3>2. Sound(r.s) /\ (seen.loaded => Loaded(r.s, api, seen.cols))
      BY <1>s, <2>4, Erring, LoadedErring, CursorNames DEF Inv
    <3>3. QED BY <2>2, <3>1, <3>2 DEF Inv
  <2>5. CASE /\ Sound(r.s)
             /\ r.row = s.curr /\ s.curr \in 0..(Total(s) - 1)
             /\ \A a, cols : Loaded(s, a, cols) => Loaded(r.s, a, {c})
    <3>1. seen' = [seen EXCEPT !.cols = {c}]
      BY <2>2, <2>5
    <3>2. /\ seen' \in [cols : SUBSET (1..MaxCol), loaded : BOOLEAN]
          /\ seen'.loaded = seen.loaded /\ seen'.cols = {c}
      BY <3>1 DEF Inv
    <3>3. seen.loaded => Loaded(r.s, api, {c})
      BY <2>5 DEF Inv
    <3>4. QED BY <2>2, <2>5, <3>2, <3>3 DEF Inv
  <2>6. QED BY <2>3, <2>4, <2>5
<1>10. CASE SQLGetRowNumber
  <2>1. s' \in {s, SetError(s, "OTHER")} /\ api' = api /\ seen' = seen
    BY <1>s, <1>10, Numbering DEF SQLGetRowNumber, Read
  <2>2. QED BY <1>s, <2>1, Erring, LoadedErring, CursorNames DEF Inv
<1>11. CASE SQLSetStmtAttr
  <2>1. CASE \E r : Setting(s, r) /\ Call(r)
    <3>1. PICK r : Setting(s, r) /\ Call(r)
      BY <2>1
    <3>2. Sound(r.s) /\ (seen.loaded => Loaded(r.s, api, seen.cols))
      BY <1>s, <3>1, SettingOptions DEF Inv
    <3>3. QED BY <3>1, <3>2, Calling
  <2>2. CASE api = "odbc2" /\ \E v \in RowsetSizes : Call(SetRowsetSize(s, v))
    <3>1. PICK v \in RowsetSizes : Call(SetRowsetSize(s, v))
      BY <2>2
    <3>2. /\ Sound(SetRowsetSize(s, v).s)
          /\ seen.loaded => Loaded(SetRowsetSize(s, v).s, api, seen.cols)
      BY <1>s, <2>2, Resizing DEF Inv
    <3>3. QED BY <3>1, <3>2, Calling
  <2>3. CASE api = "odbc3" /\ \E v \in RowsetSizes : Call(SetRowArraySize(s, v))
    <3>1. PICK v \in RowsetSizes : Call(SetRowArraySize(s, v))
      BY <2>3
    <3>2. /\ Sound(SetRowArraySize(s, v).s)
          /\ seen.loaded => Loaded(SetRowArraySize(s, v).s, api, seen.cols)
      BY <1>s, <2>3, Resizing DEF Inv
    <3>3. QED BY <3>1, <3>2, Calling
  <2>4. QED BY <1>11, <2>1, <2>2, <2>3 DEF SQLSetStmtAttr, Setting, CursorTypes
<1>12. CASE UNCHANGED vars
  BY <1>12 DEF vars, Inv
<1>13. QED
  BY <1>1, <1>2, <1>3, <1>4, <1>5, <1>6, <1>7, <1>8, <1>9, <1>10, <1>11, <1>12 DEF Next

LEMMA Invariance == Spec => []Inv
  BY Beginning, Stepping, PTL DEF Spec

(* The statement keeps its shape, its result's columns have their records,   *)
(* and what is left of a column no array covers is nothing: the arrays of    *)
(* the descriptors are extended before a column is used                      *)
(* (extend_column_bindings, extend_getdata_info).                            *)
THEOREM CursorTyped == Spec => []TypeOK
<1>1. Inv => TypeOK
  <2> SUFFICES ASSUME Inv PROVE TypeOK
    OBVIOUS
  <2>1. s \in Cursors /\ ResultOK(s) /\ ColumnsOK(s) /\ seen.cols \subseteq 1..MaxCol
    BY DEF Inv, Sound
  <2>2. /\ s.status \in Statuses /\ s.res \in Cached /\ s.ard \in ARDs /\ s.gd \in GDatas
        /\ s.lfc \in Nat /\ s.lfc \in Int
        /\ {s.curr, s.start, s.save, s.col, s.bindRow} \subseteq Int
    BY <2>1 DEF Cursors
  <2>3. s.res.valid \in BOOLEAN /\ s.res.base \in Int
    BY <2>2 DEF Cached
  <2>4. s.ard.allocated \in 0..MaxCol /\ s.gd.allocated \in 0..MaxCol /\ s.gd.left \in Lefts
    BY <2>2 DEF ARDs, GDatas
  <2>5. QED BY <2>1, <2>2, <2>3, <2>4 DEF TypeOK, ResultOK, ColumnsOK, Statuses, Lefts
<1>2. QED BY <1>1, Invariance, PTL

(* The row under the cursor is found at its own place in the cache: its base *)
(* is moved with the rowset (SC_set_rowset_start, GIdx2CacheIdx).            *)
THEOREM CacheFollows == Spec => []CacheFollowsRowset
<1>1. Inv => CacheFollowsRowset
  BY OnRow DEF Inv, CacheFollowsRowset
<1>2. QED BY <1>1, Invariance, PTL

-----------------------------------------------------------------------------
(* The steps of the cursor.                                                  *)

\* the calls that show nothing of a row
LEMMA OthersSilent ==
  ASSUME Next, ~(SQLFetchScroll \/ SQLExtendedFetch \/ SQLGetData)
  PROVE  out'.rows = {} /\ out'.call \in {"other", "RowNumber"}
<1>1. Silent.rows = {} /\ Silent.call = "other"
  BY DEF Silent
<1>2. CASE SQLExecDirect \/ SQLExecute \/ SQLPrepare \/ SQLCloseCursor \/ SQLMoreResults
           \/ SQLUnbind \/ SQLSetPos
  <2>1. out' = Silent
    BY <1>2 DEF SQLExecDirect, SQLExecute, SQLPrepare, SQLCloseCursor, SQLMoreResults,
                SQLUnbind, SQLSetPos, Move
  <2>2. QED BY <1>1, <2>1
<1>3. CASE SQLBindCol \/ SQLSetStmtAttr
  <2>1. out' = Silent
    BY <1>3 DEF SQLBindCol, SQLSetStmtAttr, Call
  <2>2. QED BY <1>1, <2>1
<1>4. CASE SQLGetRowNumber
  BY <1>4 DEF SQLGetRowNumber, Read, Shown
<1>5. QED BY <1>2, <1>3, <1>4 DEF Next

\* only a fetch shows rows
LEMMA OnlyFetches ==
  ASSUME Inv, Next
  PROVE  \/ \E dir, off, size : Fetches(dir, off, size)
         \/ out'.rows = {}
<1>1. CASE SQLFetchScroll \/ SQLExtendedFetch
  BY <1>1, BothFetch
<1>2. CASE SQLGetData
  BY <1>2 DEF SQLGetData, Read, Shown
<1>3. QED BY <1>1, <1>2, OthersSilent

\* a fetch that shows rows fetched a rowset
LEMMA ShownRows ==
  ASSUME Inv, NEW dir, NEW off, NEW size, Fetches(dir, off, size), out'.rows # {}
  PROVE  \E start, r :
           /\ start \in Nat
           /\ out'.call = dir /\ out'.ret = r.ret /\ s' = r.s
           /\ r.ret \in {"SUCCESS", "INFO"} /\ out'.rows = s'.start..(s'.start + s'.lfc - 1)
           /\ FetchedRowset(s, r, start, size)
           /\ start = Pick(Target(s, dir, off, size, s.save) < 0, 0,
                           Target(s, dir, off, size, s.save))
<1> DEFINE r == ExtendedFetch(s, dir, off, size)
<1>1. FetchedOr(s, r, dir, off, size)
  BY ExtendedFetching DEF Inv, Fetches
<1>2. s' = r.s /\ out' = [Shown(dir, r) EXCEPT !.rows = Fetched(r)]
  BY DEF Fetches, FetchCall
<1> HIDE DEF r
<1>3. /\ out'.rows = Fetched(r) /\ out'.call = dir /\ out'.ret = r.ret
  BY <1>2 DEF Shown
<1>4. r.ret \in {"SUCCESS", "INFO"} /\ out'.rows = s'.start..(s'.start + s'.lfc - 1)
  BY <1>2, <1>3 DEF Fetched
<1>5. QED BY <1>1, <1>2, <1>3, <1>4 DEF FetchedOr

(* The rowset behind one that was shown begins with the row behind it, also  *)
(* when its size was changed in between (save_rowset_size): the number of    *)
(* rows last fetched is the size the start is moved by (PGAPI_ExtendedFetch).*)
THEOREM NextIsNext == Spec => NextFollows
<1>1. ASSUME Inv, [Next]_vars
      PROVE  [ /\ out'.call = "NEXT" /\ out'.rows # {}
               /\ seen.loaded /\ s.start + s.lfc < Total(s) /\ s.opt.maxRows = 0
               /\ api = "odbc3" => s.lfc = s.ard.size
               => s'.start = s.start + s.lfc ]_vars
  <2> SUFFICES ASSUME Next, out'.call = "NEXT", out'.rows # {},
                      seen.loaded, s.start + s.lfc < Total(s), s.opt.maxRows = 0,
                      api = "odbc3" => s.lfc = s.ard.size
               PROVE  s'.start = s.start + s.lfc
    BY <1>1
  <2>1. PICK dir, off, size : Fetches(dir, off, size)
    BY <1>1, OnlyFetches
  <2>2. PICK start, r :
          /\ start \in Nat
          /\ out'.call = dir /\ s' = r.s /\ FetchedRowset(s, r, start, size)
          /\ start = Pick(Target(s, dir, off, size, s.save) < 0, 0,
                          Target(s, dir, off, size, s.save))
    BY <1>1, <2>1, ShownRows
  <2>3. dir = "NEXT" /\ s'.start = start
    BY <2>2 DEF FetchedRowset
  <2>4. /\ s.start >= 0 /\ s.lfc > 0 /\ s.start \in Int /\ s.lfc \in Int /\ s.save \in Int
        /\ api \in {"odbc2", "odbc3"}
        /\ api = "odbc2" => s.lfc = Pick(s.save > 0, s.save, s.ard.size2)
        /\ api = "odbc3" => s.save <= 0
    BY <1>1 DEF Inv, Loaded, Sound, Cursors
  <2>5. Target(s, dir, off, size, s.save) = s.start + Pick(s.save > 0, s.save, size)
    BY <2>3, <2>4 DEF Target, NextStart, Pick
  <2>6. Pick(s.save > 0, s.save, size) = s.lfc
    BY <2>1, <2>4 DEF Fetches, Pick
  <2>7. QED BY <2>2, <2>3, <2>4, <2>5, <2>6 DEF Pick
<1>2. QED BY <1>1, Invariance, PTL DEF Spec, NextFollows

(* Plain success of a fetch means that every bound column of every row of    *)
(* the rowset arrived whole: a truncated or failed column of any row is      *)
(* remembered to the end of the loop (SC_fetch, PGAPI_ExtendedFetch).        *)
THEOREM SuccessIsWhole == Spec => SuccessMeansWhole
<1>1. ASSUME Inv, [Next]_vars
      PROVE  [ out'.ret = "SUCCESS" /\ s.opt.retrieve
               => \A r \in out'.rows : \A c \in Delivered(s, r) : s.res.rows[r + 1][c] = "short" ]_vars
  <2> SUFFICES ASSUME Next, out'.ret = "SUCCESS", s.opt.retrieve, NEW index \in out'.rows
               PROVE  Whole(s, index)
    BY <1>1 DEF Whole
  <2>1. PICK dir, off, size : Fetches(dir, off, size)
    BY <1>1, OnlyFetches
  <2>2. PICK start, r :
          /\ start \in Nat
          /\ out'.ret = r.ret /\ s' = r.s /\ FetchedRowset(s, r, start, size)
          /\ out'.rows = s'.start..(s'.start + s'.lfc - 1)
    BY <1>1, <2>1, ShownRows
  <2>3. QED BY <2>2 DEF FetchedRowset
<1>2. QED BY <1>1, Invariance, PTL DEF Spec, SuccessMeansWhole

(* The first read of a column since its row was loaded begins with the       *)
(* value's beginning: loading a row forgets what was left of the columns of  *)
(* the row before (SC_fetch, SC_set_current_col, PGAPI_GetData).             *)
THEOREM ReadFromStart == Spec => GetDataFromItsStart
<1>1. ASSUME Inv, [Next]_vars
      PROVE  [ \A c \in 1..MaxCol :
                 out'.call = "GetData" /\ out'.fresh /\ out'.row >= 0 /\ seen'.cols = {c}
                 => /\ out'.row = s.curr
                    /\ out'.ret = Piece(s.res.rows[s.curr + 1][c], -1).ret ]_vars
  <2> SUFFICES ASSUME Next, NEW c \in 1..MaxCol, out'.call = "GetData", out'.fresh,
                      out'.row >= 0, seen'.cols = {c}
               PROVE  /\ out'.row = s.curr
                      /\ out'.ret = Piece(s.res.rows[s.curr + 1][c], -1).ret
    BY <1>1
  <2>1. SQLGetData
    <3>1. CASE SQLFetchScroll \/ SQLExtendedFetch
      <4>1. PICK dir, off, size : Fetches(dir, off, size)
        BY <1>1, <3>1, BothFetch
      <4>2. out'.call = dir /\ dir # "GetData"
        BY <4>1 DEF Fetches, FetchCall, Shown, AllDirections
      <4>3. QED BY <4>2
    <3>2. CASE ~(SQLFetchScroll \/ SQLExtendedFetch \/ SQLGetData)
      <4>1. out'.call \in {"other", "RowNumber"}
        BY <3>2, OthersSilent
      <4>2. QED BY <4>1
    <3>3. QED BY <3>1, <3>2
  <2>2. PICK d \in 1..MaxCol :
          /\ Read("GetData", GetData(s, d), seen.loaded /\ d \notin seen.cols)
          /\ seen' = IF GetData(s, d).row >= 0 THEN [seen EXCEPT !.cols = {d}] ELSE seen
    BY <2>1 DEF SQLGetData
  <2> DEFINE r == GetData(s, d)
  <2>3. out'.row = r.row /\ out'.ret = r.ret /\ out'.fresh = (seen.loaded /\ d \notin seen.cols)
    BY <2>2 DEF Read, Shown
  <2>4. seen'.cols = {d}
    BY <1>1, <2>2, <2>3 DEF Inv
  <2>5. c = d
    BY <2>4
  <2>6. \/ r.row = -1
        \/ /\ r.row = s.curr /\ d <= s.res.cols
           /\ s.col # d - 1 \/ s.gd.left[d] = -1
              => r.ret = Piece(s.res.rows[s.curr + 1][d], -1).ret
    BY <1>1, Getting DEF Inv
  <2>7. Loaded(s, api, seen.cols) /\ d \notin seen.cols
    BY <1>1, <2>3 DEF Inv
  <2>8. s.col \in Int
    BY <1>1 DEF Inv, Sound, Cursors
  <2> HIDE DEF r
  <2>9. r.row # -1
    BY <2>3
  <2>10. s.col # d - 1 \/ s.gd.left[d] = -1
    BY <2>6, <2>7, <2>8, <2>9 DEF Loaded
  <2>11. QED BY <2>3, <2>5, <2>6, <2>9, <2>10
<1>2. QED BY <1>1, Invariance, PTL DEF Spec, GetDataFromItsStart
==============================================================================
