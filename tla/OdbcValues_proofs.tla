-------------------------- MODULE OdbcValues_proofs --------------------------
(* How values and texts get out of the ODBC driver, for values and texts of  *)
(* any length, buffers of any size and any decimals.                         *)
(* A value in pieces: the invariant says that the column's value and what is *)
(* left of it belong together, and that what was got so far is the beginning *)
(* of what the first piece put into the buffer of the driver.                *)
(* A value of a fixed type: the buffer that the driver's own length asks for *)
(* holds the value, a decimal is told digit by digit.                        *)
(* The driver's information: a text fits its buffer, success is of the whole *)
(* text, and a second call with the room the first asked for succeeds.       *)
(* A text through the wide entries: the bytes of each letter are read back   *)
(* wherever they stand, so what was narrowed is widened to itself, and what  *)
(* an entry tells of its length is enough for the whole.                     *)
(* Functions defined over their lengths (a text's units, a number's digits)  *)
(* are proved about by the least number that breaks the statement: LeastNat  *)
(* and UpTo, Appended and Gathered.                                          *)
(* The last section is about BufStream and shares the module only: messages  *)
(* and replies of any length, any room in the kernel, any number of calls    *)
(* and any actions of other threads, with or without the loss of the         *)
(* connection.                                                               *)
EXTENDS OdbcSession, BufStream, WellFoundedInduction, SequenceTheorems, TLAPS

-----------------------------------------------------------------------------
(* Numbers.                                                                  *)

\* every set of numbers with a member has a least one
LEMMA LeastNat ==
  ASSUME NEW T, T \subseteq Nat, T # {}
  PROVE  \E x \in T : \A y \in T : x <= y
<1> DEFINE R == OpToRel(<, Nat)
<1>1. IsWellFoundedOn(R, Nat)
  BY NatLessThanWellFounded
<1>2. \A x, y \in Nat : x < y => <<x, y>> \in R
  BY DEF OpToRel
<1> HIDE DEF R
<1>3. \E x \in T : \A y \in T : ~(<<y, x>> \in R)
  BY <1>1, WFMin
<1>4. PICK x \in T : \A y \in T : ~(<<y, x>> \in R)
  BY <1>3
<1>5. ASSUME NEW y \in T PROVE x <= y
  <2>1. x \in Nat /\ y \in Nat /\ ~(y < x)
    BY <1>2, <1>4
  <2>2. QED BY <2>1
<1>6. QED BY <1>5

\* a set that holds zero and the successor of its members up to n holds them all
LEMMA UpTo ==
  ASSUME NEW n \in Nat, NEW S, 0 \in S, \A i \in 0..(n - 1) : i \in S => i + 1 \in S
  PROVE  0..n \subseteq S
<1> DEFINE T == {i \in 0..n : i \notin S}
<1>1. SUFFICES ASSUME T # {} PROVE FALSE
  OBVIOUS
<1>2. PICK x \in T : \A y \in T : x <= y
  <2>1. T \subseteq Nat
    OBVIOUS
  <2> HIDE DEF T
  <2>2. QED BY <1>1, <2>1, LeastNat
<1>3. x \in 1..n /\ x - 1 \in 0..(n - 1) /\ x - 1 \in 0..n /\ x - 1 + 1 = x /\ ~(x <= x - 1)
  BY <1>2
<1>4. x - 1 \in S
  BY <1>2, <1>3
<1>5. QED BY <1>2, <1>3, <1>4

-----------------------------------------------------------------------------
(* Texts that are made piece by piece, from their beginning or from their    *)
(* end: a recursion over positions has a solution, and it is a text.         *)

Appended(n, p, f) == f = [i \in 0..n |-> IF i = 0 THEN <<>> ELSE f[i - 1] \o p[i]]

LEMMA AppendedSolved ==
  ASSUME NEW size \in Nat, NEW p
  PROVE  \E f : Appended(size, p, f)
<1> DEFINE S == {n \in Nat : \E f : Appended(n, p, f)}
<1>1. 0 \in S
  <2> DEFINE f == [i \in 0..0 |-> <<>>]
  <2>1. Appended(0, p, f)
    BY DEF Appended
  <2>2. QED BY <2>1
<1>2. ASSUME NEW n \in 0..(size - 1), n \in S PROVE n + 1 \in S
  <2>1. PICK f : Appended(n, p, f)
    BY <1>2
  <2> DEFINE g == [i \in 0..(n + 1) |-> IF i <= n THEN f[i] ELSE f[n] \o p[n + 1]]
  <2>2. \A i \in 0..n : g[i] = f[i]
    OBVIOUS
  <2>3. ASSUME NEW i \in 0..(n + 1)
        PROVE  g[i] = IF i = 0 THEN <<>> ELSE g[i - 1] \o p[i]
    <3>1. CASE i = 0
      BY <2>1, <3>1 DEF Appended
    <3>2. CASE i \in 1..n
      <4>1. g[i] = f[i] /\ g[i - 1] = f[i - 1] /\ i # 0 /\ i \in 0..n
        BY <2>2, <3>2
      <4>2. f[i] = f[i - 1] \o p[i]
        BY <2>1, <4>1 DEF Appended
      <4>3. QED BY <4>1, <4>2
    <3>3. CASE i = n + 1
      BY <2>2, <3>3
    <3>4. QED BY <3>1, <3>2, <3>3
  <2>4. g = [i \in 0..(n + 1) |-> g[i]]
    OBVIOUS
  <2> HIDE DEF g
  <2>5. Appended(n + 1, p, g)
    BY <2>3, <2>4 DEF Appended
  <2>6. QED BY <2>5
<1>3. 0..size \subseteq S
  <2> HIDE DEF S
  <2>1. QED BY <1>1, <1>2, UpTo
<1>4. QED BY <1>3

LEMMA AppendedAt ==
  ASSUME NEW n \in Nat, NEW p, NEW f, Appended(n, p, f)
  PROVE  f[0] = <<>> /\ \A i \in 1..n : f[i] = f[i - 1] \o p[i]
<1>1. ASSUME NEW i \in 0..n PROVE f[i] = IF i = 0 THEN <<>> ELSE f[i - 1] \o p[i]
  BY Zenon DEF Appended
<1>2. 0 \in 0..n /\ \A i \in 1..n : i \in 0..n /\ i # 0
  OBVIOUS
<1>3. QED BY <1>1, <1>2, Zenon

LEMMA AppendedIsSeq ==
  ASSUME NEW X, NEW n \in Nat, NEW p, \A i \in 1..n : p[i] \in Seq(X), NEW f, Appended(n, p, f)
  PROVE  \A i \in 0..n : f[i] \in Seq(X)
<1> DEFINE S == {i \in 0..n : f[i] \in Seq(X)}
<1>0. f[0] = <<>> /\ \A i \in 1..n : f[i] = f[i - 1] \o p[i]
  BY AppendedAt, Zenon
<1>1. 0 \in S
  <2>1. 0 \in 0..n /\ <<>> \in Seq(X)
    OBVIOUS
  <2>2. QED BY <1>0, <2>1, Zenon
<1>2. ASSUME NEW i \in 0..(n - 1), i \in S PROVE i + 1 \in S
  <2>1. i + 1 \in 1..n /\ i + 1 - 1 = i /\ i + 1 \in 0..n
    OBVIOUS
  <2>2. f[i + 1] = f[i] \o p[i + 1]
    <3>1. PICK j \in 1..n : j = i + 1 /\ j - 1 = i
      BY <2>1
    <3>2. f[j] = f[j - 1] \o p[j]
      BY <1>0, <3>1, Zenon
    <3>3. QED BY <3>1, <3>2, Zenon
  <2>3. f[i] \in Seq(X) /\ p[i + 1] \in Seq(X)
    BY <1>2, <2>1
  <2>4. f[i] \o p[i + 1] \in Seq(X)
    BY <2>3, ConcatProperties
  <2>5. QED BY <2>1, <2>2, <2>4, Zenon
<1> HIDE DEF S
<1>3. 0..n \subseteq S
  BY <1>1, <1>2, UpTo
<1>4. QED BY <1>3 DEF S

\* from position i on: piece head[i], and what comes step[i] further, up to a stop
Onward(n, m, head, step, stop, f, i) ==
  IF i > n \/ i \in stop THEN <<>> ELSE head[i] \o f[i + step[i]]
Gathered(n, m, head, step, stop, f) ==
  f = [i \in 1..(n + m) |-> IF i > n \/ i \in stop THEN <<>> ELSE head[i] \o f[i + step[i]]]

LEMMA GatheredSolved ==
  ASSUME NEW n \in Nat, NEW m \in Nat, m > 0, NEW head, NEW stop,
         NEW step, \A i \in 1..n : i \notin stop => step[i] \in 1..m
  PROVE  \E f : Gathered(n, m, head, step, stop, f)
<1> DEFINE low(k) == n + m - k
           Solves(f, k) == f = [i \in low(k)..(n + m) |-> Onward(n, m, head, step, stop, f, i)]
           S == {k \in Nat : \E f : Solves(f, k)}
           last == n + m - 1
<1>1. 0 \in S
  <2> DEFINE f == [i \in (n + m)..(n + m) |-> <<>>]
  <2>1. low(0) = n + m
    OBVIOUS
  <2>2. ASSUME NEW i \in (n + m)..(n + m) PROVE Onward(n, m, head, step, stop, f, i) = <<>>
    <3>1. i > n
      OBVIOUS
    <3>2. QED BY <3>1, Zenon DEF Onward
  <2>3. f = [i \in (n + m)..(n + m) |-> Onward(n, m, head, step, stop, f, i)]
    BY <2>2, Zenon
  <2>4. Solves(f, 0)
    BY <2>1, <2>3, Zenon
  <2> HIDE DEF Solves, f
  <2>5. QED BY <2>4
<1>2. ASSUME NEW k \in 0..(last - 1), k \in S PROVE k + 1 \in S
  <2>1. PICK f : Solves(f, k)
    BY <1>2
  <2> DEFINE j == low(k + 1)
             g == [i \in j..(n + m) |-> IF i = j THEN Onward(n, m, head, step, stop, f, j) ELSE f[i]]
  <2>2. j \in 1..(n + m) /\ j + 1 = low(k) /\ j \in Nat
    OBVIOUS
  <2>3. \A i \in (j + 1)..(n + m) : g[i] = f[i]
    BY <2>2
  <2>4. g[j] = Onward(n, m, head, step, stop, f, j)
    BY <2>2
  <2>5. g = [i \in j..(n + m) |-> g[i]]
    OBVIOUS
  <2> HIDE DEF g
  <2>6. ASSUME NEW i \in j..(n + m)
        PROVE  Onward(n, m, head, step, stop, f, i) = Onward(n, m, head, step, stop, g, i)
    <3>1. CASE i > n \/ i \in stop
      BY <3>1 DEF Onward
    <3>2. CASE ~(i > n \/ i \in stop)
      <4>1. i \in 1..n /\ i \notin stop
        BY <2>2, <3>2
      <4>2. step[i] \in 1..m
        BY <4>1
      <4>3. i + step[i] \in (j + 1)..(n + m)
        BY <2>2, <4>1, <4>2
      <4>4. g[i + step[i]] = f[i + step[i]]
        BY <2>3, <4>3
      <4>5. QED BY <3>2, <4>4 DEF Onward
    <3>3. QED BY <3>1, <3>2
  <2>7. ASSUME NEW i \in j..(n + m)
        PROVE  g[i] = Onward(n, m, head, step, stop, g, i)
    <3>1. CASE i = j
      BY <2>4, <2>6, <3>1
    <3>2. CASE i # j
      <4>1. i \in (j + 1)..(n + m)
        BY <2>2, <3>2
      <4>2. f[i] = Onward(n, m, head, step, stop, f, i)
        <5>1. i \in low(k)..(n + m)
          BY <2>2, <4>1
        <5> HIDE DEF low
        <5>2. QED BY <2>1, <5>1
      <4>3. QED BY <2>3, <2>6, <4>1, <4>2
    <3>3. QED BY <3>1, <3>2
  <2>8. Solves(g, k + 1)
    <3> HIDE DEF low
    <3>1. QED BY <2>5, <2>7
  <2>9. k + 1 \in Nat
    OBVIOUS
  <2> HIDE DEF Solves
  <2>10. QED BY <2>8, <2>9
<1>3. last \in S
  <2>1. last \in Nat
    OBVIOUS
  <2> HIDE DEF S, last
  <2>2. 0..last \subseteq S
    BY <1>1, <1>2, <2>1, UpTo
  <2>3. QED BY <2>1, <2>2
<1>4. PICK f : Solves(f, last)
  BY <1>3
<1>5. low(last) = 1
  OBVIOUS
<1> HIDE DEF low, last
<1>6. Gathered(n, m, head, step, stop, f)
  BY <1>4, <1>5 DEF Gathered, Onward
<1>7. QED BY <1>6

LEMMA GatheredIsSeq ==
  ASSUME NEW X, NEW n \in Nat, NEW m \in Nat, m > 0, NEW head, NEW stop,
         NEW step, \A i \in 1..n : i \notin stop => step[i] \in 1..m,
         \A i \in 1..n : i \notin stop => head[i] \in Seq(X),
         NEW f, Gathered(n, m, head, step, stop, f)
  PROVE  \A i \in 1..(n + m) : f[i] \in Seq(X)
<1> DEFINE last == n + m - 1
           S == {k \in 0..last : \A i \in (n + m - k)..(n + m) : f[i] \in Seq(X)}
<1>0. last \in Nat
  OBVIOUS
<1>1. ASSUME NEW i \in 1..(n + m), \A j \in (i + 1)..(n + m) : f[j] \in Seq(X)
      PROVE  f[i] \in Seq(X)
  <2>1. f[i] = IF i > n \/ i \in stop THEN <<>> ELSE head[i] \o f[i + step[i]]
    BY DEF Gathered
  <2>2. CASE i > n \/ i \in stop
    BY <2>1, <2>2
  <2>3. CASE ~(i > n \/ i \in stop)
    <3>1. i \in 1..n /\ i \notin stop
      BY <2>3
    <3>2. step[i] \in 1..m /\ head[i] \in Seq(X)
      BY <3>1
    <3>3. i + step[i] \in (i + 1)..(n + m)
      BY <3>1, <3>2
    <3>4. f[i + step[i]] \in Seq(X)
      BY <1>1, <3>3
    <3>5. QED BY <2>1, <2>3, <3>2, <3>4, ConcatProperties
  <2>4. QED BY <2>2, <2>3
<1>2. 0 \in S
  <2>1. n + m \in 1..(n + m) /\ \A j \in (n + m + 1)..(n + m) : f[j] \in Seq(X)
    OBVIOUS
  <2>2. f[n + m] \in Seq(X)
    BY <1>1, <2>1
  <2>3. QED BY <1>0, <2>2
<1>3. ASSUME NEW k \in 0..(last - 1), k \in S PROVE k + 1 \in S
  <2> DEFINE i == n + m - (k + 1)
  <2>1. i \in 1..(n + m) /\ i + 1 = n + m - k /\ k + 1 \in 0..last
    BY <1>0
  <2>2. \A j \in (i + 1)..(n + m) : f[j] \in Seq(X)
    BY <1>3, <2>1
  <2>3. f[i] \in Seq(X)
    BY <1>1, <2>1, <2>2
  <2>4. \A j \in i..(n + m) : f[j] \in Seq(X)
    BY <2>1, <2>2, <2>3
  <2>5. QED BY <2>1, <2>4
<1>4. last \in S
  <2> HIDE DEF S, last
  <2>1. 0..last \subseteq S
    BY <1>0, <1>2, <1>3, UpTo
  <2>2. QED BY <1>0, <2>1
<1>5. n + m - last = 1
  OBVIOUS
<1>6. QED BY <1>4, <1>5

-----------------------------------------------------------------------------
(* The conversions of a whole value give texts.                              *)

AText(w) == \E X : w \in Seq(X)

LEMMA OneLetter ==
  ASSUME NEW X, NEW a \in X PROVE <<a>> \in Seq(X)
  OBVIOUS
LEMMA TwoLetters ==
  ASSUME NEW X, NEW a \in X, NEW b \in X PROVE <<a, b>> \in Seq(X)
  OBVIOUS

\* what convert_linefeeds writes for the letter i
LineLetter(v, lf, i) ==
  IF lf /\ v[i] = "\n" /\ (i = 1 \/ v[i - 1] # "\r") THEN <<"\r", "\n">> ELSE <<v[i]>>

LEMMA LinefeedsDefined ==
  ASSUME NEW v, NEW lf
  PROVE  Reading!ConvertLinefeeds(v, lf) =
           (CHOOSE upto : upto = [i \in 0..Len(v) |-> IF i = 0 THEN <<>>
                                                    ELSE upto[i - 1] \o LineLetter(v, lf, i)])[Len(v)]
  BY DEF Reading!ConvertLinefeeds, LineLetter

LEMMA LinefeedsText ==
  ASSUME NEW X, NEW v \in Seq(X), NEW lf
  PROVE  Reading!ConvertLinefeeds(v, lf) \in Seq(X \cup {"\r", "\n"})
<1> DEFINE Y == X \cup {"\r", "\n"}
           n == Len(v)
           p == [i \in 1..n |-> LineLetter(v, lf, i)]
           upto == CHOOSE upto : upto = [i \in 0..n |-> IF i = 0 THEN <<>>
                                                     ELSE upto[i - 1] \o LineLetter(v, lf, i)]
<1>1. Reading!ConvertLinefeeds(v, lf) = upto[n]
  BY LinefeedsDefined, Zenon
<1>2. n \in Nat
  OBVIOUS
<1>3. \A i \in 0..n : i # 0 => i \in 1..n
  BY <1>2
<1>4. ASSUME NEW f
      PROVE  Appended(n, p, f) <=>
             f = [i \in 0..n |-> IF i = 0 THEN <<>> ELSE f[i - 1] \o LineLetter(v, lf, i)]
  <2> DEFINE A(i) == IF i = 0 THEN <<>> ELSE f[i - 1] \o p[i]
             B(i) == IF i = 0 THEN <<>> ELSE f[i - 1] \o LineLetter(v, lf, i)
  <2>1. ASSUME NEW i \in 0..n PROVE A(i) = B(i)
    <3>1. CASE i = 0
      BY <3>1, Zenon
    <3>2. CASE i # 0
      BY <1>3, <3>2, Zenon
    <3>3. QED BY <3>1, <3>2
  <2>2. [i \in 0..n |-> A(i)] = [i \in 0..n |-> B(i)]
    BY <2>1, Zenon
  <2>3. QED BY <2>2, Zenon DEF Appended
<1>5. ASSUME NEW i \in 1..n PROVE p[i] \in Seq(Y)
  <2>1. v[i] \in Y /\ "\r" \in Y /\ "\n" \in Y
    <3>1. v[i] \in X
      BY ElementOfSeq, Zenon
    <3>2. QED BY <3>1, Zenon
  <2>2. <<v[i]>> \in Seq(Y) /\ <<"\r", "\n">> \in Seq(Y)
    BY <2>1, OneLetter, TwoLetters, Zenon
  <2>3. LineLetter(v, lf, i) \in Seq(Y)
    BY <2>2, Zenon DEF LineLetter
  <2>4. QED BY <2>3, Zenon
<1> HIDE DEF p, n, Y
<1>6. Appended(n, p, upto)
  <2>1. \E f : Appended(n, p, f)
    BY <1>2, AppendedSolved, Zenon
  <2>2. QED BY <1>4, <2>1, Zenon
<1> HIDE DEF upto
<1>7. upto[n] \in Seq(Y)
  <2>1. n \in 0..n
    BY <1>2
  <2>2. QED BY <1>2, <1>5, <1>6, <2>1, AppendedIsSeq, Zenon
<1>8. QED BY <1>1, <1>7, Zenon DEF Y

\* what convert_from_pgbinary makes of position i, and how far it goes
ByteAt(v, i) ==
  IF v[i] # "\\" THEN <<v[i]>> ELSE IF v[i + 1] = "\\" THEN <<"\\">>
  ELSE <<Reading!ConvFromOctal(v, i)>>
Ahead(v, i) == IF v[i] # "\\" THEN 1 ELSE IF v[i + 1] = "\\" THEN 2 ELSE 4
BytesFrom(v, f, i) ==
  IF i > Len(v) THEN <<>>
  ELSE IF v[i] # "\\" THEN <<v[i]>> \o f[i + 1]
  ELSE IF v[i + 1] = "\\" THEN <<"\\">> \o f[i + 2]
  ELSE <<Reading!ConvFromOctal(v, i)>> \o f[i + 4]

LEMMA PgbinaryDefined ==
  ASSUME NEW v
  PROVE  Reading!ConvertFromPgbinary(v) =
           (CHOOSE from : from = [i \in 1..Len(v) + 4 |-> BytesFrom(v, from, i)])[1]
  BY DEF Reading!ConvertFromPgbinary, BytesFrom

LEMMA PgbinaryText ==
  ASSUME NEW X, NEW v \in Seq(X)
  PROVE  AText(Reading!ConvertFromPgbinary(v))
<1> DEFINE n == Len(v)
           head == [i \in 1..n |-> ByteAt(v, i)]
           step == [i \in 1..n |-> Ahead(v, i)]
           from == CHOOSE from : from = [i \in 1..Len(v) + 4 |-> BytesFrom(v, from, i)]
           Y == {v[i] : i \in 1..n} \cup {"\\"} \cup {Reading!ConvFromOctal(v, i) : i \in 1..n}
<1>1. Reading!ConvertFromPgbinary(v) = from[1]
  BY PgbinaryDefined, Zenon
<1>2. n \in Nat /\ 4 \in Nat /\ 4 > 0 /\ 1 \in 1..n + 4
  OBVIOUS
<1>3. \A i \in 1..n + 4 : i <= n => i \in 1..n
  BY <1>2
<1>4. ASSUME NEW f
      PROVE  Gathered(n, 4, head, step, {}, f) <=> f = [i \in 1..n + 4 |-> BytesFrom(v, f, i)]
  <2> DEFINE A(i) == IF i > n \/ i \in {} THEN <<>> ELSE head[i] \o f[i + step[i]]
             B(i) == BytesFrom(v, f, i)
  <2>1. ASSUME NEW i \in 1..n + 4 PROVE A(i) = B(i)
    <3>1. CASE i > n
      BY <3>1, Zenon DEF BytesFrom
    <3>2. CASE ~(i > n)
      <4>1. i \in 1..n
        BY <1>2, <3>2
      <4>2. head[i] = ByteAt(v, i) /\ step[i] = Ahead(v, i)
        BY <4>1, Zenon
      <4> HIDE DEF n, head, step
      <4>3. A(i) = ByteAt(v, i) \o f[i + Ahead(v, i)]
        BY <3>2, <4>2, Zenon
      <4>4. ~(i > Len(v))
        BY <3>2, Zenon DEF n
      <4>5. BytesFrom(v, f, i) = ByteAt(v, i) \o f[i + Ahead(v, i)]
        <5>1. CASE v[i] # "\\"
          BY <4>4, <5>1, Zenon DEF BytesFrom, ByteAt, Ahead
        <5>2. CASE v[i] = "\\" /\ v[i + 1] = "\\"
          BY <4>4, <5>2, Zenon DEF BytesFrom, ByteAt, Ahead
        <5>3. CASE v[i] = "\\" /\ v[i + 1] # "\\"
          BY <4>4, <5>3, Zenon DEF BytesFrom, ByteAt, Ahead
        <5>4. QED BY <5>1, <5>2, <5>3, Zenon
      <4>6. QED BY <4>3, <4>5, Zenon
    <3>3. QED BY <3>1, <3>2, Zenon
  <2>2. [i \in 1..n + 4 |-> A(i)] = [i \in 1..n + 4 |-> B(i)]
    BY <2>1, Zenon
  <2>3. QED BY <2>2, Zenon DEF Gathered
<1>5. ASSUME NEW i \in 1..n PROVE head[i] \in Seq(Y)
  <2>1. v[i] \in Y /\ "\\" \in Y /\ Reading!ConvFromOctal(v, i) \in Y
    BY Zenon
  <2> HIDE DEF Y
  <2>2. <<v[i]>> \in Seq(Y) /\ <<"\\">> \in Seq(Y) /\ <<Reading!ConvFromOctal(v, i)>> \in Seq(Y)
    BY <2>1, OneLetter, Zenon
  <2>3. ByteAt(v, i) \in Seq(Y)
    BY <2>2, Zenon DEF ByteAt
  <2>4. QED BY <2>3, Zenon
<1>6. ASSUME NEW i \in 1..n PROVE step[i] \in 1..4
  <2>1. Ahead(v, i) \in 1..4
    <3>1. Ahead(v, i) = 1 \/ Ahead(v, i) = 2 \/ Ahead(v, i) = 4
      BY Zenon DEF Ahead
    <3>2. QED BY <3>1
  <2>2. QED BY <2>1, Zenon
<1> HIDE DEF head, step, n, Y
<1>7. Gathered(n, 4, head, step, {}, from)
  <2>1. \E f : Gathered(n, 4, head, step, {}, f)
    BY <1>2, <1>6, GatheredSolved, Zenon
  <2>2. QED BY <1>4, <2>1, Zenon DEF n
<1> HIDE DEF from
<1>8. from[1] \in Seq(Y)
  BY <1>2, <1>5, <1>6, <1>7, GatheredIsSeq, Zenon
<1>9. QED BY <1>1, <1>8, Zenon DEF AText

LEMMA Bin2HexText ==
  ASSUME NEW w, AText(w)
  PROVE  AText(Reading!Bin2Hex(w))
<1> DEFINE L(i) == <<w[(i + 1) \div 2], IF i % 2 = 1 THEN "high" ELSE "low">>
           n == 2 * Len(w)
           Y == {L(i) : i \in 1..n}
<1>1. Reading!Bin2Hex(w) = [i \in 1..n |-> L(i)]
  BY Zenon DEF Reading!Bin2Hex
<1>2. n \in Nat
  BY DEF AText
<1>3. \A i \in 1..n : L(i) \in Y
  BY Zenon
<1> HIDE DEF L, Y, n
<1>4. [i \in 1..n |-> L(i)] \in [1..n -> Y]
  BY <1>3, Zenon
<1>5. [i \in 1..n |-> L(i)] \in Seq(Y)
  BY <1>2, <1>4, SeqDef
<1>6. QED BY <1>1, <1>5, Zenon DEF AText

LEMMA WholeText ==
  ASSUME NEW X, NEW v \in Seq(X), NEW ftype, NEW ctype
  PROVE  AText(Reading!Whole(ftype, ctype, v))
<1>1. AText(Reading!ConvertLinefeeds(v, row.lf))
  BY LinefeedsText, Zenon DEF AText
<1>2. AText(Reading!ConvertFromPgbinary(v)) /\ AText(Reading!Bin2Hex(Reading!ConvertFromPgbinary(v)))
  BY PgbinaryText, Bin2HexText, Zenon
<1>3. QED BY <1>1, <1>2, Zenon DEF Reading!Whole

-----------------------------------------------------------------------------
(* Pieces of a text.                                                         *)

LEMMA FirstPiece ==
  ASSUME NEW X, NEW w \in Seq(X), NEW n \in 0..Len(w)
  PROVE  /\ Reading!FirstUnits(w, n) \in Seq(X) /\ Len(Reading!FirstUnits(w, n)) = n
         /\ Reading!FirstUnits(w, 0) = <<>> /\ Reading!FirstUnits(w, Len(w)) = w
<1>1. n \in Nat /\ Len(w) \in Nat /\ n <= Len(w)
  OBVIOUS
<1>2. SubSeq(w, 1, n) \in Seq(X) /\ Len(SubSeq(w, 1, n)) = n
  BY <1>1, SubSeqProperties
<1>3. SubSeq(w, 1, 0) = <<>> /\ SubSeq(w, 1, Len(w)) = w
  BY SubSeqEmpty, SubSeqFull
<1>4. QED BY <1>2, <1>3, Zenon DEF Reading!FirstUnits

LEMMA LastPiece ==
  ASSUME NEW X, NEW w \in Seq(X), NEW m \in 0..Len(w), NEW k \in 0..m
  PROVE  /\ Reading!LastUnits(w, m) \in Seq(X) /\ Len(Reading!LastUnits(w, m)) = m
         /\ Reading!FirstUnits(w, Len(w) - m) \o Reading!FirstUnits(Reading!LastUnits(w, m), k)
              = Reading!FirstUnits(w, Len(w) - m + k)
<1> DEFINE n == Len(w) - m
           l == SubSeq(w, n + 1, Len(w))
<1>1. n \in Nat /\ n + 1 \in Nat /\ m \in Nat /\ k \in Nat /\ Len(w) \in Nat /\ n <= Len(w) /\ n + m = Len(w)
  OBVIOUS
<1>2. Reading!LastUnits(w, m) = l
  BY Zenon DEF Reading!LastUnits
<1>3. l \in Seq(X) /\ Len(l) = m /\ \A i \in 1..m : l[i] = w[n + i]
  BY <1>1, SubSeqProperties
<1>4. SubSeq(l, 1, k) = SubSeq(w, n + 1, n + k)
  <2>1. SubSeq(l, 1, k) \in Seq(X) /\ Len(SubSeq(l, 1, k)) = k /\ \A i \in 1..k : SubSeq(l, 1, k)[i] = l[i]
    BY <1>1, <1>3, SubSeqProperties
  <2>2. /\ SubSeq(w, n + 1, n + k) \in Seq(X) /\ Len(SubSeq(w, n + 1, n + k)) = k
        /\ \A i \in 1..k : SubSeq(w, n + 1, n + k)[i] = w[n + i]
    BY <1>1, SubSeqProperties
  <2>3. \A i \in 1..k : SubSeq(l, 1, k)[i] = SubSeq(w, n + 1, n + k)[i]
    <3>1. \A i \in 1..k : i \in 1..m
      BY <1>1
    <3>2. QED BY <1>3, <2>1, <2>2, <3>1, Zenon
  <2> HIDE DEF l, n
  <2>4. QED BY <2>1, <2>2, <2>3, SeqEqual
<1>5. SubSeq(w, 1, n) \o SubSeq(w, n + 1, n + k) = SubSeq(w, 1, n + k)
  <2>1. 1 \in 1..Len(w) + 1 /\ n \in (1 - 1)..Len(w) /\ n + k \in n..Len(w)
    BY <1>1
  <2> HIDE DEF n
  <2>2. QED BY <2>1, ConcatAdjacentSubSeq, Zenon
<1>6. QED
  BY <1>2, <1>3, <1>4, <1>5, Zenon DEF Reading!FirstUnits

\* a piece is of whole units; what fits with a terminator is all of it
LEMMA PieceUnits ==
  ASSUME NEW ctype \in {"CHAR", "WCHAR", "BINARY"}, NEW m \in Nat, NEW cb \in Nat \ {0}
  PROVE  LET U == Reading!Unit(ctype)
         IN \E k \in 0..m : /\ Reading!CopyLen(ctype, U * m, cb) = U * k
                            /\ U * m + Reading!Terminator(ctype) <= cb => k = m
<1>1. CASE ctype = "CHAR"
  <2>1. Reading!Unit(ctype) = 1 /\ Reading!Terminator(ctype) = 1
    BY <1>1 DEF Reading!Unit, Reading!Terminator
  <2>2. Reading!CopyLen(ctype, m, cb) = IF m >= cb THEN cb - 1 ELSE m
    BY <1>1, <2>1 DEF Reading!CopyLen
  <2>3. QED BY <2>1, <2>2
<1>2. CASE ctype = "BINARY"
  <2>1. Reading!Unit(ctype) = 1 /\ Reading!Terminator(ctype) = 0
    BY <1>2 DEF Reading!Unit, Reading!Terminator
  <2>2. Reading!CopyLen(ctype, m, cb) = IF m > cb THEN cb ELSE m
    BY <1>2, <2>1 DEF Reading!CopyLen
  <2>3. QED BY <2>1, <2>2
<1>3. CASE ctype = "WCHAR"
  <2>1. Reading!Unit(ctype) = 2 /\ Reading!Terminator(ctype) = 2
    BY <1>3 DEF Reading!Unit, Reading!Terminator
  <2> DEFINE room == IF 2 * m >= cb THEN cb - 1 ELSE 2 * m
             k == room \div 2
  <2>2. Reading!CopyLen(ctype, 2 * m, cb) = 2 * k
    BY <1>3, <2>1 DEF Reading!CopyLen
  <2>3. k \in 0..m /\ (2 * m + 2 <= cb => k = m)
    OBVIOUS
  <2>4. QED BY <2>1, <2>2, <2>3
<1>4. QED BY <1>1, <1>2, <1>3

-----------------------------------------------------------------------------
(* What is delivered and what is left.                                       *)



GDataOK(g) ==
  /\ g = [left |-> g.left, buf |-> g.buf, size |-> g.size, used |-> g.used]
  /\ g.left \in Int /\ g.size \in Nat /\ g.used \in Nat

\* the first n units were delivered before a call, the rest is in the buffer
BegunReading(g, ftype, ctype, whole, n) ==
  \/ n = 0 /\ g.left = -1
  \/ /\ g.left > 0 /\ g.left = Reading!Unit(ctype) * (Len(whole) - n) /\ g.buf = whole
     /\ Reading!TextHandling(ftype, ctype) => g.size - g.used >= Reading!Terminator(ctype)

\* what a call delivers of it: nothing yet, a piece, or the rest - or, when it
\* asks for a length in the middle, none of the rest
Delivers(a, g, ftype, ctype, whole, n, cb) ==
  \/ a.ret = "TRUNCATED" /\ a.gd = g /\ a.data = <<>> /\ g.left = -1
  \/ \E k \in 0..(Len(whole) - n) :
       /\ GDataOK(a.gd)
       /\ a.data = Reading!FirstUnits(Reading!LastUnits(whole, Len(whole) - n), k)
       /\ \/ /\ a.ret = "TRUNCATED" /\ a.gd.buf = whole
             /\ a.gd.left = Reading!Unit(ctype) * (Len(whole) - n - k)
             /\ Reading!TextHandling(ftype, ctype)
                  => a.gd.size - a.gd.used >= Reading!Terminator(ctype)
          \/ /\ a.ret = "OK" /\ a.gd.left = 0
             /\ k = Len(whole) - n \/ (cb = 0 /\ g.left # -1)

LEMMA UnitKnown ==
  ASSUME NEW ctype \in {"CHAR", "WCHAR", "BINARY"}
  PROVE  Reading!Unit(ctype) \in {1, 2} /\ Reading!Terminator(ctype) \in {0, 1, 2}
  BY DEF Reading!Unit, Reading!Terminator

LEMMA Multiples ==
  ASSUME NEW U \in {1, 2}, NEW m \in Int, NEW k \in Int
  PROVE  /\ U * m \in Int /\ (U * m) \div U = m /\ U * m - U * k = U * (m - k)
         /\ (m >= 0 <=> U * m >= 0) /\ (m > 0 <=> U * m > 0)
<1>1. CASE U = 1
  BY <1>1
<1>2. CASE U = 2
  BY <1>2
<1>3. QED BY <1>1, <1>2

BufferReady(b, ctype, whole, cb) ==
  /\ GDataOK(b) /\ b.left = -1
  /\ \/ b.buf = whole /\ b.size - b.used >= Reading!Terminator(ctype)
     \/ b.buf = Reading!NoBuf /\ Reading!NeededAtFirst(ctype, whole) <= cb

LEMMA BufferedHolds ==
  ASSUME NEW g, GDataOK(g), NEW ctype \in {"CHAR", "WCHAR", "BINARY"}, NEW v, NEW whole, AText(whole),
         NEW cb \in Nat, NEW converted \in BOOLEAN
  PROVE  BufferReady(Reading!Buffered(g, ctype, v, whole, cb, converted), ctype, whole, cb)
<1> DEFINE m == Reading!Unit(ctype) * Len(whole)
           needed == Reading!NeededAtFirst(ctype, whole)
           b == Reading!Buffered(g, ctype, v, whole, cb, converted)
           size == Reading!Largest(IF g.buf = Reading!NoBuf THEN 0 ELSE g.size, needed)
<1>1. Len(whole) \in Nat
  BY DEF AText
<1>2. m \in Nat /\ needed = m + Reading!Terminator(ctype) /\ needed \in Nat
  BY <1>1, UnitKnown DEF Reading!NeededAtFirst
<1>3. size \in Nat /\ size >= needed
  <2> HIDE DEF needed
  <2>1. QED BY <1>2 DEF Reading!Largest, GDataOK
<1>4. CASE converted \/ whole # v \/ needed > cb
  <2>1. b = [left |-> -1, buf |-> whole, used |-> m, size |-> size]
    BY <1>4, Zenon DEF Reading!Buffered
  <2> HIDE DEF b, m, needed, size
  <2>2. QED BY <1>2, <1>3, <2>1, UnitKnown DEF GDataOK, b, BufferReady
<1>5. CASE ~(converted \/ whole # v \/ needed > cb)
  <2>1. b = [Reading!FreshGData EXCEPT !.used = g.used]
    BY <1>5, Zenon DEF Reading!Buffered
  <2>2. b = [left |-> -1, buf |-> Reading!NoBuf, size |-> 0, used |-> g.used]
    BY <2>1 DEF Reading!FreshGData
  <2> HIDE DEF b, m, needed, size
  <2>3. QED BY <1>2, <1>5, <2>2 DEF GDataOK, b, needed, BufferReady
<1>6. QED BY <1>4, <1>5

LEMMA AtTheEnd ==
  ASSUME NEW g, GDataOK(g), NEW B
  PROVE  GDataOK([g EXCEPT !.left = 0, !.buf = B]) /\ [g EXCEPT !.left = 0, !.buf = B].left = 0
<1> DEFINE g1 == [g EXCEPT !.left = 0]
           g2 == [g1 EXCEPT !.buf = B]
<1>1. [g EXCEPT !.left = 0, !.buf = B] = g2
  OBVIOUS
<1>2. g1 = [left |-> 0, buf |-> g.buf, size |-> g.size, used |-> g.used]
  BY DEF GDataOK
<1> HIDE DEF g1
<1>3. g2 = [left |-> 0, buf |-> B, size |-> g.size, used |-> g.used]
  BY <1>2
<1> HIDE DEF g2
<1>4. GDataOK(g2) /\ g2.left = 0
  BY <1>3 DEF GDataOK
<1>5. QED BY <1>1, <1>4, Zenon

LEMMA RoomAtLeast ==
  ASSUME NEW l \in Int, NEW size \in Nat, NEW used \in Nat, NEW t \in Int, NEW needed,
         needed = l + size - used, size - used >= t
  PROVE  needed >= l + t
  OBVIOUS

\* the text handling is on for these C types only
LEMMA TextDelivers ==
  ASSUME NEW ftype, NEW ctype \in {"CHAR", "WCHAR", "BINARY"}, Reading!TextHandling(ftype, ctype),
         NEW v \in Seq(STRING), NEW cb \in Nat, NEW g, GDataOK(g),
         NEW n \in 0..Len(Reading!Whole(ftype, ctype, v)),
         BegunReading(g, ftype, ctype, Reading!Whole(ftype, ctype, v), n)
  PROVE  Delivers(Reading!TextPiece(g, ftype, ctype, v, cb), g, ftype, ctype,
                  Reading!Whole(ftype, ctype, v), n, cb)
<1> DEFINE whole == Reading!Whole(ftype, ctype, v)
           U == Reading!Unit(ctype)
           begins == g.left < 0
           g1 == IF begins
                 THEN Reading!Buffered(g, ctype, v, whole, cb, ctype = "WCHAR" \/ ftype = "BYTEA")
                 ELSE g
           source == IF g1.buf = Reading!NoBuf THEN whole ELSE g1.buf
           len == IF g1.left > 0 THEN g1.left ELSE U * Len(source)
           needed == IF begins THEN Reading!NeededAtFirst(ctype, whole)
                     ELSE IF g1.left > 0 THEN len + g1.size - g1.used ELSE 0
           copied == IF cb > 0 THEN Reading!CopyLen(ctype, len, cb) ELSE 0
           data == Reading!FirstUnits(Reading!LastUnits(source, len \div U), copied \div U)
           g2 == [g1 EXCEPT !.left = len - copied]
           a == Reading!TextPiece(g, ftype, ctype, v, cb)
           m == Len(whole) - n
<1>1. a = IF begins /\ cb = 0 THEN Reading!Answer("TRUNCATED", U * Len(whole), <<>>, g)
          ELSE IF cb > 0 /\ needed > cb THEN Reading!Answer("TRUNCATED", len, data, g2)
          ELSE Reading!Answer("OK", len, data, [g2 EXCEPT !.left = 0, !.buf = Reading!NoBuf])
  BY Zenon DEF Reading!TextPiece
<1>2. AText(whole)
  BY WholeText, Zenon
<1>3. Len(whole) \in Nat /\ m \in Nat /\ U \in {1, 2} /\ Reading!Terminator(ctype) \in {0, 1, 2}
  BY <1>2, UnitKnown DEF AText
<1> HIDE DEF whole, U, a
<1>4. GDataOK(g1) /\ g1.left = g.left
      /\ \/ g1.buf = whole /\ g1.size - g1.used >= Reading!Terminator(ctype)
         \/ begins /\ g1.buf = Reading!NoBuf /\ Reading!NeededAtFirst(ctype, whole) <= cb
  <2>1. CASE begins
    <3>1. g.left = -1 /\ n = 0
      BY <2>1 DEF BegunReading, GDataOK, whole
    <3>2. (ctype = "WCHAR" \/ ftype = "BYTEA") \in BOOLEAN
      OBVIOUS
    <3>3. g1 = Reading!Buffered(g, ctype, v, whole, cb, ctype = "WCHAR" \/ ftype = "BYTEA")
      BY <2>1, Zenon
    <3> HIDE DEF g1
    <3>6. BufferReady(g1, ctype, whole, cb)
      BY <1>2, <3>2, <3>3, BufferedHolds
    <3>4. /\ GDataOK(g1) /\ g1.left = -1
          /\ \/ g1.buf = whole /\ g1.size - g1.used >= Reading!Terminator(ctype)
             \/ g1.buf = Reading!NoBuf /\ Reading!NeededAtFirst(ctype, whole) <= cb
      BY <3>6, Zenon DEF BufferReady
    <3>5. QED BY <2>1, <3>1, <3>4, Zenon
  <2>2. CASE ~begins
    <3>1. g1 = g
      BY <2>2, Zenon
    <3>2. g.buf = whole /\ g.size - g.used >= Reading!Terminator(ctype)
      BY <2>2 DEF BegunReading, GDataOK, whole
    <3> HIDE DEF g1
    <3>3. QED BY <3>1, <3>2
  <2>3. QED BY <2>1, <2>2, Zenon
<1>5. source = whole
  BY <1>4, Zenon
<1>6. len = U * m
  <2>1. CASE begins
    <3>1. g.left = -1 /\ n = 0
      BY <2>1 DEF BegunReading, GDataOK, whole
    <3>2. m = Len(whole) /\ ~(g1.left > 0)
      <4> HIDE DEF g1
      <4>1. QED BY <1>3, <1>4, <3>1
    <3> HIDE DEF g1, source, m
    <3>3. QED BY <1>5, <3>2, Zenon
  <2>2. CASE ~begins
    <3>1. g.left > 0 /\ g.left = U * (Len(whole) - n)
      BY <2>2 DEF BegunReading, GDataOK, whole, U
    <3>2. g1.left > 0
      <4> HIDE DEF g1
      <4>1. QED BY <1>4, <3>1
    <3> HIDE DEF g1, source
    <3>3. QED BY <1>4, <3>1, <3>2, Zenon
  <2>3. QED BY <2>1, <2>2, Zenon
<1>7. len \in Int /\ len \div U = m
  <2> HIDE DEF len, m
  <2>1. m \in Int
    BY <1>3
  <2>2. QED BY <1>3, <1>6, <2>1, Multiples
<1>8. CASE begins /\ cb = 0
  <2>1. a = [ret |-> "TRUNCATED", len |-> U * Len(whole), data |-> <<>>, gd |-> g]
    BY <1>1, <1>8, Zenon DEF Reading!Answer
  <2>2. g.left = -1
    BY <1>8 DEF BegunReading, GDataOK, whole
  <2>3. a.ret = "TRUNCATED" /\ a.gd = g /\ a.data = <<>>
    BY <2>1
  <2>4. QED BY <2>2, <2>3, Zenon DEF Delivers, a
<1>9. CASE ~(begins /\ cb = 0)
  <2>1. PICK k \in 0..m : /\ copied = U * k
                          /\ cb > 0 /\ U * m + Reading!Terminator(ctype) <= cb => k = m
    <3> HIDE DEF m, len
    <3>1. CASE cb > 0
      <4>1. cb \in Nat \ {0}
        BY <3>1
      <4>2. \E k \in 0..m : /\ Reading!CopyLen(ctype, U * m, cb) = U * k
                            /\ U * m + Reading!Terminator(ctype) <= cb => k = m
        BY <1>3, <4>1, PieceUnits, Zenon DEF U
      <4>3. copied = Reading!CopyLen(ctype, U * m, cb)
        BY <1>6, <3>1, Zenon
      <4> HIDE DEF copied
      <4>4. QED BY <4>2, <4>3, Zenon
    <3>2. CASE ~(cb > 0)
      <4>1. copied = 0
        BY <3>2, Zenon
      <4>2. 0 \in 0..m /\ U * 0 = 0
        BY <1>3
      <4> HIDE DEF copied
      <4>3. QED BY <3>2, <4>1, <4>2
    <3>3. QED BY <3>1, <3>2, Zenon
  <2>2. copied \in Int /\ copied \div U = k /\ len - copied = U * (m - k)
    <3> HIDE DEF copied, len, m
    <3>1. k \in Int /\ m \in Int
      BY <1>3, <2>1
    <3>2. QED BY <1>3, <1>6, <2>1, <3>1, Multiples
  <2>3. data = Reading!FirstUnits(Reading!LastUnits(whole, m), k)
    <3> HIDE DEF source, copied, len, m
    <3>1. QED BY <1>5, <1>7, <2>2, Zenon
  <2>4. GDataOK(g2) /\ g2.left = U * (m - k) /\ g2.buf = g1.buf
        /\ g2.size = g1.size /\ g2.used = g1.used
    <3> HIDE DEF g1, copied, len, m
    <3>1. g2 = [left |-> len - copied, buf |-> g1.buf, size |-> g1.size, used |-> g1.used]
      BY <1>4 DEF GDataOK
    <3> HIDE DEF g2
    <3>2. len - copied \in Int
      BY <1>7, <2>2
    <3>3. QED BY <1>4, <2>2, <3>1, <3>2 DEF GDataOK
  <2> DEFINE g3 == [g2 EXCEPT !.left = 0, !.buf = Reading!NoBuf]
  <2>5. GDataOK(g3) /\ g3.left = 0
    <3> HIDE DEF g2
    <3>1. QED BY <2>4, AtTheEnd, Zenon
  <2> HIDE DEF g2, g3, data, copied
  <2>6. CASE cb > 0 /\ needed > cb
    <3>1. a = [ret |-> "TRUNCATED", len |-> len, data |-> data, gd |-> g2]
      BY <1>1, <1>9, <2>6, Zenon DEF Reading!Answer
    <3>2. a.ret = "TRUNCATED" /\ a.gd = g2 /\ a.data = data
      <4> HIDE DEF len
      <4>1. QED BY <3>1
    <3>3. g1.buf = whole /\ g1.size - g1.used >= Reading!Terminator(ctype)
      <4>1. CASE begins /\ g1.buf = Reading!NoBuf /\ Reading!NeededAtFirst(ctype, whole) <= cb
        <5>1. needed = Reading!NeededAtFirst(ctype, whole)
          BY <4>1, Zenon
        <5>2. Reading!NeededAtFirst(ctype, whole) \in Int
          <6>1. U * Len(whole) \in Int
            BY <1>3, Multiples
          <6>2. QED BY <1>3, <6>1 DEF Reading!NeededAtFirst, U
        <5> HIDE DEF needed, g1
        <5>3. FALSE
          BY <2>6, <4>1, <5>1, <5>2
        <5>4. QED BY <5>3
      <4> HIDE DEF g1
      <4>2. QED BY <1>4, <4>1, Zenon
    <3>4. U * (m - k) = U * (Len(whole) - n - k)
      OBVIOUS
    <3> HIDE DEF g1, m, len, needed
    <3>5. GDataOK(a.gd) /\ a.gd.buf = whole /\ a.gd.left = U * (Len(whole) - n - k)
          /\ a.gd.size - a.gd.used >= Reading!Terminator(ctype)
      BY <2>4, <3>2, <3>3, <3>4
    <3>6. a.data = Reading!FirstUnits(Reading!LastUnits(whole, m), k)
      BY <2>3, <3>2, Zenon
    <3>7. QED BY <2>1, <3>2, <3>5, <3>6, Zenon DEF Delivers, a, m, whole, U
  <2>7. CASE ~(cb > 0 /\ needed > cb)
    <3>1. a = [ret |-> "OK", len |-> len, data |-> data, gd |-> g3]
      BY <1>1, <1>9, <2>7, Zenon DEF Reading!Answer, g3
    <3>2. a.ret = "OK" /\ a.gd = g3 /\ a.data = data
      <4> HIDE DEF len
      <4>1. QED BY <3>1
    <3>3. k = m \/ (cb = 0 /\ g.left # -1)
      <4>1. CASE cb = 0
        <5>1. ~begins
          BY <1>9, <4>1
        <5>2. QED BY <4>1, <5>1
      <4>2. CASE cb > 0
        <5>6. needed \in Int
          <6>1. CASE begins
            <7>1. U * Len(whole) \in Int
              BY <1>3, Multiples
            <7>2. Reading!NeededAtFirst(ctype, whole) \in Int
              BY <1>3, <7>1 DEF Reading!NeededAtFirst, U
            <7>3. QED BY <6>1, <7>2, Zenon
          <6>2. CASE ~begins
            <7> HIDE DEF g1, len
            <7>1. len + g1.size - g1.used \in Int
              BY <1>4, <1>7 DEF GDataOK
            <7>2. needed = len + g1.size - g1.used \/ needed = 0
              BY <6>2, Zenon
            <7> HIDE DEF needed
            <7>3. QED BY <7>1, <7>2
          <6>3. QED BY <6>1, <6>2, Zenon
        <5>1. needed <= cb
          <6> HIDE DEF needed
          <6>1. QED BY <2>7, <4>2, <5>6
        <5>2. needed >= U * m + Reading!Terminator(ctype)
          <6>1. CASE begins
            <7>1. g.left = -1 /\ n = 0
              BY <6>1 DEF BegunReading, GDataOK, whole
            <7>2. needed = Reading!NeededAtFirst(ctype, whole)
              BY <6>1, Zenon
            <7>3. U * m = U * Len(whole) /\ U * Len(whole) \in Int
              BY <1>3, <7>1, Multiples
            <7> HIDE DEF needed, m
            <7>4. QED BY <1>3, <7>2, <7>3 DEF Reading!NeededAtFirst, U
          <6>2. CASE ~begins
            <7>1. g1 = g /\ g.left > 0
              <8>1. g1 = g
                BY <6>2, Zenon
              <8>2. g.left > 0
                BY <6>2 DEF BegunReading, GDataOK, whole
              <8>3. QED BY <8>1, <8>2
            <7>2. needed = len + g.size - g.used
              <8> HIDE DEF len
              <8>1. QED BY <6>2, <7>1, Zenon
            <7>3. g.size - g.used >= Reading!Terminator(ctype)
              BY <6>2 DEF BegunReading, GDataOK, whole
            <7>4. /\ len \in Int /\ g.size \in Nat /\ g.used \in Nat
                  /\ Reading!Terminator(ctype) \in Int
              BY <1>3, <1>7 DEF GDataOK
            <7> HIDE DEF needed, m, len, g1
            <7>5. needed >= len + Reading!Terminator(ctype)
              BY <7>2, <7>3, <7>4, RoomAtLeast
            <7>6. QED BY <1>6, <7>5, Zenon
          <6>3. QED BY <6>1, <6>2, Zenon
        <5>3. U * m \in Int
          BY <1>3, Multiples
        <5> HIDE DEF needed, m
        <5>4. U * m + Reading!Terminator(ctype) <= cb
          BY <1>3, <5>1, <5>2, <5>3, <5>6
        <5>5. QED BY <2>1, <4>2, <5>4
      <4>3. QED BY <4>1, <4>2
    <3> HIDE DEF g1, m, len, needed
    <3>4. GDataOK(a.gd) /\ a.gd.left = 0
      BY <2>5, <3>2, Zenon
    <3>5. a.data = Reading!FirstUnits(Reading!LastUnits(whole, m), k)
      BY <2>3, <3>2, Zenon
    <3>6. QED BY <2>1, <3>2, <3>3, <3>4, <3>5, Zenon DEF Delivers, a, m, whole, U
  <2>8. QED BY <2>6, <2>7, Zenon
<1>10. QED BY <1>8, <1>9, Zenon

LEMMA BytesDeliver ==
  ASSUME NEW ftype, ~Reading!TextHandling(ftype, "BINARY"), ftype = "BYTEA",
         NEW v \in Seq(STRING), NEW cb \in Nat, NEW g, GDataOK(g),
         NEW n \in 0..Len(Reading!Whole(ftype, "BINARY", v)),
         BegunReading(g, ftype, "BINARY", Reading!Whole(ftype, "BINARY", v), n)
  PROVE  Delivers(Reading!BytesPiece(g, v, cb), g, ftype, "BINARY",
                  Reading!Whole(ftype, "BINARY", v), n, cb)
<1> DEFINE whole == Reading!Whole(ftype, "BINARY", v)
           bytes == Reading!ConvertFromPgbinary(v)
           begins == g.left < 0
           size == IF g.buf = Reading!NoBuf THEN 0 ELSE g.size
           g1 == IF begins THEN [left |-> -1, buf |-> bytes, used |-> Len(bytes),
                                size |-> Reading!Largest(size, Len(v) + 1)]
                 ELSE g
           len == IF g1.left > 0 THEN g1.left ELSE g1.used
           copied == IF cb = 0 THEN 0 ELSE Reading!CopyLen("BINARY", len, cb)
           g2 == [g1 EXCEPT !.left = len - copied]
           a == Reading!BytesPiece(g, v, cb)
           m == Len(whole) - n
<1>1. a = IF begins /\ cb = 0 THEN Reading!Answer("TRUNCATED", Len(bytes), <<>>, g)
          ELSE IF len > cb
               THEN Reading!Answer("TRUNCATED", len,
                      Reading!FirstUnits(Reading!LastUnits(g1.buf, len), copied), g2)
               ELSE Reading!Answer("OK", len, Reading!LastUnits(g1.buf, len),
                                   [g2 EXCEPT !.left = 0, !.buf = Reading!NoBuf])
  BY Zenon DEF Reading!BytesPiece
<1>2. bytes = whole
  BY DEF Reading!Whole
<1>3. AText(whole)
  BY WholeText, Zenon
<1>4. Len(whole) \in Nat /\ m \in Nat
  BY <1>3 DEF AText
<1>5. Reading!Unit("BINARY") = 1
  BY DEF Reading!Unit
<1> HIDE DEF whole, a, bytes
<1>6. GDataOK(g1) /\ g1.buf = whole /\ len = m
  <2>1. CASE begins
    <3>1. n = 0 /\ m = Len(whole)
      BY <1>4, <2>1 DEF BegunReading, GDataOK, whole
    <3>2. g1 = [left |-> -1, buf |-> bytes, used |-> Len(bytes),
                size |-> Reading!Largest(size, Len(v) + 1)]
      BY <2>1, Zenon
    <3>3. Reading!Largest(size, Len(v) + 1) \in Nat
      <4>1. Len(v) + 1 \in Nat
        OBVIOUS
      <4>2. QED BY <4>1 DEF Reading!Largest, GDataOK
    <3> HIDE DEF g1, size
    <3>4. QED BY <1>2, <1>4, <3>1, <3>2, <3>3 DEF GDataOK
  <2>2. CASE ~begins
    <3>1. g1 = g
      BY <2>2, Zenon
    <3>2. g.left > 0 /\ g.buf = whole /\ g.left = 1 * (Len(whole) - n)
      BY <1>5, <2>2 DEF BegunReading, GDataOK, whole
    <3>3. g.left = m
      BY <1>4, <3>2
    <3>4. QED BY <3>1, <3>2, <3>3
  <2>3. QED BY <2>1, <2>2
<1>7. CASE begins /\ cb = 0
  <2>1. a = [ret |-> "TRUNCATED", len |-> Len(bytes), data |-> <<>>, gd |-> g]
    BY <1>1, <1>7, Zenon DEF Reading!Answer
  <2>2. g.left = -1
    BY <1>7 DEF BegunReading, GDataOK, whole
  <2>3. a.ret = "TRUNCATED" /\ a.gd = g /\ a.data = <<>>
    BY <2>1
  <2>4. QED BY <2>2, <2>3, Zenon DEF Delivers, a
<1>8. CASE ~(begins /\ cb = 0)
  <2>1. PICK k \in 0..m : copied = k
    <3> HIDE DEF len, m, g1
    <3>1. CASE cb = 0
      BY <1>4, <3>1
    <3>2. CASE cb # 0
      <4>1. cb \in Nat \ {0}
        BY <3>2
      <4>2. \E k \in 0..m : Reading!CopyLen("BINARY", 1 * m, cb) = 1 * k
        <5>1. "BINARY" \in {"CHAR", "WCHAR", "BINARY"}
          OBVIOUS
        <5>2. \E k \in 0..m : /\ Reading!CopyLen("BINARY", Reading!Unit("BINARY") * m, cb)
                                   = Reading!Unit("BINARY") * k
                              /\ Reading!Unit("BINARY") * m + Reading!Terminator("BINARY") <= cb => k = m
          BY <1>4, <4>1, <5>1, PieceUnits, Zenon
        <5>3. QED BY <1>5, <5>2, Zenon
      <4>3. PICK k \in 0..m : Reading!CopyLen("BINARY", 1 * m, cb) = 1 * k
        BY <4>2
      <4>4. 1 * m = m /\ 1 * k = k
        BY <1>4, <4>3
      <4>5. copied = k
        BY <1>6, <3>2, <4>3, <4>4, Zenon
      <4>6. QED BY <4>5, Zenon
    <3>3. QED BY <3>1, <3>2
  <2> HIDE DEF len, m, g1, copied
  <2>2. GDataOK(g2) /\ g2.left = m - k /\ g2.buf = whole
    <3>1. g2 = [left |-> len - copied, buf |-> g1.buf, size |-> g1.size, used |-> g1.used]
      BY <1>6 DEF GDataOK
    <3> HIDE DEF g2
    <3>2. len - copied \in Int /\ len - copied = m - k
      BY <1>4, <1>6, <2>1
    <3>3. QED BY <1>6, <3>1, <3>2 DEF GDataOK
  <2> DEFINE g3 == [g2 EXCEPT !.left = 0, !.buf = Reading!NoBuf]
  <2>3. GDataOK(g3) /\ g3.left = 0
    BY <2>2, AtTheEnd, Zenon
  <2> HIDE DEF g2, g3
  <2>4. CASE len > cb
    <3>1. a = [ret |-> "TRUNCATED", len |-> len,
               data |-> Reading!FirstUnits(Reading!LastUnits(g1.buf, len), copied), gd |-> g2]
      BY <1>1, <1>8, <2>4, Zenon DEF Reading!Answer
    <3>2. a.ret = "TRUNCATED" /\ a.gd = g2
          /\ a.data = Reading!FirstUnits(Reading!LastUnits(g1.buf, len), copied)
      BY <3>1
    <3>3. a.data = Reading!FirstUnits(Reading!LastUnits(whole, m), k)
      BY <1>6, <2>1, <3>2, Zenon
    <3>4. m - k = Reading!Unit("BINARY") * (m - k)
      BY <1>4, <1>5, <2>1
    <3>5. QED BY <2>1, <2>2, <3>2, <3>3, <3>4, Zenon DEF Delivers, a, m, whole
  <2>5. CASE ~(len > cb)
    <3>1. a = [ret |-> "OK", len |-> len, data |-> Reading!LastUnits(g1.buf, len), gd |-> g3]
      BY <1>1, <1>8, <2>5, Zenon DEF Reading!Answer, g3
    <3>2. a.ret = "OK" /\ a.gd = g3 /\ a.data = Reading!LastUnits(g1.buf, len)
      BY <3>1
    <3>3. Reading!LastUnits(whole, m) = Reading!FirstUnits(Reading!LastUnits(whole, m), m)
      <4>1. PICK X : whole \in Seq(X)
        BY <1>3 DEF AText
      <4>2. m \in 0..Len(whole) /\ m \in 0..m
        BY <1>4 DEF m, whole
      <4>3. Reading!LastUnits(whole, m) \in Seq(X) /\ Len(Reading!LastUnits(whole, m)) = m
        BY <4>1, <4>2, LastPiece, Zenon
      <4>4. QED BY <4>2, <4>3, FirstPiece
    <3>4. m \in 0..m
      BY <1>4
    <3>5. a.data = Reading!FirstUnits(Reading!LastUnits(whole, m), m)
      BY <1>6, <3>2, <3>3, Zenon
    <3>6. QED BY <2>3, <3>2, <3>4, <3>5, Zenon DEF Delivers, a, m, whole
  <2>6. QED BY <2>4, <2>5, Zenon
<1>9. QED BY <1>7, <1>8, Zenon

\* the call's outcome, seen from what the application has got so far
Arrived(a, g, ftype, ctype, whole, now, cb) ==
  /\ GDataOK(a.gd)
  /\ \/ a.ret = "TRUNCATED" /\ a.gd.left = -1 /\ now = <<>>
     \/ /\ a.ret = "TRUNCATED" /\ a.gd.left >= 0 /\ a.gd.buf = whole
        /\ a.gd.left = 0 => now = whole
        /\ \E j \in 0..Len(whole) : /\ now = Reading!FirstUnits(whole, j)
                                    /\ a.gd.left = Reading!Unit(ctype) * (Len(whole) - j)
        /\ Reading!TextHandling(ftype, ctype) => a.gd.size - a.gd.used >= Reading!Terminator(ctype)
     \/ a.ret = "OK" /\ a.gd.left = 0 /\ (now = whole \/ (cb = 0 /\ g.left # -1))

LEMMA DeliveredSoFar ==
  ASSUME NEW a, NEW g, NEW ftype, NEW ctype \in {"CHAR", "WCHAR", "BINARY"}, NEW whole, AText(whole),
         NEW n \in 0..Len(whole), NEW cb, GDataOK(g), Delivers(a, g, ftype, ctype, whole, n, cb),
         g.left = -1 => n = 0
  PROVE  Arrived(a, g, ftype, ctype, whole, Reading!FirstUnits(whole, n) \o a.data, cb)
<1> DEFINE now == Reading!FirstUnits(whole, n) \o a.data
           U == Reading!Unit(ctype)
<1>1. PICK X : whole \in Seq(X)
  BY DEF AText
<1>2. Len(whole) \in Nat /\ U \in {1, 2}
  BY <1>1, UnitKnown
<1>3. CASE a.ret = "TRUNCATED" /\ a.gd = g /\ a.data = <<>> /\ g.left = -1
  <2>1. n = 0
    BY <1>3
  <2>2. Reading!FirstUnits(whole, 0) = <<>>
    BY <1>1, <1>2, FirstPiece
  <2>3. <<>> \o <<>> = <<>>
    OBVIOUS
  <2>4. now = <<>>
    BY <1>3, <2>1, <2>2, <2>3, Zenon
  <2> HIDE DEF now
  <2>5. GDataOK(a.gd) /\ a.gd.left = -1
    BY <1>3, Zenon
  <2>6. QED BY <1>3, <2>4, <2>5, Zenon DEF now, Arrived
<1>4. ASSUME NEW k \in 0..(Len(whole) - n), GDataOK(a.gd),
             a.data = Reading!FirstUnits(Reading!LastUnits(whole, Len(whole) - n), k)
      PROVE  /\ now = Reading!FirstUnits(whole, n + k) /\ n + k \in 0..Len(whole)
             /\ k = Len(whole) - n => now = whole
  <2> DEFINE m == Len(whole) - n
  <2>1. m \in 0..Len(whole) /\ k \in 0..m /\ Len(whole) - m = n /\ n + k \in 0..Len(whole)
        /\ (k = Len(whole) - n => n + k = Len(whole))
    BY <1>2
  <2>2. Reading!FirstUnits(whole, Len(whole) - m) \o Reading!FirstUnits(Reading!LastUnits(whole, m), k)
          = Reading!FirstUnits(whole, Len(whole) - m + k)
    <3> HIDE DEF m
    <3>1. QED BY <1>1, <2>1, LastPiece, Zenon
  <2>3. Reading!FirstUnits(whole, Len(whole)) = whole
    BY <1>1, <2>1, FirstPiece, Zenon
  <2>4. now = Reading!FirstUnits(whole, n + k)
    BY <1>4, <2>1, <2>2, Zenon
  <2> HIDE DEF now
  <2>5. QED BY <2>1, <2>3, <2>4, Zenon
<1> HIDE DEF now
<1>5. ASSUME NEW k \in 0..(Len(whole) - n), GDataOK(a.gd),
             a.data = Reading!FirstUnits(Reading!LastUnits(whole, Len(whole) - n), k),
             a.ret = "TRUNCATED", a.gd.buf = whole, a.gd.left = U * (Len(whole) - n - k),
             Reading!TextHandling(ftype, ctype) => a.gd.size - a.gd.used >= Reading!Terminator(ctype)
      PROVE  /\ a.gd.left >= 0
             /\ a.gd.left = 0 => now = whole
             /\ \E j \in 0..Len(whole) : /\ now = Reading!FirstUnits(whole, j)
                                         /\ a.gd.left = U * (Len(whole) - j)
  <2>1. now = Reading!FirstUnits(whole, n + k) /\ n + k \in 0..Len(whole)
        /\ (k = Len(whole) - n => now = whole)
    BY <1>4, <1>5, Zenon
  <2>2. Len(whole) - n - k = Len(whole) - (n + k) /\ Len(whole) - n - k \in Int
        /\ (Len(whole) - n - k >= 0) /\ (Len(whole) - n - k > 0 \/ k = Len(whole) - n)
    BY <1>2
  <2>3. /\ a.gd.left >= 0 <=> Len(whole) - n - k >= 0
        /\ a.gd.left > 0 <=> Len(whole) - n - k > 0
    <3> DEFINE d == Len(whole) - n - k
    <3>1. d \in Int /\ a.gd.left = U * d
      BY <1>5, <2>2
    <3> HIDE DEF d, U
    <3>2. (d >= 0 <=> U * d >= 0) /\ (d > 0 <=> U * d > 0)
      BY <1>2, <3>1, Multiples
    <3>3. QED BY <3>1, <3>2 DEF d
  <2> HIDE DEF U
  <2>4. a.gd.left = 0 => now = whole
    <3>1. a.gd.left = 0 => ~(a.gd.left > 0)
      OBVIOUS
    <3>2. QED BY <2>1, <2>2, <2>3, <3>1
  <2>5. QED BY <1>5, <2>1, <2>2, <2>3, <2>4
<1>6. CASE ~(a.ret = "TRUNCATED" /\ a.gd = g /\ a.data = <<>> /\ g.left = -1)
  <2>1. PICK k \in 0..(Len(whole) - n) :
       /\ GDataOK(a.gd)
       /\ a.data = Reading!FirstUnits(Reading!LastUnits(whole, Len(whole) - n), k)
       /\ \/ /\ a.ret = "TRUNCATED" /\ a.gd.buf = whole
             /\ a.gd.left = U * (Len(whole) - n - k)
             /\ Reading!TextHandling(ftype, ctype)
                  => a.gd.size - a.gd.used >= Reading!Terminator(ctype)
          \/ /\ a.ret = "OK" /\ a.gd.left = 0
             /\ k = Len(whole) - n \/ (cb = 0 /\ g.left # -1)
    BY <1>6, Zenon DEF Delivers
  <2>2. CASE /\ a.ret = "TRUNCATED" /\ a.gd.buf = whole
             /\ a.gd.left = U * (Len(whole) - n - k)
             /\ Reading!TextHandling(ftype, ctype)
                  => a.gd.size - a.gd.used >= Reading!Terminator(ctype)
    BY <1>5, <2>1, <2>2, Zenon DEF now, Arrived
  <2>3. CASE a.ret = "OK" /\ a.gd.left = 0 /\ (k = Len(whole) - n \/ (cb = 0 /\ g.left # -1))
    BY <1>4, <2>1, <2>3, Zenon DEF now, Arrived
  <2>4. QED BY <2>1, <2>2, <2>3, Zenon
<1>7. QED BY <1>3, <1>6, Zenon

(* What is kept between two calls: the value, delivered up to somewhere, and *)
(* what is left of it.  A bookmark is read whole any number of times.        *)
BookmarkRead == Reading!IsBookmark(row.type, read.ctype)
NotBegun == read.got = <<>> /\ read.ret \notin {"OK", "NO_DATA"}
PieceInv ==
  /\ row \in [type : FieldTypes, value : Values, lf : BOOLEAN]
  /\ GDataOK(gd)
  /\ gd.left >= -2
  /\ gd.left = -2 => read.ret = "NO_DATA"
  /\ gd.left = -1 => NotBegun \/ BookmarkRead
  /\ BookmarkRead =>
       /\ gd.left = -1 /\ read.ret # "NO_DATA"
       /\ \E n \in Nat : read.got = [i \in 1..n |-> Reading!ATOI32U(row.value)]
       /\ read.ret = "OK" => read.got # <<>>
  /\ gd.left >= 0 => read.ctype \in CTypes
  /\ gd.left = 0 => read.asked \/ read.got = Reading!Expected
  /\ gd.left > 0 =>
       /\ read.ret \notin {"OK", "NO_DATA"}
       /\ \E n \in 0..Len(Reading!Expected) :
            /\ read.got = Reading!FirstUnits(Reading!Expected, n)
            /\ BegunReading(gd, row.type, read.ctype, Reading!Expected, n)
  /\ read.ret \in {"OK", "NO_DATA"} => read.asked \/ BookmarkRead \/ read.got = Reading!Expected

LEMMA InitPieces == Reading!Init => PieceInv
<1> SUFFICES ASSUME Reading!Init PROVE PieceInv
  OBVIOUS
<1>1. /\ row \in [type : FieldTypes, value : Values, lf : BOOLEAN]
      /\ gd = [left |-> -1, buf |-> Reading!NoBuf, size |-> 0, used |-> 0]
      /\ read = [ctype |-> "none", got |-> <<>>, ret |-> "none", asked |-> FALSE, size |-> 0]
  BY DEF Reading!Init, Reading!FreshGData, Reading!Unread
<1>2. GDataOK(gd) /\ gd.left = -1
  BY <1>1 DEF GDataOK
<1>3. NotBegun /\ ~BookmarkRead
  BY <1>1 DEF NotBegun, BookmarkRead, Reading!IsBookmark
<1>4. QED BY <1>1, <1>2, <1>3 DEF PieceInv, NotBegun

LEMMA MovePieces ==
  ASSUME PieceInv, NEW v \in Values, NEW fresh \in BOOLEAN, Reading!Move(v, fresh)
  PROVE  PieceInv'
<1>1. row' = [type |-> row.type, value |-> v, lf |-> row.lf]
  BY DEF Reading!Move, PieceInv
<1>2. row' \in [type : FieldTypes, value : Values, lf : BOOLEAN]
  BY <1>1 DEF PieceInv
<1>3. GDataOK(gd)' /\ gd'.left = -1
  <2>1. CASE fresh
    BY <2>1 DEF Reading!Move, Reading!FreshGData, GDataOK
  <2>2. CASE ~fresh
    <3>1. gd' = [left |-> -1, buf |-> gd.buf, size |-> gd.size, used |-> gd.used]
      BY <2>2 DEF Reading!Move, GDataOK, PieceInv
    <3>2. QED BY <3>1 DEF GDataOK, PieceInv
  <2>3. QED BY <2>1, <2>2
<1>4. read' = [ctype |-> "none", got |-> <<>>, ret |-> "none", asked |-> FALSE, size |-> 0]
  BY DEF Reading!Move, Reading!Unread
<1>5. NotBegun' /\ ~BookmarkRead'
  BY <1>4 DEF NotBegun, BookmarkRead, Reading!IsBookmark
<1>6. QED BY <1>2, <1>3, <1>5 DEF PieceInv, NotBegun

LEMMA GetDataPieces ==
  ASSUME Reading!ReadingKnown, PieceInv, NEW ctype \in CTypes, NEW cb \in BufferSizes, Reading!GetData(ctype, cb)
  PROVE  PieceInv'
<1> DEFINE v == row.value
           g == IF gd.left = -2 THEN [gd EXCEPT !.left = -1] ELSE gd
           a == Reading!CopyAndConvert(gd, row.type, ctype, v, cb)
           whole == Reading!Whole(row.type, ctype, v)
           asks == read.asked \/ (cb = 0 /\ gd.left # -1)
<1>1. /\ read.ctype \in {"none", ctype} /\ read.ret # "NO_DATA"
      /\ gd' = a.gd /\ row' = row
      /\ read' = [ctype |-> ctype, got |-> read.got \o a.data, ret |-> a.ret, asked |-> asks, size |-> cb]
  BY DEF Reading!GetData
<1>2. /\ ctype \in {"CHAR", "WCHAR", "BINARY"} /\ cb \in Nat /\ v \in Seq(STRING)
      /\ GDataOK(gd) /\ gd.left \in Int /\ gd.left >= -1
  BY <1>1 DEF PieceInv, Reading!ReadingKnown, GDataOK
<1>3. /\ read'.ctype = ctype /\ read'.got = read.got \o a.data /\ read'.ret = a.ret
      /\ read'.asked = asks
  <2> HIDE DEF a, asks
  <2>1. QED BY <1>1
<1>4. Reading!Expected' = whole
  BY <1>1, <1>3 DEF Reading!Expected, Reading!Whole
<1>5. AText(whole)
  BY <1>2, WholeText, Zenon
<1>6. g = gd
  BY <1>2
<1>7. gd.left >= 0 => read.ctype = ctype /\ whole = Reading!Expected
  <2>1. SUFFICES ASSUME gd.left >= 0 PROVE read.ctype = ctype /\ whole = Reading!Expected
    OBVIOUS
  <2>2. read.ctype \in CTypes
    BY <2>1 DEF PieceInv
  <2>3. read.ctype = ctype
    BY <1>1, <1>2, <2>2 DEF Reading!ReadingKnown
  <2>4. QED BY <2>3, Zenon DEF Reading!Expected
<1> DEFINE mark == Reading!IsBookmark(row.type, ctype)
<1>01. BookmarkRead' <=> mark
  BY <1>1, <1>3 DEF BookmarkRead
<1>02. mark => gd.left = -1
  <2>1. SUFFICES ASSUME mark, gd.left # -1 PROVE FALSE
    OBVIOUS
  <2>2. read.ctype = ctype
    BY <1>2, <1>7, <2>1
  <2>3. BookmarkRead
    BY <2>1, <2>2, Zenon DEF BookmarkRead
  <2>4. QED BY <2>1, <2>3, Zenon DEF PieceInv
<1>03. ~mark => ~BookmarkRead \/ gd.left = -1
  BY DEF PieceInv
<1>04. BookmarkRead => mark
  <2>1. SUFFICES ASSUME BookmarkRead PROVE mark
    OBVIOUS
  <2>2. read.ctype = "BINARY" /\ row.type = "INT4"
    BY <2>1 DEF BookmarkRead, Reading!IsBookmark
  <2>3. ctype = "BINARY"
    BY <1>1, <2>2
  <2>4. QED BY <2>2, <2>3 DEF Reading!IsBookmark
<1> HIDE DEF whole, g, mark
<1>8. CASE Reading!AtItsEnd(gd, cb)
  <2>1. gd.left = 0
    BY <1>2, <1>8 DEF Reading!AtItsEnd
  <2>01. ~mark /\ ~BookmarkRead'
    BY <1>01, <1>02, <2>1
  <2>2. a = [ret |-> "NO_DATA", len |-> 0, data |-> <<>>,
             gd |-> [Reading!FreshGData EXCEPT !.left = -2, !.used = gd.used]]
    BY <1>8, Zenon DEF Reading!CopyAndConvert, Reading!NoDataFound, Reading!Answer
  <2> DEFINE g2 == [Reading!FreshGData EXCEPT !.left = -2, !.used = gd.used]
  <2>3. g2 = [left |-> -2, buf |-> Reading!NoBuf, size |-> 0, used |-> gd.used]
    <3> DEFINE g1 == [Reading!FreshGData EXCEPT !.left = -2]
               g3 == [g1 EXCEPT !.used = gd.used]
    <3>1. g2 = g3
      OBVIOUS
    <3>2. g1 = [left |-> -2, buf |-> Reading!NoBuf, size |-> 0, used |-> 0]
      BY DEF Reading!FreshGData
    <3> HIDE DEF g1, g2
    <3>3. g3 = [left |-> -2, buf |-> Reading!NoBuf, size |-> 0, used |-> gd.used]
      BY <3>2
    <3>4. QED BY <3>1, <3>3, Zenon
  <2>4. GDataOK(g2) /\ g2.left = -2
    <3> HIDE DEF g2
    <3>1. QED BY <1>2, <2>3 DEF GDataOK
  <2> HIDE DEF g2, a
  <2>5. a.ret = "NO_DATA" /\ a.data = <<>> /\ a.gd = g2
    BY <2>2 DEF g2
  <2>6. GDataOK(gd') /\ gd'.left = -2
    BY <1>1, <2>4, <2>5, Zenon
  <2>7. read'.ret = "NO_DATA"
    BY <1>3, <2>5, Zenon
  <2>8. read'.asked \/ read'.got = Reading!Expected'
    <3>1. read.asked \/ read.got = Reading!Expected
      BY <2>1 DEF PieceInv
    <3>2. CASE read.asked
      BY <1>3, <3>2, Zenon
    <3>3. CASE ~read.asked
      <4>1. read.got = Reading!Expected
        BY <3>1, <3>3
      <4>2. read.got = whole
        BY <1>7, <2>1, <4>1
      <4>3. whole \o <<>> = whole
        BY <1>5, ConcatEmptySeq DEF AText
      <4>4. QED BY <1>3, <1>4, <2>5, <4>2, <4>3, Zenon
    <3>4. QED BY <3>2, <3>3
  <2>9. row' \in [type : FieldTypes, value : Values, lf : BOOLEAN]
    BY <1>1 DEF PieceInv
  <2>10. gd'.left >= -2 /\ gd'.left # -1 /\ gd'.left # 0 /\ ~(gd'.left >= 0) /\ ~(gd'.left > 0)
    BY <2>6
  <2>11. QED BY <2>01, <2>6, <2>7, <2>8, <2>9, <2>10, Zenon DEF PieceInv
<1>9. CASE ~Reading!AtItsEnd(gd, cb) /\ mark
  <2>1. gd.left = -1 /\ row.type = "INT4" /\ ctype = "BINARY"
    BY <1>02, <1>9 DEF mark, Reading!IsBookmark
  <2>2. ~Reading!TextHandling(row.type, ctype)
    BY <2>1 DEF Reading!TextHandling, Reading!TextTypes
  <2>3. a = Reading!Bookmark(gd, v, cb)
    BY <1>6, <1>9, <2>1, <2>2 DEF Reading!CopyAndConvert, g, mark
  <2>4. /\ a.gd = gd /\ a.ret \in {"OK", "TRUNCATED"}
        /\ a.data = IF a.ret = "OK" THEN <<Reading!ATOI32U(v)>> ELSE <<>>
    BY <2>3 DEF Reading!Bookmark, Reading!Answer
  <2> DEFINE number == Reading!ATOI32U(v)
  <2>5. PICK n \in Nat : read.got = [i \in 1..n |-> number]
    <3>1. CASE BookmarkRead
      BY <3>1, Zenon DEF PieceInv
    <3>2. CASE ~BookmarkRead
      <4>1. read.got = <<>>
        BY <2>1, <3>2 DEF PieceInv, NotBegun
      <4> HIDE DEF number
      <4>2. <<>> = [i \in 1..0 |-> number]
        OBVIOUS
      <4>3. 0 \in Nat
        OBVIOUS
      <4>4. QED BY <4>1, <4>2, <4>3, Zenon
    <3>3. QED BY <3>1, <3>2
  <2> HIDE DEF number, a, asks
  <2>6. /\ [i \in 1..n |-> number] \o <<number>> = [i \in 1..n + 1 |-> number]
        /\ [i \in 1..n |-> number] \o <<>> = [i \in 1..n |-> number]
        /\ [i \in 1..n + 1 |-> number] # <<>> /\ n + 1 \in Nat
    OBVIOUS
  <2>7. \E k \in Nat : read'.got = [i \in 1..k |-> number] /\ (read'.ret = "OK" => read'.got # <<>>)
    <3>1. CASE a.ret = "OK"
      <4>1. read'.got = [i \in 1..n + 1 |-> number]
        BY <1>3, <2>4, <2>5, <2>6, <3>1, Zenon DEF number
      <4>2. QED BY <2>6, <4>1, Zenon
    <3>2. CASE a.ret # "OK"
      <4>1. read'.got = [i \in 1..n |-> number] /\ read'.ret # "OK"
        BY <1>3, <2>4, <2>5, <2>6, <3>2, Zenon
      <4>2. QED BY <4>1, Zenon
    <3>3. QED BY <3>1, <3>2
  <2>8. read'.ret # "NO_DATA" /\ gd' = gd /\ row' = row
    BY <1>1, <1>3, <2>4
  <2>9. BookmarkRead'
    BY <1>01, <1>9
  <2>10. /\ gd'.left = -1 /\ ~(gd'.left >= 0) /\ ~(gd'.left > 0) /\ gd'.left # -2 /\ gd'.left # 0
         /\ gd'.left >= -2
    BY <2>1, <2>8
  <2>11. row' \in [type : FieldTypes, value : Values, lf : BOOLEAN] /\ GDataOK(gd')
    BY <2>8 DEF PieceInv
  <2>12. number = Reading!ATOI32U(row'.value)
    BY <2>8 DEF number
  <2>13. QED BY <2>7, <2>8, <2>9, <2>10, <2>11, <2>12, Zenon DEF PieceInv
<1>10. CASE ~Reading!AtItsEnd(gd, cb) /\ ~mark
  <2>1. gd.left # 0
    BY <1>2, <1>10 DEF Reading!AtItsEnd
  <2>01. ~BookmarkRead /\ ~BookmarkRead'
    BY <1>01, <1>04, <1>10
  <2>2. PICK n \in 0..Len(whole) : /\ read.got = Reading!FirstUnits(whole, n)
                                   /\ BegunReading(gd, row.type, ctype, whole, n)
                                   /\ gd.left = -1 => n = 0
    <3>1. PICK X : whole \in Seq(X)
      BY <1>5 DEF AText
    <3>2. CASE gd.left = -1
      <4>1. 0 \in 0..Len(whole) /\ Reading!FirstUnits(whole, 0) = <<>>
        BY <3>1, FirstPiece
      <4>2. read.got = <<>>
        BY <2>01, <3>2 DEF PieceInv, NotBegun
      <4>3. QED BY <3>2, <4>1, <4>2, Zenon DEF BegunReading
    <3>3. CASE gd.left # -1
      <4>1. gd.left > 0
        BY <1>2, <2>1, <3>3
      <4>2. \E n \in 0..Len(Reading!Expected) :
               /\ read.got = Reading!FirstUnits(Reading!Expected, n)
               /\ BegunReading(gd, row.type, read.ctype, Reading!Expected, n)
        BY <4>1 DEF PieceInv
      <4>3. read.ctype = ctype /\ whole = Reading!Expected
        BY <1>2, <1>7, <4>1
      <4>4. QED BY <3>3, <4>2, <4>3, Zenon
    <3>4. QED BY <3>2, <3>3
  <2>3. read.ret \notin {"OK", "NO_DATA"}
    BY <1>2, <2>01, <2>1 DEF PieceInv, NotBegun
  <2>4. a = IF row.type = "LO_UNDEFINED" THEN Reading!Answer("ERROR", 0, <<>>, gd)
            ELSE IF Reading!TextHandling(row.type, ctype)
                 THEN Reading!TextPiece(gd, row.type, ctype, v, cb)
            ELSE IF row.type = "BYTEA" THEN Reading!BytesPiece(gd, v, cb)
            ELSE Reading!Answer("UNSUPPORTED_TYPE", 0, <<>>, gd)
    BY <1>6, <1>10, Zenon DEF Reading!CopyAndConvert, g, mark
  <2> HIDE DEF a, asks
  <2>5. ASSUME NEW ret \in {"ERROR", "UNSUPPORTED_TYPE"}, a = Reading!Answer(ret, 0, <<>>, gd)
        PROVE  PieceInv'
    <3>1. a.ret = ret /\ a.data = <<>> /\ a.gd = gd
      BY <2>5 DEF Reading!Answer
    <3>2. read.got \o <<>> = read.got
      <4>1. PICK X : whole \in Seq(X)
        BY <1>5 DEF AText
      <4>2. read.got \in Seq(X)
        BY <2>2, <4>1, FirstPiece
      <4>3. QED BY <4>2, ConcatEmptySeq
    <3>3. read'.got = read.got /\ read'.ret = ret /\ gd' = gd
      BY <1>1, <1>3, <3>1, <3>2, Zenon
    <3>4. ret \notin {"OK", "NO_DATA"}
      OBVIOUS
    <3>5. gd.left > 0 => BegunReading(gd, row.type, ctype, whole, n) /\ read'.ctype = ctype
      BY <1>3, <2>2, Zenon
    <3>6. gd.left = -1 => read.got = <<>>
      BY <2>01 DEF PieceInv, NotBegun
    <3>7. gd'.left # 0 /\ gd'.left >= -1
      BY <1>2, <2>1, <3>3
    <3>8. QED
      BY <1>1, <1>2, <1>3, <1>4, <2>01, <2>2, <3>3, <3>4, <3>5, <3>6, <3>7 DEF PieceInv, NotBegun
  <2>6. ASSUME Delivers(a, gd, row.type, ctype, whole, n, cb)
        PROVE  PieceInv'
    <3> DEFINE now == read.got \o a.data
    <3>1. Arrived(a, gd, row.type, ctype, whole, now, cb)
      BY <1>2, <1>5, <2>2, <2>6, DeliveredSoFar
    <3>2. GDataOK(gd)'
      BY <1>1, <3>1, Zenon DEF Arrived
    <3>3. read'.got = now /\ read'.ctype = ctype
      BY <1>3, Zenon
    <3>4. row' \in [type : FieldTypes, value : Values, lf : BOOLEAN]
      BY <1>1 DEF PieceInv
    <3> HIDE DEF now
    <3>5. CASE a.ret = "TRUNCATED" /\ a.gd.left = -1 /\ now = <<>>
      <4>1. gd'.left = -1 /\ read'.ret = "TRUNCATED"
        BY <1>1, <1>3, <3>5, Zenon
      <4>2. QED BY <2>01, <3>2, <3>3, <3>4, <3>5, <4>1 DEF PieceInv, NotBegun
    <3>6. CASE /\ a.ret = "TRUNCATED" /\ a.gd.left >= 0 /\ a.gd.buf = whole
               /\ a.gd.left = 0 => now = whole
               /\ \E j \in 0..Len(whole) : /\ now = Reading!FirstUnits(whole, j)
                                           /\ a.gd.left = Reading!Unit(ctype) * (Len(whole) - j)
               /\ Reading!TextHandling(row.type, ctype)
                    => a.gd.size - a.gd.used >= Reading!Terminator(ctype)
      <4>1. gd'.left >= 0 /\ read'.ret = "TRUNCATED" /\ gd'.left \in Int
        BY <1>1, <1>3, <3>2, <3>6, Zenon DEF GDataOK
      <4>2. gd'.left = 0 => read'.got = Reading!Expected'
        BY <1>1, <1>4, <3>3, <3>6, Zenon
      <4>3. ASSUME gd'.left > 0
            PROVE  \E j \in 0..Len(whole) : /\ now = Reading!FirstUnits(whole, j)
                                            /\ BegunReading(gd', row.type', ctype, whole, j)
        BY <1>1, <3>6, <4>3, Zenon DEF BegunReading
      <4>4. gd'.left > 0 =>
              \E j \in 0..Len(Reading!Expected') :
                 /\ read'.got = Reading!FirstUnits(Reading!Expected', j)
                 /\ BegunReading(gd', row.type', read'.ctype, Reading!Expected', j)
        BY <1>4, <3>3, <4>3, Zenon
      <4>5. QED BY <2>01, <3>2, <3>3, <3>4, <4>1, <4>2, <4>4 DEF PieceInv
    <3>7. CASE a.ret = "OK" /\ a.gd.left = 0 /\ (now = whole \/ (cb = 0 /\ gd.left # -1))
      <4>1. gd'.left = 0 /\ read'.ret = "OK"
        BY <1>1, <1>3, <3>7, Zenon
      <4>2. read'.asked \/ read'.got = Reading!Expected'
        BY <1>3, <1>4, <3>3, <3>7, Zenon DEF asks
      <4>3. QED BY <2>01, <3>2, <3>3, <3>4, <4>1, <4>2 DEF PieceInv
    <3>8. QED BY <3>1, <3>5, <3>6, <3>7, Zenon DEF Arrived
  <2>7. CASE row.type = "LO_UNDEFINED"
    <3>1. a = Reading!Answer("ERROR", 0, <<>>, gd)
      BY <2>4, <2>7, Zenon
    <3>2. "ERROR" \in {"ERROR", "UNSUPPORTED_TYPE"}
      OBVIOUS
    <3>3. QED BY <2>5, <3>1, <3>2, Zenon
  <2>8. CASE row.type # "LO_UNDEFINED" /\ Reading!TextHandling(row.type, ctype)
    <3>1. a = Reading!TextPiece(gd, row.type, ctype, v, cb)
      BY <2>4, <2>8, Zenon
    <3>2. Delivers(a, gd, row.type, ctype, whole, n, cb)
      <4> HIDE DEF v
      <4>1. QED BY <1>2, <2>2, <2>8, <3>1, TextDelivers, Zenon DEF whole
    <3>3. QED BY <2>6, <3>2, Zenon
  <2>9. CASE row.type = "BYTEA" /\ ~Reading!TextHandling(row.type, ctype)
    <3>1. ctype = "BINARY"
      BY <1>2, <2>9 DEF Reading!TextHandling
    <3>2. a = Reading!BytesPiece(gd, v, cb)
      <4>1. row.type # "LO_UNDEFINED"
        BY <2>9
      <4>2. QED BY <2>4, <2>9, <4>1, Zenon
    <3>3. Delivers(a, gd, row.type, ctype, whole, n, cb)
      <4> HIDE DEF v
      <4>1. QED BY <1>2, <2>2, <2>9, <3>1, <3>2, BytesDeliver, Zenon DEF whole
    <3>4. QED BY <2>6, <3>3, Zenon
  <2>10. CASE row.type \notin {"LO_UNDEFINED", "BYTEA"} /\ ~Reading!TextHandling(row.type, ctype)
    <3>1. a = Reading!Answer("UNSUPPORTED_TYPE", 0, <<>>, gd)
      BY <2>4, <2>10, Zenon
    <3>2. "UNSUPPORTED_TYPE" \in {"ERROR", "UNSUPPORTED_TYPE"}
      OBVIOUS
    <3>3. QED BY <2>5, <3>1, <3>2, Zenon
  <2>11. QED BY <2>7, <2>8, <2>9, <2>10
<1>11. QED BY <1>8, <1>9, <1>10

LEMMA StepPieces ==
  ASSUME Reading!ReadingKnown, PieceInv, [Reading!Next]_<<row, gd, read>>
  PROVE  PieceInv'
<1>1. CASE \E v \in Values, fresh \in BOOLEAN : Reading!Move(v, fresh)
  BY <1>1, MovePieces
<1>2. CASE \E ctype \in CTypes, cb \in BufferSizes : Reading!GetData(ctype, cb)
  BY <1>2, GetDataPieces
<1>3. CASE UNCHANGED <<row, gd, read>>
  BY <1>3 DEF PieceInv, NotBegun, BookmarkRead, Reading!Expected, Reading!Whole
<1>4. QED BY <1>1, <1>2, <1>3 DEF Reading!Next

LEMMA PiecesFit ==
  ASSUME Reading!ReadingKnown, PieceInv
  PROVE  Reading!PiecesExact
<1> DEFINE whole == Reading!Expected
<1>1. row.value \in Seq(STRING)
  BY DEF PieceInv, Reading!ReadingKnown
<1>2. PICK X : whole \in Seq(X)
  BY <1>1, WholeText DEF AText, Reading!Expected
<1>3. Reading!PiecesMakeWhole
  <2>1. CASE ~BookmarkRead
    BY <2>1 DEF PieceInv, Reading!PiecesMakeWhole, BookmarkRead
  <2>2. CASE BookmarkRead
    <3>1. PICK n \in Nat : read.got = [i \in 1..n |-> Reading!ATOI32U(row.value)]
      BY <2>2, Zenon DEF PieceInv
    <3>2. \A i \in DOMAIN read.got : read.got[i] = Reading!ATOI32U(row.value)
      BY <3>1
    <3>3. read.ret \in {"OK", "NO_DATA"} => read.ret = "OK" /\ read.got # <<>>
      BY <2>2 DEF PieceInv
    <3>4. QED BY <2>2, <3>2, <3>3, Zenon DEF Reading!PiecesMakeWhole, BookmarkRead
  <2>3. QED BY <2>1, <2>2
<1>4. ASSUME gd.left > 0
      PROVE  /\ read.got = Reading!FirstUnits(whole, Len(read.got))
             /\ gd.left = Reading!Unit(read.ctype) * (Len(whole) - Len(read.got))
  <2>1. PICK n \in 0..Len(whole) : read.got = Reading!FirstUnits(whole, n)
                                   /\ BegunReading(gd, row.type, read.ctype, whole, n)
    BY <1>4 DEF PieceInv
  <2>2. gd.left = Reading!Unit(read.ctype) * (Len(whole) - n)
    BY <1>4, <2>1 DEF BegunReading, PieceInv, GDataOK
  <2> HIDE DEF whole
  <2>3. Len(read.got) = n
    BY <1>2, <2>1, FirstPiece
  <2>4. QED BY <2>1, <2>2, <2>3, Zenon
<1>5. QED BY <1>3, <1>4, Zenon DEF Reading!PiecesExact, Reading!LeftIsRest

-----------------------------------------------------------------------------
(* Decimals: the number that a sequence of digits is, and what halving makes *)
(* of it (Decimal, Dropped, Halved).                                         *)

Counted(n, d, f) == f = [i \in 0..n |-> IF i = 0 THEN 0 ELSE 10 * f[i - 1] + d[i]]
Counts(n, d, f) == f[0] = 0 /\ \A i \in 1..n : f[i] = 10 * f[i - 1] + d[i]

LEMMA CountedSolved ==
  ASSUME NEW size \in Nat, NEW d
  PROVE  \E f : Counted(size, d, f)
<1> DEFINE S == {n \in Nat : \E f : Counted(n, d, f)}
<1>1. 0 \in S
  <2> DEFINE f == [i \in 0..0 |-> 0]
  <2>1. Counted(0, d, f)
    BY DEF Counted
  <2>2. QED BY <2>1
<1>2. ASSUME NEW n \in 0..(size - 1), n \in S PROVE n + 1 \in S
  <2>1. PICK f : Counted(n, d, f)
    BY <1>2
  <2> DEFINE g == [i \in 0..(n + 1) |-> IF i <= n THEN f[i] ELSE 10 * f[n] + d[n + 1]]
  <2>2. \A i \in 0..n : g[i] = f[i]
    OBVIOUS
  <2>3. ASSUME NEW i \in 0..(n + 1)
        PROVE  g[i] = IF i = 0 THEN 0 ELSE 10 * g[i - 1] + d[i]
    <3>1. CASE i = 0
      BY <2>1, <3>1 DEF Counted
    <3>2. CASE i \in 1..n
      <4>1. g[i] = f[i] /\ g[i - 1] = f[i - 1] /\ i # 0 /\ i \in 0..n
        BY <2>2, <3>2
      <4>2. f[i] = 10 * f[i - 1] + d[i]
        BY <2>1, <4>1 DEF Counted
      <4>3. QED BY <4>1, <4>2
    <3>3. CASE i = n + 1
      BY <2>2, <3>3
    <3>4. QED BY <3>1, <3>2, <3>3
  <2>4. g = [i \in 0..(n + 1) |-> g[i]]
    OBVIOUS
  <2> HIDE DEF g
  <2>5. Counted(n + 1, d, g)
    BY <2>3, <2>4 DEF Counted
  <2>6. QED BY <2>5
<1>3. 0..size \subseteq S
  <2> HIDE DEF S
  <2>1. QED BY <1>1, <1>2, UpTo
<1>4. QED BY <1>3

LEMMA CountedAt ==
  ASSUME NEW n \in Nat, NEW d, NEW f, Counted(n, d, f)
  PROVE  Counts(n, d, f)
<1>1. ASSUME NEW i \in 0..n PROVE f[i] = IF i = 0 THEN 0 ELSE 10 * f[i - 1] + d[i]
  BY Zenon DEF Counted
<1>2. 0 \in 0..n /\ \A i \in 1..n : i \in 0..n /\ i # 0
  OBVIOUS
<1>3. QED BY <1>1, <1>2, Zenon DEF Counts

LEMMA CountsNat ==
  ASSUME NEW n \in Nat, NEW d, \A i \in 1..n : d[i] \in 0..9, NEW f, Counts(n, d, f)
  PROVE  \A i \in 0..n : f[i] \in Nat
<1> DEFINE S == {i \in Nat : i <= n => f[i] \in Nat}
<1>1. 0 \in S
  BY DEF Counts
<1>2. ASSUME NEW i \in 0..(n - 1), i \in S PROVE i + 1 \in S
  <2>1. f[i] \in Nat /\ i + 1 \in 1..n
    BY <1>2
  <2>2. f[i + 1] = 10 * f[i] + d[i + 1]
    <3>1. PICK j \in 1..n : j = i + 1
      BY <2>1
    <3>2. f[j] = 10 * f[j - 1] + d[j] /\ j - 1 = i
      BY <3>1 DEF Counts
    <3>3. QED BY <3>1, <3>2
  <2>3. d[i + 1] \in 0..9
    BY <2>1
  <2>4. QED BY <2>1, <2>2, <2>3
<1>3. 0..n \subseteq S
  <2> HIDE DEF S
  <2>1. QED BY <1>1, <1>2, UpTo
<1>4. QED BY <1>3

\* two functions that count the same digits agree
LEMMA CountsSame ==
  ASSUME NEW n \in Nat, NEW d, NEW f, NEW g, Counts(n, d, f), Counts(n, d, g)
  PROVE  \A i \in 0..n : f[i] = g[i]
<1> DEFINE S == {i \in Nat : i <= n => f[i] = g[i]}
<1>1. 0 \in S
  BY DEF Counts
<1>2. ASSUME NEW i \in 0..(n - 1), i \in S PROVE i + 1 \in S
  <2>1. PICK j \in 1..n : j = i + 1
    OBVIOUS
  <2>2. f[j] = 10 * f[j - 1] + d[j] /\ g[j] = 10 * g[j - 1] + d[j] /\ j - 1 = i
    BY <2>1 DEF Counts
  <2>3. f[j] = g[j]
    BY <1>2, <2>2
  <2>4. QED BY <2>1, <2>3
<1>3. 0..n \subseteq S
  <2> HIDE DEF S
  <2>1. QED BY <1>1, <1>2, UpTo
<1>4. QED BY <1>3

LEMMA DigitAt ==
  ASSUME NEW d \in Seq(0..9) PROVE Len(d) \in Nat /\ \A i \in 1..Len(d) : d[i] \in 0..9
  OBVIOUS

\* the number is what any function that counts the digits ends with
LEMMA DecimalCounts ==
  ASSUME NEW d \in Seq(0..9), NEW f, Counts(Len(d), d, f)
  PROVE  /\ Reading!Decimal(d) = f[Len(d)]
         /\ \A i \in 0..Len(d) : f[i] \in Nat
<1> DEFINE n == Len(d)
           g == CHOOSE upto : upto = [i \in 0..n |-> IF i = 0 THEN 0 ELSE 10 * upto[i - 1] + d[i]]
<1>1. Reading!Decimal(d) = g[n]
  BY DEF Reading!Decimal
<1>2. n \in Nat /\ \A i \in 1..n : d[i] \in 0..9
  BY DigitAt
<1>3. Counted(n, d, g)
  <2>1. \E upto : Counted(n, d, upto)
    BY <1>2, CountedSolved, Zenon
  <2>2. QED BY <2>1, Zenon DEF Counted
<1> HIDE DEF g
<1>4. Counts(n, d, g)
  BY <1>2, <1>3, CountedAt, Zenon
<1>5. n \in 0..n
  BY <1>2
<1>6. g[n] = f[n]
  <2> HIDE DEF n
  <2>1. Counts(n, d, f)
    BY DEF n
  <2>2. \A i \in 0..n : g[i] = f[i]
    <3> HIDE DEF Counts
    <3>1. QED BY <1>2, <1>4, <2>1, CountsSame
  <2>3. QED BY <1>5, <2>2
<1>7. QED BY <1>1, <1>2, <1>6, CountsNat, Zenon

LEMMA DecimalCounted ==
  ASSUME NEW d \in Seq(0..9)
  PROVE  \E f : Counts(Len(d), d, f)
<1>1. Len(d) \in Nat
  OBVIOUS
<1>2. QED BY <1>1, CountedSolved, CountedAt, Zenon

\* leading zeros are no part of a number
LEMMA DroppedKeeps ==
  ASSUME NEW d \in Seq(0..9)
  PROVE  /\ Reading!Dropped(d) \in Seq(0..9)
         /\ Reading!Decimal(Reading!Dropped(d)) = Reading!Decimal(d)
         /\ Reading!Dropped(d) = <<>> \/ Reading!Decimal(d) > 0
<1> DEFINE n == Len(d)
<1>1. n \in Nat /\ DOMAIN d = 1..n /\ \A i \in 1..n : d[i] \in 0..9
  OBVIOUS
<1>2. PICK f : Counts(n, d, f)
  BY DecimalCounted
<1>3. Reading!Decimal(d) = f[n] /\ \A i \in 0..n : f[i] \in Nat
  BY <1>2, DecimalCounts
<1>4. CASE \A i \in 1..n : d[i] = 0
  <2>1. Reading!Dropped(d) = <<>>
    BY <1>1, <1>4 DEF Reading!Dropped
  <2> DEFINE z == [i \in 0..n |-> 0]
  <2>2. Counts(n, d, z)
    BY <1>1, <1>4 DEF Counts
  <2> HIDE DEF z
  <2>3. Reading!Decimal(d) = z[n] /\ n \in 0..n
    BY <1>1, <2>2, DecimalCounts
  <2>4. Reading!Decimal(d) = 0
    BY <2>3 DEF z
  <2>5. <<>> \in Seq(0..9) /\ Len(<<>>) = 0
    OBVIOUS
  <2> DEFINE y == [i \in 0..0 |-> 0]
  <2>6. Counts(Len(<<>>), <<>>, y) /\ y[0] = 0
    BY DEF Counts
  <2> HIDE DEF y
  <2>7. Reading!Decimal(<<>>) = y[0]
    BY <2>5, <2>6, DecimalCounts
  <2>8. QED BY <2>1, <2>4, <2>5, <2>6, <2>7
<1>5. CASE \E i \in 1..n : d[i] # 0
  <2> DEFINE Leads(i) == d[i] # 0 /\ \A j \in 1..(i - 1) : d[j] = 0
  <2>1. \E i \in 1..n : Leads(i)
    <3> DEFINE T == {i \in 1..n : d[i] # 0}
    <3>1. T \subseteq Nat /\ T # {}
      BY <1>5
    <3>2. PICK i \in T : \A j \in T : i <= j
      <4> HIDE DEF T
      <4>1. QED BY <3>1, LeastNat
    <3>3. QED BY <1>1, <3>2
  <2> DEFINE k == CHOOSE i \in 1..n : Leads(i)
             e == SubSeq(d, k, n)
  <2>2. k \in 1..n /\ d[k] # 0 /\ \A j \in 1..(k - 1) : d[j] = 0
    BY <2>1
  <2>3. Reading!Dropped(d) = e
    BY <1>1, <1>5, Zenon DEF Reading!Dropped
  <2> HIDE DEF k
  <2>4. e \in Seq(0..9) /\ Len(e) = n - k + 1 /\ \A i \in 1..(n - k + 1) : e[i] = d[i + k - 1]
    BY <1>1, <2>2
  <2> HIDE DEF e
  <2>5. f[k - 1] = 0
    <3> DEFINE S == {i \in Nat : i <= k - 1 => f[i] = 0}
    <3>1. 0 \in S
      BY <1>2 DEF Counts
    <3>2. ASSUME NEW i \in 0..(k - 1 - 1), i \in S PROVE i + 1 \in S
      <4>1. PICK j \in 1..n : j = i + 1
        BY <1>1, <2>2
      <4>2. f[j] = 10 * f[j - 1] + d[j] /\ j - 1 = i
        BY <1>2, <4>1 DEF Counts
      <4>3. d[j] = 0 /\ f[i] = 0
        BY <2>2, <3>2, <4>1
      <4>4. QED BY <4>1, <4>2, <4>3
    <3>3. k - 1 \in Nat
      BY <1>1, <2>2
    <3>4. 0..(k - 1) \subseteq S
      <4> HIDE DEF S
      <4>1. QED BY <3>1, <3>2, <3>3, UpTo
    <3>5. QED BY <3>3, <3>4
  <2> DEFINE g == [i \in 0..(n - k + 1) |-> f[i + k - 1]]
  <2>6. Counts(Len(e), e, g)
    <3>1. g[0] = 0
      BY <1>1, <2>2, <2>5
    <3>2. ASSUME NEW i \in 1..(n - k + 1) PROVE g[i] = 10 * g[i - 1] + e[i]
      <4>1. PICK j \in 1..n : j = i + k - 1
        BY <1>1, <2>2
      <4>2. f[j] = 10 * f[j - 1] + d[j]
        BY <1>2 DEF Counts
      <4>3. g[i] = f[j] /\ g[i - 1] = f[j - 1] /\ e[i] = d[j]
        BY <1>1, <2>2, <2>4, <4>1
      <4>4. QED BY <4>2, <4>3
    <3>3. QED BY <2>4, <3>1, <3>2 DEF Counts
  <2>7. g[Len(e)] = f[n]
    BY <1>1, <2>2, <2>4
  <2> HIDE DEF g
  <2>8. Reading!Decimal(e) = g[Len(e)]
    BY <2>4, <2>6, DecimalCounts
  <2>9. f[n] > 0
    <3> DEFINE S == {i \in Nat : i <= n - k => f[k + i] > 0}
    <3>1. 0 \in S
      <4>1. f[k] = 10 * f[k - 1] + d[k] /\ d[k] \in 0..9
        BY <1>1, <1>2, <2>2 DEF Counts
      <4>2. QED BY <2>2, <2>5, <4>1
    <3>2. ASSUME NEW i \in 0..(n - k - 1), i \in S PROVE i + 1 \in S
      <4>1. PICK j \in 1..n : j = k + i + 1
        BY <1>1, <2>2
      <4>2. f[j] = 10 * f[j - 1] + d[j] /\ j - 1 = k + i /\ d[j] \in 0..9
        BY <1>1, <1>2, <2>2, <4>1 DEF Counts
      <4>3. f[k + i] > 0 /\ f[k + i] \in Nat
        <5>1. k + i \in 0..n
          BY <1>1, <2>2
        <5>2. QED BY <1>3, <2>2, <3>2, <5>1
      <4>4. f[j] > 0 /\ j = k + (i + 1)
        <5>1. f[j] = 10 * f[k + i] + d[j]
          BY <4>2
        <5>2. QED BY <4>1, <4>2, <4>3, <5>1, <2>2
      <4>5. QED BY <4>4
    <3>3. n - k \in Nat /\ k + (n - k) = n
      BY <1>1, <2>2
    <3>4. 0..(n - k) \subseteq S
      <4> HIDE DEF S
      <4>1. QED BY <3>1, <3>2, <3>3, UpTo
    <3>5. QED BY <3>3, <3>4
  <2>10. QED BY <1>3, <2>3, <2>4, <2>7, <2>8, <2>9
<1>6. QED BY <1>4, <1>5

LEMMA HalvesNumber ==
  ASSUME NEW x \in Int
  PROVE  \E q \in Int, r \in {0, 1} : q = x \div 2 /\ r = x % 2 /\ x = 2 * q + r
<1>1. x % 2 = x - 2 * (x \div 2)
  OBVIOUS
<1>2. x \div 2 \in Int /\ x % 2 \in {0, 1}
  OBVIOUS
<1> DEFINE q == x \div 2
           r == x % 2
<1>3. q \in Int /\ r \in {0, 1} /\ r = x - 2 * q
  BY <1>1, <1>2
<1> HIDE DEF q, r
<1>4. x = 2 * q + r
  BY <1>3
<1>5. QED BY <1>3, <1>4 DEF q, r

LEMMA HalvesDigits ==
  ASSUME NEW c \in 0..9, NEW x \in 0..9
  PROVE  \E k \in {0, 1}, h \in 0..9, r \in {0, 1} :
           /\ k = c % 2 /\ h = (10 * k + x) \div 2 /\ r = x % 2
           /\ 10 * k + x = 2 * h + r
<1>1. PICK p \in Int, k \in {0, 1} : k = c % 2
  BY HalvesNumber
<1>2. PICK q \in Int, r \in {0, 1} : r = x % 2 /\ x = 2 * q + r
  BY HalvesNumber
<1>3. PICK h \in Int, s1 \in {0, 1} : h = (10 * k + x) \div 2 /\ 10 * k + x = 2 * h + s1
  <2>1. 10 * k + x \in Int
    BY <1>1
  <2>2. QED BY <2>1, HalvesNumber
<1>4. s1 = r /\ h \in 0..9
  <2>1. CASE k = 0
    BY <1>2, <1>3, <2>1
  <2>2. CASE k = 1
    BY <1>2, <1>3, <2>2
  <2>3. QED BY <2>1, <2>2
<1>5. QED BY <1>1, <1>2, <1>3, <1>4

\* halving the digits halves the number, and the last digit's bit falls out
LEMMA HalvedHalves ==
  ASSUME NEW d \in Seq(0..9), d # <<>>
  PROVE  /\ Reading!Halved(d) \in Seq(0..9)
         /\ Reading!LowBit(d) \in {0, 1}
         /\ Reading!Decimal(d) = 2 * Reading!Decimal(Reading!Halved(d)) + Reading!LowBit(d)
         /\ Reading!Halved(d) = <<>> \/ Reading!Decimal(Reading!Halved(d)) > 0
<1> DEFINE n == Len(d)
           h == [i \in 1..n |-> (10 * Reading!Carry(d, i) + d[i]) \div 2]
<1>1. n \in Nat /\ n > 0 /\ DOMAIN d = 1..n /\ \A i \in 1..n : d[i] \in 0..9
  OBVIOUS
<1>2. Reading!Halved(d) = Reading!Dropped(h)
  BY <1>1 DEF Reading!Halved
<1>3. ASSUME NEW i \in 1..n
      PROVE  /\ h[i] \in 0..9 /\ d[i] \in 0..9
             /\ \E r \in {0, 1} : r = d[i] % 2 /\ (i = 1 => d[i] = 2 * h[i] + r)
             /\ i # 1 => \E k \in {0, 1}, r \in {0, 1} :
                          k = d[i - 1] % 2 /\ r = d[i] % 2 /\ 10 * k + d[i] = 2 * h[i] + r
  <2>0. d[i] \in 0..9 /\ h[i] = (10 * Reading!Carry(d, i) + d[i]) \div 2
    BY <1>1
  <2> HIDE DEF h
  <2>1. CASE i = 1
    <3>1. PICK k \in {0, 1}, e \in 0..9, r \in {0, 1} :
            k = 0 % 2 /\ e = (10 * k + d[i]) \div 2 /\ r = d[i] % 2 /\ 10 * k + d[i] = 2 * e + r
      BY <2>0, HalvesDigits
    <3>2. 0 % 2 = 0 /\ Reading!Carry(d, i) = 0
      BY <2>1 DEF Reading!Carry
    <3>3. k = 0 /\ e = h[i]
      BY <2>0, <3>1, <3>2
    <3>4. d[i] = 2 * h[i] + r
      <4>1. d[i] = 2 * e + r
        <5>1. PICK x \in 0..9 : x = d[i]
          BY <2>0
        <5>2. 10 * k + x = 2 * e + r /\ k = 0
          BY <3>1, <3>3, <5>1
        <5>3. x = 2 * e + r
          BY <5>2
        <5>4. QED BY <5>1, <5>3
      <4>2. QED BY <3>3, <4>1, Zenon
    <3>5. QED BY <2>0, <2>1, <3>1, <3>3, <3>4
  <2>2. CASE i # 1
    <3>1. d[i - 1] \in 0..9 /\ Reading!Carry(d, i) = d[i - 1] % 2
      BY <1>1, <2>2 DEF Reading!Carry
    <3>2. PICK k \in {0, 1}, e \in 0..9, r \in {0, 1} :
            /\ k = d[i - 1] % 2 /\ e = (10 * k + d[i]) \div 2 /\ r = d[i] % 2
            /\ 10 * k + d[i] = 2 * e + r
      BY <2>0, <3>1, HalvesDigits
    <3>3. e = h[i]
      BY <2>0, <3>1, <3>2
    <3>4. QED BY <2>0, <2>2, <3>2, <3>3
  <2>3. QED BY <2>1, <2>2
<1>4. h \in Seq(0..9) /\ Len(h) = n
  BY <1>1, <1>3
<1> HIDE DEF h
<1>5. PICK f : Counts(n, d, f)
  BY DecimalCounted
<1>6. PICK g : Counts(n, h, g)
  BY <1>4, DecimalCounted
<1>7. /\ Reading!Decimal(d) = f[n] /\ \A i \in 0..n : f[i] \in Nat
      /\ Reading!Decimal(h) = g[n] /\ \A i \in 0..n : g[i] \in Nat
  BY <1>4, <1>5, <1>6, DecimalCounts
<1> DEFINE low(i) == d[i] % 2
<1>8. low(n) \in {0, 1} /\ f[n] = 2 * g[n] + low(n)
  <2> DEFINE S == {i \in Nat : i + 1 <= n =>
                     low(i + 1) \in {0, 1} /\ f[i + 1] = 2 * g[i + 1] + low(i + 1)}
  <2>1. 0 \in S
    <3>1. f[1] = 10 * f[1 - 1] + d[1] /\ g[1] = 10 * g[1 - 1] + h[1] /\ f[0] = 0 /\ g[0] = 0
      BY <1>1, <1>5, <1>6 DEF Counts
    <3>2. PICK r \in {0, 1} : r = low(1) /\ d[1] = 2 * h[1] + r
      BY <1>1, <1>3
    <3>3. f[1] = d[1] /\ g[1] = h[1]
      <4>1. d[1] \in 0..9 /\ h[1] \in 0..9 /\ f[1] = 10 * f[0] + d[1] /\ g[1] = 10 * g[0] + h[1]
        BY <1>1, <1>3, <3>1
      <4>2. QED BY <3>1, <4>1
    <3> HIDE DEF low
    <3>4. QED BY <3>2, <3>3
  <2>2. ASSUME NEW i \in 0..(n - 1 - 1), i \in S PROVE i + 1 \in S
    <3>1. PICK j \in 1..n : j = i + 2
      BY <1>1
    <3>2. f[j] = 10 * f[j - 1] + d[j] /\ g[j] = 10 * g[j - 1] + h[j] /\ j # 1 /\ j - 1 = i + 1
      BY <1>5, <1>6, <3>1 DEF Counts
    <3>3. PICK k \in {0, 1}, r \in {0, 1} :
            k = low(j - 1) /\ r = low(j) /\ 10 * k + d[j] = 2 * h[j] + r
      BY <1>3, <3>2
    <3> HIDE DEF low
    <3>4. f[j - 1] = 2 * g[j - 1] + k
      <4>1. f[i + 1] = 2 * g[i + 1] + low(i + 1)
        BY <2>2, <3>1
      <4>2. QED BY <3>2, <3>3, <4>1
    <3>5. f[j - 1] \in Nat /\ g[j - 1] \in Nat /\ h[j] \in 0..9 /\ d[j] \in 0..9
      BY <1>1, <1>3, <1>7, <3>1, <3>2
    <3>6. f[j] = 2 * g[j] + r
      <4>1. 10 * f[j - 1] + d[j] = 2 * (10 * g[j - 1] + h[j]) + r
        <5>1. PICK a \in Nat, b \in Nat, y \in 0..9, x \in 0..9 :
                a = f[j - 1] /\ b = g[j - 1] /\ y = h[j] /\ x = d[j]
          BY <3>5
        <5>2. 10 * k + x = 2 * y + r /\ a = 2 * b + k
          BY <3>3, <3>4, <5>1
        <5>3. 10 * a + x = 2 * (10 * b + y) + r
          BY <5>2
        <5>4. QED BY <5>1, <5>3
      <4>2. QED BY <3>2, <4>1
    <3>7. QED BY <3>1, <3>3, <3>6
  <2>3. n - 1 \in Nat /\ n - 1 + 1 = n
    BY <1>1
  <2>4. 0..(n - 1) \subseteq S
    <3> HIDE DEF S
    <3>1. QED BY <2>1, <2>2, <2>3, UpTo
  <2>5. n - 1 \in S
    <3> HIDE DEF S
    <3>1. n - 1 \in 0..(n - 1)
      BY <2>3
    <3>2. QED BY <2>4, <3>1
  <2> HIDE DEF low
  <2>6. QED BY <2>3, <2>5
<1>9. Reading!LowBit(d) = low(n)
  BY <1>1 DEF Reading!LowBit
<1> HIDE DEF low
<1>10. QED BY <1>2, <1>4, <1>7, <1>8, <1>9, DroppedKeeps

-----------------------------------------------------------------------------
(* The bits of a number, from the lowest: halving ends, so the recursion of  *)
(* Val over all sequences of digits has a solution.                          *)

Measure(d) == IF d = <<>> THEN 0 ELSE Reading!Decimal(d) + 1
Halvings(n) == {d \in Seq(0..9) : Measure(d) <= n}
BitsAt(f, d) == IF d = <<>> THEN <<>> ELSE <<Reading!LowBit(d)>> \o f[Reading!Halved(d)]
BitsUpTo(n, f) == f = [d \in Halvings(n) |-> BitsAt(f, d)]

LEMMA DecimalNat ==
  ASSUME NEW d \in Seq(0..9) PROVE Reading!Decimal(d) \in Nat
<1>1. PICK f : Counts(Len(d), d, f)
  BY DecimalCounted
<1>2. Reading!Decimal(d) = f[Len(d)] /\ \A i \in 0..Len(d) : f[i] \in Nat
  BY <1>1, DecimalCounts
<1>3. Len(d) \in 0..Len(d)
  OBVIOUS
<1>4. QED BY <1>2, <1>3

LEMMA MeasureNat ==
  ASSUME NEW d \in Seq(0..9) PROVE Measure(d) \in Nat /\ (Measure(d) = 0 => d = <<>>)
  BY DecimalNat DEF Measure

LEMMA HalvingEnds ==
  ASSUME NEW d \in Seq(0..9), d # <<>>
  PROVE  Reading!Halved(d) \in Seq(0..9) /\ Measure(Reading!Halved(d)) < Measure(d)
<1> DEFINE h == Reading!Halved(d)
<1>1. /\ h \in Seq(0..9) /\ Reading!LowBit(d) \in {0, 1}
      /\ Reading!Decimal(d) = 2 * Reading!Decimal(h) + Reading!LowBit(d)
      /\ h = <<>> \/ Reading!Decimal(h) > 0
  BY HalvedHalves
<1> HIDE DEF h
<1>2. PICK x \in Nat, y \in Nat, b \in {0, 1} :
        x = Reading!Decimal(d) /\ y = Reading!Decimal(h) /\ b = Reading!LowBit(d)
  BY <1>1, DecimalNat
<1>3. x = 2 * y + b /\ Measure(d) = x + 1
  BY <1>1, <1>2 DEF Measure
<1>4. CASE h = <<>>
  <2>1. Measure(h) = 0
    BY <1>4 DEF Measure
  <2>2. QED BY <1>1, <1>3, <2>1 DEF h
<1>5. CASE h # <<>>
  <2>1. Measure(h) = y + 1 /\ y > 0
    BY <1>1, <1>2, <1>5 DEF Measure
  <2>2. QED BY <1>1, <1>3, <2>1 DEF h
<1>6. QED BY <1>4, <1>5

LEMMA BitsExist ==
  ASSUME NEW m \in Nat
  PROVE  \E f : BitsUpTo(m, f)
<1> DEFINE S == {n \in Nat : \E f : BitsUpTo(n, f)}
<1>1. 0 \in S
  <2> DEFINE f == [d \in Halvings(0) |-> <<>>]
  <2>1. ASSUME NEW d \in Halvings(0) PROVE BitsAt(f, d) = <<>>
    <3>1. d = <<>>
      BY MeasureNat DEF Halvings
    <3>2. QED BY <3>1 DEF BitsAt
  <2>2. f = [d \in Halvings(0) |-> BitsAt(f, d)]
    <3>1. [d \in Halvings(0) |-> BitsAt(f, d)] = [d \in Halvings(0) |-> <<>>]
      <4> HIDE DEF f
      <4>1. QED BY <2>1
    <3>2. QED BY <3>1
  <2> HIDE DEF f
  <2>3. BitsUpTo(0, f)
    BY <2>2 DEF BitsUpTo
  <2>4. QED BY <2>3
<1>2. ASSUME NEW n \in 0..(m - 1), n \in S PROVE n + 1 \in S
  <2>1. PICK f : BitsUpTo(n, f)
    BY <1>2
  <2> DEFINE g == [d \in Halvings(n + 1) |-> BitsAt(f, d)]
  <2>2. ASSUME NEW d \in Halvings(n) PROVE g[d] = f[d]
    <3>1. d \in Halvings(n + 1)
      BY MeasureNat DEF Halvings
    <3>2. g[d] = BitsAt(f, d)
      BY <3>1
    <3>3. f[d] = BitsAt(f, d)
      BY <2>1, Zenon DEF BitsUpTo
    <3>4. QED BY <3>2, <3>3
  <2>3. ASSUME NEW d \in Halvings(n + 1) PROVE BitsAt(f, d) = BitsAt(g, d)
    <3>1. CASE d = <<>>
      BY <3>1, Zenon DEF BitsAt
    <3>2. CASE d # <<>>
      <4>1. d \in Seq(0..9) /\ Measure(d) <= n + 1
        BY DEF Halvings
      <4>2. /\ Reading!Halved(d) \in Seq(0..9) /\ Measure(Reading!Halved(d)) < Measure(d)
            /\ Measure(d) \in Nat /\ Measure(Reading!Halved(d)) \in Nat
        BY <3>2, <4>1, HalvingEnds, MeasureNat
      <4>3. Reading!Halved(d) \in Halvings(n)
        BY <4>1, <4>2 DEF Halvings
      <4>4. g[Reading!Halved(d)] = f[Reading!Halved(d)]
        BY <2>2, <4>3, Zenon
      <4> HIDE DEF g
      <4>5. QED BY <4>4, Zenon DEF BitsAt
    <3>3. QED BY <3>1, <3>2
  <2>4. g = [d \in Halvings(n + 1) |-> BitsAt(g, d)]
    <3>1. [d \in Halvings(n + 1) |-> BitsAt(f, d)] = [d \in Halvings(n + 1) |-> BitsAt(g, d)]
      <4> HIDE DEF g
      <4>1. QED BY <2>3, Zenon
    <3>2. QED BY <3>1
  <2> HIDE DEF g
  <2>5. BitsUpTo(n + 1, g)
    BY <2>4 DEF BitsUpTo
  <2>6. QED BY <2>5
<1>3. 0..m \subseteq S
  <2> HIDE DEF S
  <2>1. QED BY <1>1, <1>2, UpTo
<1>4. QED BY <1>3

\* two solutions agree where both are defined
LEMMA BitsAgree ==
  ASSUME NEW m \in Nat, NEW n \in Nat, NEW f, NEW g, BitsUpTo(m, f), BitsUpTo(n, g),
         NEW d \in Halvings(m), d \in Halvings(n)
  PROVE  f[d] = g[d]
<1> DEFINE S == {k \in Nat : \A e \in Seq(0..9) :
                   e \in Halvings(m) /\ e \in Halvings(n) /\ Measure(e) <= k => f[e] = g[e]}
<1>0. ASSUME NEW e, e \in Halvings(m), e \in Halvings(n)
      PROVE  f[e] = BitsAt(f, e) /\ g[e] = BitsAt(g, e)
  BY <1>0, Zenon DEF BitsUpTo
<1>1. 0 \in S
  <2>1. ASSUME NEW e \in Seq(0..9), e \in Halvings(m), e \in Halvings(n), Measure(e) <= 0
        PROVE  f[e] = g[e]
    <3>1. e = <<>>
      BY <2>1, MeasureNat
    <3>2. QED BY <1>0, <2>1, <3>1, Zenon DEF BitsAt
  <2>2. QED BY <2>1
<1>2. ASSUME NEW k \in 0..(Measure(d) - 1), k \in S PROVE k + 1 \in S
  <2>1. ASSUME NEW e \in Seq(0..9), e \in Halvings(m), e \in Halvings(n), Measure(e) <= k + 1
        PROVE  f[e] = g[e]
    <3>1. CASE e = <<>>
      BY <1>0, <2>1, <3>1, Zenon DEF BitsAt
    <3>2. CASE e # <<>>
      <4>1. /\ Reading!Halved(e) \in Seq(0..9) /\ Measure(Reading!Halved(e)) < Measure(e)
            /\ Measure(e) \in Nat /\ Measure(Reading!Halved(e)) \in Nat
        BY <3>2, HalvingEnds, MeasureNat
      <4>2. Reading!Halved(e) \in Halvings(m) /\ Reading!Halved(e) \in Halvings(n)
        BY <2>1, <4>1 DEF Halvings
      <4>3. Measure(Reading!Halved(e)) <= k
        BY <2>1, <4>1
      <4>4. f[Reading!Halved(e)] = g[Reading!Halved(e)]
        BY <1>2, <4>1, <4>2, <4>3
      <4>5. QED BY <1>0, <2>1, <4>4, Zenon DEF BitsAt
    <3>3. QED BY <3>1, <3>2
  <2>2. QED BY <2>1
<1>3. d \in Seq(0..9) /\ Measure(d) \in Nat
  BY MeasureNat DEF Halvings
<1>4. 0..Measure(d) \subseteq S
  <2> HIDE DEF S
  <2>1. QED BY <1>1, <1>2, <1>3, UpTo
<1>5. Measure(d) \in S /\ Measure(d) <= Measure(d)
  <2> HIDE DEF S
  <2>1. QED BY <1>3, <1>4
<1>6. QED BY <1>3, <1>5

BitsFunction(f) == f = [d \in Seq(0..9) |-> BitsAt(f, d)]

LEMMA BitsSolved == \E f : BitsFunction(f)
<1> DEFINE for(d) == CHOOSE f : BitsUpTo(Measure(d), f)
           g == [d \in Seq(0..9) |-> for(d)[d]]
<1>1. ASSUME NEW d \in Seq(0..9) PROVE BitsUpTo(Measure(d), for(d)) /\ Measure(d) \in Nat
  <2>1. Measure(d) \in Nat
    BY MeasureNat
  <2>2. \E f : BitsUpTo(Measure(d), f)
    BY <2>1, BitsExist, Zenon
  <2>3. QED BY <2>1, <2>2, Zenon
<1> HIDE DEF for
<1>2. ASSUME NEW d \in Seq(0..9) PROVE g[d] = BitsAt(g, d)
  <2>1. d \in Halvings(Measure(d))
    BY <1>1 DEF Halvings
  <2>2. g[d] = for(d)[d] /\ for(d)[d] = BitsAt(for(d), d)
    BY <1>1, <2>1, Zenon DEF BitsUpTo
  <2>3. CASE d = <<>>
    BY <2>2, <2>3, Zenon DEF BitsAt
  <2>4. CASE d # <<>>
    <3> DEFINE h == Reading!Halved(d)
    <3>1. /\ h \in Seq(0..9) /\ Measure(h) < Measure(d)
          /\ Measure(d) \in Nat /\ Measure(h) \in Nat
      BY <2>4, HalvingEnds, MeasureNat
    <3>2. h \in Halvings(Measure(h)) /\ h \in Halvings(Measure(d))
      <4> HIDE DEF h
      <4>1. QED BY <3>1 DEF Halvings
    <3>3. BitsUpTo(Measure(h), for(h)) /\ BitsUpTo(Measure(d), for(d))
      BY <1>1, <3>1, Zenon
    <3>4. for(h)[h] = for(d)[h]
      <4> DEFINE m == Measure(h)
                 n == Measure(d)
                 F == for(h)
                 G == for(d)
      <4>1. m \in Nat /\ n \in Nat /\ BitsUpTo(m, F) /\ BitsUpTo(n, G)
            /\ h \in Halvings(m) /\ h \in Halvings(n)
        BY <3>1, <3>2, <3>3, Zenon
      <4> HIDE DEF h, m, n, F, G
      <4>2. F[h] = G[h]
        BY <4>1, BitsAgree
      <4>3. QED BY <4>2, Zenon DEF F, G
    <3>5. g[h] = for(h)[h]
      BY <3>1, Zenon
    <3> HIDE DEF g
    <3>6. QED BY <2>2, <3>4, <3>5, Zenon DEF BitsAt
  <2>5. QED BY <2>3, <2>4
<1>3. g = [d \in Seq(0..9) |-> g[d]]
  BY Zenon
<1> HIDE DEF g
<1>4. [d \in Seq(0..9) |-> g[d]] = [d \in Seq(0..9) |-> BitsAt(g, d)]
  BY <1>2, Zenon
<1>5. BitsFunction(g)
  BY <1>3, <1>4, Zenon DEF BitsFunction
<1>6. QED BY <1>5

Bits == CHOOSE f : BitsFunction(f)
BitOf(all, i) == IF i > Len(all) THEN 0 ELSE all[i]
ByteOf(all, i) ==
  BitOf(all, i) + 2 * BitOf(all, i + 1) + 4 * BitOf(all, i + 2) + 8 * BitOf(all, i + 3)
    + 16 * BitOf(all, i + 4) + 32 * BitOf(all, i + 5) + 64 * BitOf(all, i + 6)
    + 128 * BitOf(all, i + 7)
AllBits(d) == Bits[Reading!Dropped(d)]
ByteCount(d) == (Len(AllBits(d)) + 7) \div 8

LEMMA BitsUnfold == ASSUME NEW d \in Seq(0..9) PROVE Bits[d] = BitsAt(Bits, d)
<1>1. BitsFunction(Bits)
  BY BitsSolved, Zenon DEF Bits
<1>2. QED BY <1>1, Zenon DEF BitsFunction

LEMMA ValIs ==
  ASSUME NEW d
  PROVE  Reading!Val(d) = [b \in 1..ByteCount(d) |-> ByteOf(AllBits(d), 8 * (b - 1) + 1)]
  BY DEF Reading!Val, AllBits, ByteCount, ByteOf, BitOf, Bits, BitsFunction, BitsAt

\* w[i] is what the bits from i on are worth
Weighs(all, w, v) ==
  /\ all \in Seq({0, 1}) /\ w \in [Nat -> Nat] /\ w[1] = v
  /\ \A i \in Nat \ {0} : w[i] = BitOf(all, i) + 2 * w[i + 1]
  /\ \A i \in Nat : i > Len(all) => w[i] = 0

LEMMA DecimalOfNone == Reading!Decimal(<<>>) = 0
<1> DEFINE y == [i \in 0..0 |-> 0]
<1>1. Counts(Len(<<>>), <<>>, y) /\ y[0] = 0 /\ Len(<<>>) = 0
  BY DEF Counts
<1>2. <<>> \in Seq(0..9)
  OBVIOUS
<1> HIDE DEF y
<1>3. QED BY <1>1, <1>2, DecimalCounts

LEMMA NoBits == \E w : Weighs(<<>>, w, 0)
<1> DEFINE w == [i \in Nat |-> 0]
<1>1. Weighs(<<>>, w, 0)
  BY DEF Weighs, BitOf
<1>2. QED BY <1>1

LEMMA OneBitMore ==
  ASSUME NEW all, NEW w, NEW v \in Nat, NEW b \in {0, 1}, Weighs(all, w, v)
  PROVE  \E u : Weighs(<<b>> \o all, u, 2 * v + b)
<1> DEFINE u == [i \in Nat |-> IF i <= 1 THEN IF i = 1 THEN 2 * v + b ELSE 0 ELSE w[i - 1]]
           more == <<b>> \o all
<1>0. all \in Seq({0, 1}) /\ w \in [Nat -> Nat] /\ w[1] = v
  BY DEF Weighs
<1>1. /\ more \in Seq({0, 1}) /\ Len(more) = Len(all) + 1 /\ Len(all) \in Nat
      /\ more[1] = b /\ \A i \in 2..(Len(all) + 1) : more[i] = all[i - 1]
  BY <1>0
<1> HIDE DEF more
<1>2. u \in [Nat -> Nat] /\ u[1] = 2 * v + b
  <2>1. ASSUME NEW i \in Nat
        PROVE  (IF i <= 1 THEN IF i = 1 THEN 2 * v + b ELSE 0 ELSE w[i - 1]) \in Nat
    <3>1. CASE i <= 1
      BY <3>1
    <3>2. CASE i > 1
      BY <1>0, <3>2
    <3>3. QED BY <3>1, <3>2
  <2>2. QED BY <2>1
<1>3. ASSUME NEW i \in Nat \ {0} PROVE u[i] = BitOf(more, i) + 2 * u[i + 1]
  <2>1. CASE i = 1
    <3>1. u[i] = 2 * v + b /\ u[i + 1] = w[1]
      BY <2>1
    <3>2. BitOf(more, i) = b
      BY <1>1, <2>1 DEF BitOf
    <3> HIDE DEF u
    <3>3. QED BY <1>0, <3>1, <3>2
  <2>2. CASE i # 1
    <3>1. PICK j \in Nat \ {0} : j = i - 1
      BY <2>2
    <3>2. u[i] = w[j] /\ u[i + 1] = w[j + 1]
      BY <2>2, <3>1
    <3>3. BitOf(more, i) = BitOf(all, j)
      BY <1>1, <2>2, <3>1 DEF BitOf
    <3>4. w[j] = BitOf(all, j) + 2 * w[j + 1]
      BY DEF Weighs
    <3> HIDE DEF u
    <3>5. QED BY <3>2, <3>3, <3>4
  <2>3. QED BY <2>1, <2>2
<1>4. ASSUME NEW i \in Nat, i > Len(more) PROVE u[i] = 0
  <2>1. i - 1 \in Nat /\ i - 1 > Len(all) /\ ~(i <= 1)
    BY <1>1, <1>4
  <2>2. w[i - 1] = 0
    BY <2>1 DEF Weighs
  <2>3. QED BY <2>1, <2>2
<1> HIDE DEF u
<1>5. Weighs(more, u, 2 * v + b)
  BY <1>1, <1>2, <1>3, <1>4 DEF Weighs
<1>6. QED BY <1>5 DEF more

LEMMA BitsWeigh ==
  ASSUME NEW d \in Seq(0..9)
  PROVE  \E w : Weighs(Bits[d], w, Reading!Decimal(d))
<1> DEFINE S == {k \in Nat : \A e \in Seq(0..9) :
                   Measure(e) <= k => \E w : Weighs(Bits[e], w, Reading!Decimal(e))}
<1>1. ASSUME NEW e \in Seq(0..9), e = <<>> PROVE \E w : Weighs(Bits[e], w, Reading!Decimal(e))
  <2>1. Bits[e] = <<>> /\ Reading!Decimal(e) = 0
    BY <1>1, BitsUnfold, DecimalOfNone, Zenon DEF BitsAt
  <2>2. QED BY <2>1, NoBits
<1>2. 0 \in S
  <2>1. ASSUME NEW e \in Seq(0..9), Measure(e) <= 0 PROVE e = <<>>
    BY <2>1, MeasureNat
  <2>2. QED BY <1>1, <2>1
<1>3. ASSUME NEW k \in 0..(Measure(d) - 1), k \in S PROVE k + 1 \in S
  <2>1. ASSUME NEW e \in Seq(0..9), e # <<>>, Measure(e) <= k + 1
        PROVE  \E w : Weighs(Bits[e], w, Reading!Decimal(e))
    <3> DEFINE h == Reading!Halved(e)
               b == Reading!LowBit(e)
    <3>1. /\ h \in Seq(0..9) /\ b \in {0, 1}
          /\ Reading!Decimal(e) = 2 * Reading!Decimal(h) + b
          /\ Measure(h) < Measure(e) /\ Measure(e) \in Nat /\ Measure(h) \in Nat
          /\ Reading!Decimal(h) \in Nat
      <4>1. h \in Seq(0..9)
        BY <2>1, HalvedHalves
      <4>2. b \in {0, 1} /\ Reading!Decimal(e) = 2 * Reading!Decimal(h) + b
        BY <2>1, HalvedHalves
      <4>3. Measure(h) < Measure(e)
        BY <2>1, HalvingEnds
      <4> HIDE DEF h, b
      <4>4. QED BY <4>1, <4>2, <4>3, MeasureNat, DecimalNat
    <3>2. Bits[e] = <<b>> \o Bits[h]
      BY <2>1, BitsUnfold, Zenon DEF BitsAt
    <3> HIDE DEF h, b
    <3>3. Measure(h) <= k
      BY <2>1, <3>1
    <3>4. PICK w : Weighs(Bits[h], w, Reading!Decimal(h))
      BY <1>3, <3>1, <3>3
    <3>5. \E u : Weighs(<<b>> \o Bits[h], u, 2 * Reading!Decimal(h) + b)
      BY <3>1, <3>4, OneBitMore, Zenon
    <3>6. QED BY <3>1, <3>2, <3>5, Zenon
  <2>2. QED BY <1>1, <2>1
<1>4. Measure(d) \in Nat /\ Measure(d) <= Measure(d)
  BY MeasureNat
<1>5. 0..Measure(d) \subseteq S
  <2> HIDE DEF S
  <2>1. QED BY <1>2, <1>3, <1>4, UpTo
<1>6. Measure(d) \in S
  <2> HIDE DEF S
  <2>1. QED BY <1>4, <1>5
<1>7. QED BY <1>4, <1>6

\* the number that bytes from the lowest are, as any sum from the highest is
LEMMA BytesSummed ==
  ASSUME NEW bytes, NEW n \in Nat, Len(bytes) = n, NEW g, g[n + 1] = 0,
         \A i \in 1..n : g[i] = bytes[i] + 256 * g[i + 1]
  PROVE  Reading!Bytes(bytes) = g[1]
<1> DEFINE RestAt(f, i) == IF i > Len(bytes) THEN 0 ELSE bytes[i] + 256 * f[i + 1]
           from == CHOOSE f : f = [i \in 1..Len(bytes) + 1 |-> RestAt(f, i)]
<1>1. Reading!Bytes(bytes) = from[1]
  BY DEF Reading!Bytes
<1> DEFINE s1 == [i \in 1..Len(bytes) + 1 |-> g[i]]
<1>2. s1 = [i \in 1..Len(bytes) + 1 |-> RestAt(s1, i)]
  <2>1. ASSUME NEW i \in 1..(n + 1) PROVE g[i] = RestAt(s1, i)
    <3>1. CASE i = n + 1
      BY <3>1
    <3>2. CASE i # n + 1
      <4>1. i \in 1..n /\ i + 1 \in 1..(n + 1) /\ ~(i > n)
        BY <3>2
      <4>2. s1[i + 1] = g[i + 1]
        BY <4>1
      <4>3. g[i] = bytes[i] + 256 * g[i + 1]
        BY <4>1
      <4> HIDE DEF s1
      <4>4. QED BY <4>1, <4>2, <4>3
    <3>3. QED BY <3>1, <3>2
  <2> HIDE DEF RestAt
  <2>2. QED BY <2>1
<1>3. from = [i \in 1..(n + 1) |-> RestAt(from, i)]
  <2> HIDE DEF RestAt
  <2>1. QED BY <1>2
<1> HIDE DEF from, s1
<1> DEFINE T == {k \in Nat : k <= n => from[n + 1 - k] = g[n + 1 - k]}
<1>4. 0 \in T
  <2>1. from[n + 1] = RestAt(from, n + 1)
    <3> HIDE DEF RestAt
    <3>1. QED BY <1>3
  <2>2. QED BY <2>1
<1>5. ASSUME NEW k \in 0..(n - 1), k \in T PROVE k + 1 \in T
  <2>1. PICK i \in 1..n : i = n - k /\ n + 1 - k = i + 1 /\ n + 1 - (k + 1) = i
    OBVIOUS
  <2>2. from[i] = bytes[i] + 256 * from[i + 1]
    <3>1. from[i] = RestAt(from, i)
      <4> HIDE DEF RestAt
      <4>1. QED BY <1>3
    <3>2. QED BY <3>1
  <2>3. from[i + 1] = g[i + 1]
    BY <1>5, <2>1
  <2>4. from[i] = g[i]
    BY <2>2, <2>3
  <2>5. QED BY <2>1, <2>4
<1>6. 0..n \subseteq T
  <2> HIDE DEF T
  <2>1. QED BY <1>4, <1>5, UpTo
<1>7. n \in T
  <2> HIDE DEF T
  <2>1. QED BY <1>6
<1>8. n + 1 - n = 1
  OBVIOUS
<1>9. QED BY <1>1, <1>7, <1>8

LEMMA ByteWeighs ==
  ASSUME NEW all, NEW w, NEW v, Weighs(all, w, v), NEW i \in Nat \ {0}
  PROVE  w[i] = ByteOf(all, i) + 256 * w[i + 8]
<1> DEFINE b(k) == BitOf(all, k)
<1>1. ASSUME NEW k \in Nat \ {0} PROVE w[k] = b(k) + 2 * w[k + 1] /\ b(k) \in Int /\ w[k] \in Int
  <2>1. all \in Seq({0, 1}) /\ w \in [Nat -> Nat] /\ w[k] = b(k) + 2 * w[k + 1]
    BY DEF Weighs
  <2>2. b(k) \in Int
    <3>1. CASE k > Len(all)
      BY <3>1 DEF BitOf
    <3>2. CASE ~(k > Len(all))
      <4>1. k \in 1..Len(all) /\ b(k) = all[k]
        BY <2>1, <3>2 DEF BitOf
      <4>2. all[k] \in {0, 1}
        BY <2>1, <4>1
      <4> HIDE DEF b
      <4>3. QED BY <4>1, <4>2
    <3>3. QED BY <3>1, <3>2
  <2>3. QED BY <2>1, <2>2
<1> HIDE DEF b
<1>2. /\ w[i] = b(i) + 2 * w[i + 1] /\ w[i + 1] = b(i + 1) + 2 * w[i + 2]
      /\ w[i + 2] = b(i + 2) + 2 * w[i + 3] /\ w[i + 3] = b(i + 3) + 2 * w[i + 4]
  BY <1>1
<1>3. /\ w[i + 4] = b(i + 4) + 2 * w[i + 5] /\ w[i + 5] = b(i + 5) + 2 * w[i + 6]
      /\ w[i + 6] = b(i + 6) + 2 * w[i + 7] /\ w[i + 7] = b(i + 7) + 2 * w[i + 8]
  BY <1>1
<1>4. /\ b(i) \in Int /\ b(i + 1) \in Int /\ b(i + 2) \in Int /\ b(i + 3) \in Int
      /\ b(i + 4) \in Int /\ b(i + 5) \in Int /\ b(i + 6) \in Int /\ b(i + 7) \in Int
      /\ w[i] \in Int /\ w[i + 4] \in Int /\ w[i + 8] \in Int
  BY <1>1
<1>5. w[i] = b(i) + 2 * b(i + 1) + 4 * b(i + 2) + 8 * b(i + 3) + 16 * w[i + 4]
  BY <1>2, <1>4
<1>6. w[i + 4] = b(i + 4) + 2 * b(i + 5) + 4 * b(i + 6) + 8 * b(i + 7) + 16 * w[i + 8]
  BY <1>3, <1>4
<1>7. w[i] = b(i) + 2 * b(i + 1) + 4 * b(i + 2) + 8 * b(i + 3) + 16 * b(i + 4)
               + 32 * b(i + 5) + 64 * b(i + 6) + 128 * b(i + 7) + 256 * w[i + 8]
  BY <1>4, <1>5, <1>6
<1>8. QED BY <1>7, Zenon DEF ByteOf, b

(* The bytes of an SQL_NUMERIC_STRUCT are the number its digits are, however *)
(* many there are: each round of the division by two drops one bit, and the  *)
(* bits fill bytes from the lowest, the last one with zeros                  *)
(* (copy_and_convert_field, SQL_C_NUMERIC).                                  *)
THEOREM EveryDecimalExact ==
  ASSUME NEW d \in Seq(0..9)
  PROVE  Reading!Bytes(Reading!Val(d)) = Reading!Decimal(d)
<1> DEFINE all == AllBits(d)
           n == Len(all)
           m == ByteCount(d)
<1>1. PICK w : Weighs(all, w, Reading!Decimal(d))
  <2>1. /\ Reading!Dropped(d) \in Seq(0..9)
        /\ Reading!Decimal(Reading!Dropped(d)) = Reading!Decimal(d)
    BY DroppedKeeps
  <2>2. \E w : Weighs(Bits[Reading!Dropped(d)], w, Reading!Decimal(Reading!Dropped(d)))
    BY <2>1, BitsWeigh, Zenon
  <2>3. QED BY <2>1, <2>2, Zenon DEF AllBits
<1>2. n \in Nat /\ w \in [Nat -> Nat] /\ w[1] = Reading!Decimal(d)
      /\ \A i \in Nat : i > n => w[i] = 0
  <2> HIDE DEF all
  <2>1. /\ all \in Seq({0, 1}) /\ w \in [Nat -> Nat] /\ w[1] = Reading!Decimal(d)
        /\ \A i \in Nat : i > Len(all) => w[i] = 0
    BY <1>1, Zenon DEF Weighs
  <2>2. Len(all) \in Nat
    BY <2>1
  <2>3. QED BY <2>1, <2>2, Zenon
<1> HIDE DEF all
<1>3. m \in Nat /\ 8 * m >= n
  <2>1. m = (n + 7) \div 8
    BY DEF ByteCount, all
  <2> HIDE DEF n, m
  <2>2. QED BY <1>2, <2>1
<1>4. Reading!Val(d) = [b \in 1..m |-> ByteOf(all, 8 * (b - 1) + 1)]
  BY ValIs, Zenon DEF all
<1> HIDE DEF n, m
<1> DEFINE g == [b \in 1..(m + 1) |-> w[8 * (b - 1) + 1]]
<1>5. g[m + 1] = 0
  <2>1. 8 * (m + 1 - 1) + 1 \in Nat /\ 8 * (m + 1 - 1) + 1 > n
    BY <1>2, <1>3
  <2>2. QED BY <1>2, <1>3, <2>1
<1>6. ASSUME NEW b \in 1..m PROVE g[b] = Reading!Val(d)[b] + 256 * g[b + 1]
  <2>1. PICK i \in Nat \ {0} : i = 8 * (b - 1) + 1 /\ i + 8 = 8 * (b + 1 - 1) + 1
    BY <1>3
  <2>2. g[b] = w[i] /\ g[b + 1] = w[i + 8]
    BY <1>3, <2>1
  <2>3. Reading!Val(d)[b] = ByteOf(all, i)
    BY <1>4, <2>1
  <2>4. w[i] = ByteOf(all, i) + 256 * w[i + 8]
    BY <1>1, ByteWeighs
  <2>5. QED BY <2>2, <2>3, <2>4
<1>7. Len(Reading!Val(d)) = m
  BY <1>3, <1>4
<1>8. g[1] = w[1]
  BY <1>3
<1> HIDE DEF g
<1>9. Reading!Bytes(Reading!Val(d)) = g[1]
  BY <1>3, <1>5, <1>6, <1>7, BytesSummed
<1>10. QED BY <1>2, <1>8, <1>9

-----------------------------------------------------------------------------
(* Values of fixed types: what is kept of a column and of what was read of   *)
(* it, and the lengths of a value against those the driver announces.        *)

MostLetters == [Int64 |-> 20, Int32 |-> 11, Int16 |-> 6, Double |-> 22, Decimal |-> 31]
NumberTexts == {"Int64", "Int32", "Int16", "Double", "Decimal"}
IsDecimal(x) ==
  x = [neg |-> x.neg, whole |-> x.whole, frac |-> x.frac] /\ x.neg \in BOOLEAN
    /\ x.whole \in Seq(0..9) /\ x.frac \in Seq(0..9)
IsValue(vxtype, x) ==
  vxtype \in NumberTexts => IsDecimal(x) /\ Reading!LettersOf(x) \in 1..MostLetters[vxtype]
IsField(vxtype, v) == v = Reading!Null \/ \E x : v = Reading!NotNull(x) /\ IsValue(vxtype, x)
Fetched1(link, vxtype, v) == [vxtype |-> vxtype, conn |-> link, v |-> v]

ReadAs(how, ctype, room) ==
  LET a == Reading!AsRead(column.vxtype, column.v, ctype, room + 1)
  IN [how |-> how, room |-> room, ret |-> a.ret, len |-> a.len, data |-> a.data]
DefaultType ==
  Reading!DefaultConversion("DEFAULT",
                            Reading!CType(column.conn, Reading!VxTypeToPgType[column.vxtype]))

FixedInv ==
  \/ column = Reading!NoColumnYet /\ got = Reading!NotRead
  \/ /\ \E link \in Reading!Connections, vxtype \in Reading!FixedTypes : \E v :
           column = Fetched1(link, vxtype, v) /\ IsField(vxtype, v)
     /\ \/ got = Reading!NotRead
        \/ got = ReadAs("default", DefaultType, Reading!Attribute("COLUMN_LENGTH"))
        \/ got = ReadAs("text", "CHAR", Reading!Attribute("DISPLAY_SIZE"))
        \/ column.vxtype = "Decimal" /\ got = ReadAs("numeric", "NUMERIC", 18)

LEMMA InitFixedValues == Reading!InitFixed => FixedInv
  BY DEF Reading!InitFixed, FixedInv

LEMMA NumberIs ==
  ASSUME NEW neg \in BOOLEAN, NEW whole \in Seq(0..9), NEW frac \in Seq(0..9)
  PROVE  /\ IsDecimal(Reading!Number(neg, whole, frac))
         /\ Reading!LettersOf(Reading!Number(neg, whole, frac)) =
               (IF neg THEN 1 ELSE 0) + Len(whole) + (IF frac = <<>> THEN 0 ELSE 1 + Len(frac))
<1> DEFINE x == Reading!Number(neg, whole, frac)
<1>1. x.neg = neg /\ x.whole = whole /\ x.frac = frac
  BY DEF Reading!Number
<1>2. IsDecimal(x)
  BY <1>1 DEF IsDecimal, Reading!Number
<1>3. QED BY <1>1, <1>2, Zenon DEF Reading!LettersOf

\* a sign, digits, and a point with digits
LEMMA NumberLetters ==
  ASSUME NEW neg \in BOOLEAN, NEW whole \in Seq(0..9), NEW frac \in Seq(0..9),
         NEW a \in Nat, NEW b \in Nat, a = Len(whole), b = Len(frac),
         NEW most \in Nat, a >= 1,
         (frac = <<>> /\ a + 1 <= most) \/ a + b + 2 <= most
  PROVE  /\ IsDecimal(Reading!Number(neg, whole, frac))
         /\ Reading!LettersOf(Reading!Number(neg, whole, frac)) \in 1..most
<1> DEFINE x == Reading!Number(neg, whole, frac)
<1>1. IsDecimal(x)
  BY NumberIs
<1>2. Reading!LettersOf(x) =
        (IF neg THEN 1 ELSE 0) + Len(whole) + (IF frac = <<>> THEN 0 ELSE 1 + Len(frac))
  BY NumberIs, Zenon
<1> HIDE DEF x
<1>3. PICK s1 \in {0, 1} : s1 = IF neg THEN 1 ELSE 0
  OBVIOUS
<1>4. PICK p \in Nat : p = (IF frac = <<>> THEN 0 ELSE 1 + b)
  OBVIOUS
<1>5. Reading!LettersOf(x) = s1 + a + p
  BY <1>2, <1>3, <1>4
<1>6. s1 + a + p \in 1..most
  <2>1. CASE frac = <<>>
    <3>1. p = 0 /\ b = 0
      BY <1>4, <2>1
    <3>2. QED BY <3>1
  <2>2. CASE frac # <<>>
    <3>1. p = 1 + b
      BY <1>4, <2>2
    <3>2. QED BY <2>2, <3>1
  <2>3. QED BY <2>1, <2>2
<1>7. QED BY <1>1, <1>5, <1>6 DEF x

LEMMA WholeLetters ==
  ASSUME NEW neg \in BOOLEAN, NEW whole \in Seq(0..9), NEW most \in Nat, NEW a \in Nat,
         a = Len(whole), a >= 1, a + 1 <= most
  PROVE  /\ IsDecimal(Reading!Number(neg, whole, <<>>))
         /\ Reading!LettersOf(Reading!Number(neg, whole, <<>>)) \in 1..most
<1>1. <<>> \in Seq(0..9) /\ Len(<<>>) = 0 /\ 0 \in Nat
  OBVIOUS
<1>2. QED BY <1>1, NumberLetters, Zenon

LEMMA FracLetters ==
  ASSUME NEW neg \in BOOLEAN, NEW whole \in Seq(0..9), NEW frac \in Seq(0..9), NEW most \in Nat,
         NEW a \in Nat, NEW b \in Nat, a = Len(whole), b = Len(frac),
         a >= 1, a + b + 2 <= most
  PROVE  /\ IsDecimal(Reading!Number(neg, whole, frac))
         /\ Reading!LettersOf(Reading!Number(neg, whole, frac)) \in 1..most
  BY NumberLetters, Zenon

LEMMA NinesAre ==
  ASSUME NEW n \in Nat PROVE Reading!Nines(n) \in Seq(0..9) /\ Len(Reading!Nines(n)) = n
  BY DEF Reading!Nines

LEMMA SamplesOf ==
  /\ Reading!Samples["Int64"] =
       {Reading!Number(FALSE, <<0>>, <<>>), Reading!Number(TRUE, Reading!Nines(19), <<>>)}
  /\ Reading!Samples["Int32"] =
       {Reading!Number(FALSE, <<0>>, <<>>),
        Reading!Number(TRUE, <<2, 1, 4, 7, 4, 8, 3, 6, 4, 7>>, <<>>)}
  /\ Reading!Samples["Int16"] =
       {Reading!Number(FALSE, <<0>>, <<>>), Reading!Number(TRUE, <<3, 2, 7, 6, 8>>, <<>>)}
  /\ Reading!Samples["Double"] =
       {Reading!Number(FALSE, <<0>>, <<>>), Reading!Number(TRUE, Reading!Nines(7), Reading!Nines(7))}
  /\ Reading!Samples["Decimal"] =
       {Reading!Number(FALSE, <<0>>, <<5>>), Reading!Number(TRUE, Reading!Nines(28), <<>>),
        Reading!Number(TRUE, Reading!Nines(14), Reading!Nines(14)),
        Reading!Number(TRUE, <<0>>, Reading!Nines(28)),
        Reading!Number(TRUE, <<1>> \o Reading!Nines(14), Reading!Nines(14))}
  BY DEF Reading!Samples

LEMMA SamplesAre ==
  ASSUME NEW vxtype \in Reading!FixedTypes, NEW x \in Reading!Samples[vxtype]
  PROVE  IsValue(vxtype, x)
<1> DEFINE short == Reading!Number(FALSE, <<0>>, <<>>)
           long == <<2, 1, 4, 7, 4, 8, 3, 6, 4, 7>>
           small == <<3, 2, 7, 6, 8>>
           GoodFor(y, most) == IsDecimal(y) /\ Reading!LettersOf(y) \in 1..most
<1>0. /\ <<0>> \in Seq(0..9) /\ Len(<<0>>) = 1 /\ <<5>> \in Seq(0..9) /\ Len(<<5>>) = 1
      /\ long \in Seq(0..9) /\ Len(long) = 10 /\ small \in Seq(0..9) /\ Len(small) = 5
      /\ TRUE \in BOOLEAN /\ FALSE \in BOOLEAN
  OBVIOUS
<1> HIDE DEF long, small
<1>1. /\ GoodFor(short, 6) /\ GoodFor(short, 11) /\ GoodFor(short, 20) /\ GoodFor(short, 22)
      /\ GoodFor(Reading!Number(TRUE, long, <<>>), 11) /\ GoodFor(Reading!Number(TRUE, small, <<>>), 6)
  <2>1. /\ 1 >= 1 /\ 1 + 1 <= 6 /\ 1 + 1 <= 11 /\ 1 + 1 <= 20 /\ 1 + 1 <= 22
        /\ 10 >= 1 /\ 10 + 1 <= 11 /\ 5 >= 1 /\ 5 + 1 <= 6
        /\ 6 \in Nat /\ 11 \in Nat /\ 20 \in Nat /\ 22 \in Nat
        /\ 1 \in Nat /\ 10 \in Nat /\ 5 \in Nat
    OBVIOUS
  <2>2. QED BY <1>0, <2>1, WholeLetters, Zenon
<1>2. /\ GoodFor(Reading!Number(TRUE, Reading!Nines(19), <<>>), 20)
      /\ GoodFor(Reading!Number(TRUE, Reading!Nines(28), <<>>), 31)
  <2>1. /\ Reading!Nines(19) \in Seq(0..9) /\ Len(Reading!Nines(19)) = 19
        /\ Reading!Nines(28) \in Seq(0..9) /\ Len(Reading!Nines(28)) = 28
    BY NinesAre
  <2>2. /\ 19 >= 1 /\ 19 + 1 <= 20 /\ 28 >= 1 /\ 28 + 1 <= 31
        /\ 20 \in Nat /\ 31 \in Nat /\ 19 \in Nat /\ 28 \in Nat
    OBVIOUS
  <2>3. QED BY <1>0, <2>1, <2>2, WholeLetters, Zenon
<1>3. /\ GoodFor(Reading!Number(TRUE, Reading!Nines(7), Reading!Nines(7)), 22)
      /\ GoodFor(Reading!Number(TRUE, Reading!Nines(14), Reading!Nines(14)), 31)
      /\ GoodFor(Reading!Number(FALSE, <<0>>, <<5>>), 31)
      /\ GoodFor(Reading!Number(TRUE, <<0>>, Reading!Nines(28)), 31)
      /\ GoodFor(Reading!Number(TRUE, <<1>> \o Reading!Nines(14), Reading!Nines(14)), 31)
  <2>1. /\ Reading!Nines(7) \in Seq(0..9) /\ Len(Reading!Nines(7)) = 7
        /\ Reading!Nines(14) \in Seq(0..9) /\ Len(Reading!Nines(14)) = 14
        /\ Reading!Nines(28) \in Seq(0..9) /\ Len(Reading!Nines(28)) = 28
    BY NinesAre
  <2>2. <<1>> \o Reading!Nines(14) \in Seq(0..9) /\ Len(<<1>> \o Reading!Nines(14)) = 15
    <3> DEFINE nines == Reading!Nines(14)
    <3> HIDE DEF nines
    <3>1. nines \in Seq(0..9) /\ Len(nines) = 14 /\ <<1>> \in Seq(0..9) /\ Len(<<1>>) = 1
      BY <2>1 DEF nines
    <3>2. <<1>> \o nines \in Seq(0..9) /\ Len(<<1>> \o nines) = Len(<<1>>) + Len(nines)
      BY <3>1, ConcatProperties, Zenon
    <3>3. Len(<<1>> \o nines) = 15
      BY <3>1, <3>2
    <3>4. QED BY <3>2, <3>3 DEF nines
  <2>3. /\ 7 >= 1 /\ 7 + 7 + 2 <= 22 /\ 14 >= 1 /\ 14 + 14 + 2 <= 31 /\ 1 >= 1 /\ 1 + 1 + 2 <= 31
        /\ 1 + 28 + 2 <= 31 /\ 15 >= 1 /\ 15 + 14 + 2 <= 31
        /\ 22 \in Nat /\ 31 \in Nat /\ 7 \in Nat /\ 14 \in Nat /\ 1 \in Nat /\ 28 \in Nat /\ 15 \in Nat
    OBVIOUS
  <2>4. QED BY <1>0, <2>1, <2>2, <2>3, FracLetters, Zenon
<1>4. CASE vxtype = "Int64"
  <2>1. x = short \/ x = Reading!Number(TRUE, Reading!Nines(19), <<>>)
    BY <1>4, SamplesOf, Zenon
  <2> HIDE DEF GoodFor
  <2>2. GoodFor(x, 20)
    BY <1>1, <1>2, <1>3, <2>1, Zenon
  <2>3. QED BY <1>4, <2>2 DEF IsValue, MostLetters, GoodFor
<1>5. CASE vxtype = "Int32"
  <2>1. x = short \/ x = Reading!Number(TRUE, long, <<>>)
    BY <1>5, SamplesOf, Zenon DEF long
  <2> HIDE DEF GoodFor
  <2>2. GoodFor(x, 11)
    BY <1>1, <1>2, <1>3, <2>1, Zenon
  <2>3. QED BY <1>5, <2>2 DEF IsValue, MostLetters, GoodFor
<1>6. CASE vxtype = "Int16"
  <2>1. x = short \/ x = Reading!Number(TRUE, small, <<>>)
    BY <1>6, SamplesOf, Zenon DEF small
  <2> HIDE DEF GoodFor
  <2>2. GoodFor(x, 6)
    BY <1>1, <1>2, <1>3, <2>1, Zenon
  <2>3. QED BY <1>6, <2>2 DEF IsValue, MostLetters, GoodFor
<1>7. CASE vxtype = "Double"
  <2>1. x = short \/ x = Reading!Number(TRUE, Reading!Nines(7), Reading!Nines(7))
    BY <1>7, SamplesOf, Zenon
  <2> HIDE DEF GoodFor
  <2>2. GoodFor(x, 22)
    BY <1>1, <1>2, <1>3, <2>1, Zenon
  <2>3. QED BY <1>7, <2>2 DEF IsValue, MostLetters, GoodFor
<1>8. CASE vxtype = "Decimal"
  <2>1. \/ x = Reading!Number(FALSE, <<0>>, <<5>>) \/ x = Reading!Number(TRUE, Reading!Nines(28), <<>>)
        \/ x = Reading!Number(TRUE, Reading!Nines(14), Reading!Nines(14))
        \/ x = Reading!Number(TRUE, <<0>>, Reading!Nines(28))
        \/ x = Reading!Number(TRUE, <<1>> \o Reading!Nines(14), Reading!Nines(14))
    BY <1>8, SamplesOf, Zenon
  <2> HIDE DEF GoodFor
  <2>2. GoodFor(x, 31)
    BY <1>1, <1>2, <1>3, <2>1, Zenon
  <2>3. QED BY <1>8, <2>2 DEF IsValue, MostLetters, GoodFor
<1>9. CASE vxtype \in {"Bool", "DateTime"}
  BY <1>9 DEF IsValue, NumberTexts
<1>10. QED BY <1>4, <1>5, <1>6, <1>7, <1>8, <1>9
           DEF Reading!FixedTypes, Reading!NumberTypes

LEMMA NumbersAre ==
  ASSUME NEW x \in Reading!Numbers
  PROVE  IsValue("Decimal", x)
<1>1. \E neg \in BOOLEAN, whole \in UNION {[1..n -> Reading!SomeDigits] : n \in 1..3},
         frac \in UNION {[1..n -> Reading!SomeDigits] : n \in 0..1} :
        x = Reading!Number(neg, whole, frac)
  BY DEF Reading!Numbers
<1>2. PICK neg \in BOOLEAN, whole \in UNION {[1..n -> Reading!SomeDigits] : n \in 1..3},
           frac \in UNION {[1..n -> Reading!SomeDigits] : n \in 0..1} :
        x = Reading!Number(neg, whole, frac)
  BY <1>1, Zenon
<1>3. ASSUME NEW n \in Nat, NEW w \in [1..n -> Reading!SomeDigits]
      PROVE  w \in Seq(0..9) /\ Len(w) = n
  BY DEF Reading!SomeDigits
<1>4. whole \in Seq(0..9) /\ Len(whole) \in 1..3
  <2>1. PICK n \in 1..3 : whole \in [1..n -> Reading!SomeDigits]
    OBVIOUS
  <2>2. QED BY <1>3, <2>1
<1>5. frac \in Seq(0..9) /\ Len(frac) \in 0..1
  <2>1. PICK n \in 0..1 : frac \in [1..n -> Reading!SomeDigits]
    OBVIOUS
  <2>2. QED BY <1>3, <2>1
<1>6. PICK a \in Nat, b \in Nat : a = Len(whole) /\ b = Len(frac) /\ a >= 1 /\ a + b + 2 <= 31
  <2>1. PICK a \in 1..3 : a = Len(whole)
    BY <1>4
  <2>2. PICK b \in 0..1 : b = Len(frac)
    BY <1>5
  <2>3. a \in Nat /\ b \in Nat /\ a >= 1 /\ a + b + 2 <= 31
    OBVIOUS
  <2>4. QED BY <2>1, <2>2, <2>3
<1>7. 31 \in Nat
  OBVIOUS
<1>8. IsDecimal(x) /\ Reading!LettersOf(x) \in 1..31
  BY <1>2, <1>4, <1>5, <1>6, <1>7, FracLetters, Zenon
<1>9. QED BY <1>8 DEF IsValue, MostLetters

LEMMA StepFixedValues ==
  ASSUME FixedInv, [Reading!NextFixed]_<<column, got>>
  PROVE  FixedInv'
<1> USE DEF ReadAs, DefaultType
<1>1. CASE UNCHANGED <<column, got>>
  <2>1. Reading!Attribute("COLUMN_LENGTH")' = Reading!Attribute("COLUMN_LENGTH")
        /\ Reading!Attribute("DISPLAY_SIZE")' = Reading!Attribute("DISPLAY_SIZE")
    BY <1>1 DEF Reading!Attribute
  <2>2. QED BY <1>1, <2>1 DEF FixedInv
<1>2. ASSUME NEW link \in Reading!Connections, NEW vxtype \in Reading!FixedTypes, NEW v,
             IsField(vxtype, v), Reading!FetchFixed(link, vxtype, v)
      PROVE  FixedInv'
  <2>1. column' = Fetched1(link, vxtype, v) /\ got' = Reading!NotRead
    BY <1>2 DEF Reading!FetchFixed, Fetched1
  <2>2. QED BY <1>2, <2>1, Zenon DEF FixedInv
<1>3. CASE \E link \in Reading!Connections, vxtype \in Reading!FixedTypes :
             \E v \in {Reading!Null} \cup {Reading!NotNull(x) : x \in Reading!Samples[vxtype]} :
               Reading!FetchFixed(link, vxtype, v)
  <2>0. PICK link \in Reading!Connections, vxtype \in Reading!FixedTypes :
             \E v \in {Reading!Null} \cup {Reading!NotNull(x) : x \in Reading!Samples[vxtype]} :
               Reading!FetchFixed(link, vxtype, v)
    BY <1>3, Zenon
  <2>1. PICK v \in {Reading!Null} \cup {Reading!NotNull(x) : x \in Reading!Samples[vxtype]} :
               Reading!FetchFixed(link, vxtype, v)
    BY <2>0, Zenon
  <2>2. IsField(vxtype, v)
    BY SamplesAre, Zenon DEF IsField
  <2>3. QED BY <1>2, <2>1, <2>2
<1>4. CASE \E x \in Reading!Numbers :
             Reading!FetchFixed(Reading!OneConnection, "Decimal", Reading!NotNull(x))
  <2>1. PICK x \in Reading!Numbers :
          Reading!FetchFixed(Reading!OneConnection, "Decimal", Reading!NotNull(x))
    BY <1>4, Zenon
  <2>2. IsField("Decimal", Reading!NotNull(x))
    BY NumbersAre, Zenon DEF IsField
  <2>3. Reading!OneConnection \in Reading!Connections
    <3>1. [unicode |-> TRUE, jet |-> TRUE, odbc3 |-> TRUE, lf |-> TRUE] \in Reading!Connections
      BY DEF Reading!Connections
    <3>2. QED BY <3>1, Zenon DEF Reading!OneConnection
  <2>4. "Decimal" \in Reading!FixedTypes
    BY DEF Reading!FixedTypes, Reading!NumberTypes
  <2>5. QED BY <1>2, <2>1, <2>2, <2>3, <2>4
<1>5. ASSUME NEW how, NEW ctype, NEW room, Reading!Reads(how, ctype, room)
      PROVE  /\ column' = column /\ got' = ReadAs(how, ctype, room)
             /\ Reading!Attribute("COLUMN_LENGTH")' = Reading!Attribute("COLUMN_LENGTH")
             /\ Reading!Attribute("DISPLAY_SIZE")' = Reading!Attribute("DISPLAY_SIZE")
  BY <1>5 DEF Reading!Reads, Reading!Attribute
<1>6. CASE column # Reading!NoColumnYet /\ Reading!ReadDefault
  <2>1. Reading!Reads("default", DefaultType, Reading!Attribute("COLUMN_LENGTH"))
    BY <1>6 DEF Reading!ReadDefault
  <2>2. QED BY <1>5, <1>6, <2>1 DEF FixedInv
<1>7. CASE column # Reading!NoColumnYet /\ Reading!ReadText
  <2>1. Reading!Reads("text", "CHAR", Reading!Attribute("DISPLAY_SIZE"))
    BY <1>7 DEF Reading!ReadText
  <2>2. QED BY <1>5, <1>7, <2>1 DEF FixedInv
<1>8. CASE Reading!ReadNumeric
  <2>1. column.vxtype = "Decimal" /\ Reading!Reads("numeric", "NUMERIC", 18)
    BY <1>8 DEF Reading!ReadNumeric
  <2>2. column # Reading!NoColumnYet
    BY <2>1 DEF Reading!NoColumnYet
  <2>3. QED BY <1>5, <2>1, <2>2 DEF FixedInv
<1>9. CASE Reading!NextRow
  BY <1>9 DEF Reading!NextRow, FixedInv
<1>10. QED BY <1>1, <1>3, <1>4, <1>6, <1>7, <1>8, <1>9 DEF Reading!NextFixed

FitsRoom(r, v, room) ==
  /\ r.ret = "OK" /\ r.data # Reading!AsItWas
  /\ r.len \in (IF v.null THEN 0 ELSE 1)..room

LEMMA FitsWhen ==
  ASSUME NEW vxtype, NEW v, IsField(vxtype, v), NEW room, NEW len, NEW x,
         len \in (IF v.null THEN 0 ELSE 1)..room
  PROVE  FitsRoom(Reading!Converted("OK", len, <<x>>), v, room)
<1>1. <<x>> # Reading!AsItWas
  BY DEF Reading!AsItWas
<1>2. /\ Reading!Converted("OK", len, <<x>>).ret = "OK"
      /\ Reading!Converted("OK", len, <<x>>).data = <<x>>
      /\ Reading!Converted("OK", len, <<x>>).len = len
  BY DEF Reading!Converted
<1>3. QED BY <1>1, <1>2, Zenon DEF FitsRoom

LEMMA FieldNull ==
  ASSUME NEW vxtype, NEW v, IsField(vxtype, v)
  PROVE  v.null \in BOOLEAN
<1>1. Reading!Null.null = TRUE
  BY DEF Reading!Null
<1>2. ASSUME NEW x PROVE Reading!NotNull(x).null = FALSE
  BY DEF Reading!NotNull
<1>3. QED BY <1>1, <1>2, Zenon DEF IsField

\* what is sent of a number, also of one that is NoPointer, has its letters
LEMMA SentNumber ==
  ASSUME NEW vxtype \in NumberTexts, NEW v, IsField(vxtype, v)
  PROVE  LET x == Reading!Sent(vxtype, v).data
         IN /\ Reading!LettersOf(x) \in (IF v.null THEN 0 ELSE 1)..MostLetters[vxtype]
            /\ IsDecimal(x)
<1>1. /\ IsDecimal(Reading!Zero) /\ Reading!LettersOf(Reading!Zero) = 1
      /\ IsDecimal(Reading!NoDigits) /\ Reading!LettersOf(Reading!NoDigits) = 0
  <2>1. /\ Reading!Zero = [neg |-> FALSE, whole |-> <<0>>, frac |-> <<>>]
        /\ Reading!NoDigits = [neg |-> FALSE, whole |-> <<>>, frac |-> <<>>]
    BY DEF Reading!Zero, Reading!NoDigits
  <2>2. <<0>> \in Seq(0..9) /\ <<>> \in Seq(0..9) /\ Len(<<0>>) = 1 /\ Len(<<>>) = 0
    OBVIOUS
  <2>3. IsDecimal(Reading!Zero) /\ IsDecimal(Reading!NoDigits)
    BY <2>1, <2>2 DEF IsDecimal
  <2>4. /\ Reading!LettersOf(Reading!Zero) = 0 + 1 + 0 /\ Reading!LettersOf(Reading!NoDigits) = 0 + 0 + 0
    BY <2>1, <2>2 DEF Reading!LettersOf
  <2>5. QED BY <2>3, <2>4
<1>2. MostLetters[vxtype] \in Nat /\ MostLetters[vxtype] >= 1
  BY DEF NumberTexts, MostLetters
<1> DEFINE x == Reading!Sent(vxtype, v).data
<1>3. CASE v = Reading!Null
  <2>1. v.null
    BY <1>3 DEF Reading!Null
  <2>2. x = Reading!Zero \/ x = Reading!NoDigits
    <3>1. CASE vxtype = "Decimal"
      BY <2>1, <3>1 DEF Reading!Sent
    <3>2. CASE vxtype # "Decimal"
      <4>1. vxtype \in Reading!NumberTypes \ {"Decimal"}
        BY <3>2 DEF NumberTexts, Reading!NumberTypes
      <4>2. vxtype # "Bool" /\ vxtype # "DateTime"
        BY DEF NumberTexts
      <4>3. x = CASE ~v.null -> v.value
                  [] v.null /\ vxtype = "Decimal" -> Reading!NoDigits
                  [] v.null /\ vxtype \in Reading!NumberTypes \ {"Decimal"} -> Reading!Zero
                  [] v.null /\ vxtype = "Bool" -> [letter |-> "0"]
                  [] v.null /\ vxtype = "DateTime" ->
                       [day |-> Reading!UnixEpochDay, sec |-> 0, usec |-> 0]
                  [] OTHER -> <<>>
        BY DEF Reading!Sent
      <4>4. x = Reading!Zero
        <5> HIDE DEF x
        <5>1. QED BY <2>1, <3>2, <4>1, <4>2, <4>3
      <4>5. QED BY <4>4
    <3>3. QED BY <3>1, <3>2
  <2> HIDE DEF x
  <2>3. IsDecimal(x)
    BY <1>1, <2>2
  <2>4. Reading!LettersOf(x) \in 0..MostLetters[vxtype]
    BY <1>1, <1>2, <2>2
  <2>5. QED BY <2>1, <2>3, <2>4 DEF x
<1>4. CASE v # Reading!Null
  <2>1. PICK y : v = Reading!NotNull(y) /\ IsValue(vxtype, y)
    BY <1>4 DEF IsField
  <2>2. ~v.null /\ v.value = y
    BY <2>1 DEF Reading!NotNull
  <2>3. x = y
    BY <2>2 DEF Reading!Sent
  <2>4. IsDecimal(y) /\ Reading!LettersOf(y) \in 1..MostLetters[vxtype]
    BY <2>1 DEF IsValue
  <2>5. QED BY <2>2, <2>3, <2>4
<1>5. QED BY <1>3, <1>4

LEMMA AsReadIs ==
  ASSUME NEW vxtype, NEW v, NEW ctype, NEW cb
  PROVE  LET pg == Reading!VxTypeToPgType[vxtype]
             x == Reading!Sent(vxtype, v).data
         IN Reading!AsRead(vxtype, v, ctype, cb) =
              IF ctype = "CHAR" /\ pg \in Reading!Exact \cup Reading!Floating
              THEN Reading!NumberText(x, cb)
              ELSE Reading!ConvertFixed(pg, x, ctype, cb, Reading!UnixEpochDay)
<1>1. /\ Reading!ProcessField(Reading!Sent(vxtype, v)).null = FALSE
      /\ Reading!ProcessField(Reading!Sent(vxtype, v)).value = Reading!Sent(vxtype, v).data
  BY DEF Reading!ProcessField
<1>2. QED BY <1>1 DEF Reading!AsRead, Reading!GetFixed

LEMMA TextOfNumber ==
  ASSUME NEW x, NEW n \in Nat, Reading!LettersOf(x) = n, NEW cb \in Nat, n + 1 <= cb
  PROVE  Reading!NumberText(x, cb) = Reading!Converted("OK", n, <<x>>)
<1> DEFINE letters == [i \in 1..n |-> "0"]
<1>1. Len(letters) = n
  OBVIOUS
<1> HIDE DEF letters
<1>2. Reading!NeededAtFirst("CHAR", letters) = 1 * n + 1
  BY <1>1 DEF Reading!NeededAtFirst, Reading!Unit, Reading!Terminator
<1>3. ~(Reading!NeededAtFirst("CHAR", letters) > cb)
  BY <1>2
<1>4. Reading!NumberText(x, cb) =
        IF Reading!NeededAtFirst("CHAR", letters) > cb
        THEN Reading!Converted("TRUNCATED", n, <<"its beginning">>)
        ELSE Reading!Converted("OK", n, <<x>>)
  BY Zenon DEF Reading!NumberText, letters
<1>5. QED BY <1>3, <1>4, Zenon

PgOf == [Int64 |-> "INT8", Int32 |-> "INT4", Int16 |-> "INT2", Double |-> "FLOAT8",
         Decimal |-> "NUMERIC", Bool |-> "BOOL", DateTime |-> "DATETIME"]
LEMMA PgTypesOf ==
  ASSUME NEW vxtype \in Reading!FixedTypes
  PROVE  Reading!VxTypeToPgType[vxtype] = PgOf[vxtype]
  BY DEF Reading!FixedTypes, Reading!NumberTypes, Reading!VxTypeToPgType, PgOf

\* a number is read as a text: cut, when its letters are more than announced
LEMMA NumberRead ==
  ASSUME NEW vxtype \in NumberTexts, NEW v, IsField(vxtype, v), NEW room \in Nat
  PROVE  \E n \in (IF v.null THEN 0 ELSE 1)..MostLetters[vxtype] :
           /\ n = Reading!LettersOf(Reading!Sent(vxtype, v).data)
           /\ LET r == Reading!AsRead(vxtype, v, "CHAR", room + 1)
              IN IF n <= room THEN FitsRoom(r, v, room) ELSE r.ret = "TRUNCATED" /\ r.len = n
<1> DEFINE x == Reading!Sent(vxtype, v).data
           r == Reading!AsRead(vxtype, v, "CHAR", room + 1)
<1>1. PgOf[vxtype] \in Reading!Exact \cup Reading!Floating /\ vxtype \in Reading!FixedTypes
  BY DEF NumberTexts, PgOf, Reading!Exact, Reading!Integral, Reading!Floating,
         Reading!FixedTypes, Reading!NumberTypes
<1>2. r = Reading!NumberText(x, room + 1)
  BY <1>1, AsReadIs, PgTypesOf
<1>3. Reading!LettersOf(x) \in (IF v.null THEN 0 ELSE 1)..MostLetters[vxtype]
  BY SentNumber
<1> HIDE DEF x, r
<1>4. MostLetters[vxtype] \in Nat
  BY DEF NumberTexts, MostLetters
<1>5. PICK n \in Nat : n = Reading!LettersOf(x) /\ n \in (IF v.null THEN 0 ELSE 1)..MostLetters[vxtype]
  BY <1>3, <1>4
<1>6. CASE n <= room
  <2>1. room + 1 \in Nat /\ n + 1 <= room + 1 /\ n \in (IF v.null THEN 0 ELSE 1)..room
    BY <1>4, <1>5, <1>6
  <2>2. r = Reading!Converted("OK", n, <<x>>)
    BY <1>2, <1>5, <2>1, TextOfNumber
  <2>3. FitsRoom(r, v, room)
    BY <2>1, <2>2, FitsWhen
  <2>4. QED BY <1>5, <1>6, <2>3 DEF x, r
<1>7. CASE ~(n <= room)
  <2> DEFINE letters == [i \in 1..n |-> "0"]
             part == <<"its beginning">>
  <2> HIDE DEF part
  <2>1. Len(letters) = n
    OBVIOUS
  <2>2. Reading!NumberText(x, room + 1) =
          IF Reading!NeededAtFirst("CHAR", letters) > room + 1
          THEN Reading!Converted("TRUNCATED", n, part)
          ELSE Reading!Converted("OK", n, <<x>>)
    BY <1>5, Zenon DEF Reading!NumberText, part
  <2> HIDE DEF letters
  <2>3. Reading!NeededAtFirst("CHAR", letters) > room + 1
    BY <1>5, <1>7, <2>1 DEF Reading!NeededAtFirst, Reading!Unit, Reading!Terminator
  <2>4. r.ret = "TRUNCATED" /\ r.len = n
    BY <1>2, <2>2, <2>3 DEF Reading!Converted
  <2>5. QED BY <1>5, <1>7, <2>4 DEF x, r
<1>8. QED BY <1>6, <1>7

\* of a type whose announced length is never too short
LEMMA NumberFits ==
  ASSUME NEW vxtype \in NumberTexts, NEW v, IsField(vxtype, v), NEW room \in Nat,
         MostLetters[vxtype] <= room
  PROVE  FitsRoom(Reading!AsRead(vxtype, v, "CHAR", room + 1), v, room)
<1>1. PICK n \in (IF v.null THEN 0 ELSE 1)..MostLetters[vxtype] :
        LET r == Reading!AsRead(vxtype, v, "CHAR", room + 1)
        IN IF n <= room THEN FitsRoom(r, v, room) ELSE r.ret = "TRUNCATED" /\ r.len = n
  BY NumberRead, Zenon
<1>2. MostLetters[vxtype] \in Nat
  BY DEF NumberTexts, MostLetters
<1>3. n <= room
  BY <1>2
<1>4. QED BY <1>1, <1>3, Zenon

\* what the announced length of a value promises of a read of it
AsAnnounced(vxtype, v, r, room) ==
  IF vxtype = "Decimal" /\ ~v.null /\ Reading!LettersOf(v.value) > Reading!Announced
  THEN r.ret = "TRUNCATED" /\ r.len = Reading!LettersOf(v.value)
  ELSE FitsRoom(r, v, room)

LEMMA DecimalFits ==
  ASSUME NEW v, IsField("Decimal", v), NEW room, room = 30
  PROVE  AsAnnounced("Decimal", v, Reading!AsRead("Decimal", v, "CHAR", room + 1), room)
<1> DEFINE r == Reading!AsRead("Decimal", v, "CHAR", room + 1)
           x == Reading!Sent("Decimal", v).data
<1>1. "Decimal" \in NumberTexts /\ room \in Nat /\ MostLetters["Decimal"] = 31
  BY DEF NumberTexts, MostLetters
<1>2. PICK n \in (IF v.null THEN 0 ELSE 1)..MostLetters["Decimal"] :
        /\ n = Reading!LettersOf(x)
        /\ IF n <= room THEN FitsRoom(r, v, room) ELSE r.ret = "TRUNCATED" /\ r.len = n
  BY <1>1, NumberRead, Zenon
<1>3. v.null \in BOOLEAN
  BY FieldNull
<1>4. ~v.null => x = v.value
  BY DEF Reading!Sent
<1>5. v.null => n = 0
  <2>1. v.null => x = Reading!NoDigits
    BY DEF Reading!Sent
  <2>2. Reading!LettersOf(Reading!NoDigits) = 0
    BY DEF Reading!LettersOf, Reading!NoDigits
  <2>3. QED BY <1>2, <2>1, <2>2, Zenon
<1> HIDE DEF r, x
<1>6. CASE v.null
  BY <1>1, <1>2, <1>5, <1>6 DEF AsAnnounced, r
<1>7. CASE ~v.null
  <2>1. CASE n <= 30
    BY <1>2, <1>4, <1>7, <2>1 DEF AsAnnounced, Reading!Announced, r
  <2>2. CASE ~(n <= 30)
    BY <1>2, <1>4, <1>7, <2>2 DEF AsAnnounced, Reading!Announced, r
  <2>3. QED BY <2>1, <2>2
<1>8. QED BY <1>3, <1>6, <1>7

\* what the driver announces of a column of a result
LEMMA Announced ==
  ASSUME NEW link, NEW vxtype \in Reading!FixedTypes, NEW v, column = Fetched1(link, vxtype, v)
  PROVE  LET col == Reading!ResultColumn(vxtype)
         IN /\ col.type = PgOf[vxtype] /\ col.catalog = FALSE /\ col.size = -1
            /\ Reading!Attribute("COLUMN_LENGTH") =
                 Reading!AtLeast0(Reading!BufferLength(link, PgOf[vxtype], col, "max"))
            /\ Reading!Attribute("DISPLAY_SIZE") = Reading!DisplaySize(PgOf[vxtype], col, "max")
<1> DEFINE col == Reading!ResultColumn(vxtype)
<1>1. col.type = PgOf[vxtype] /\ col.catalog = FALSE /\ col.size = -1
  BY PgTypesOf DEF Reading!ResultColumn
<1>2. column.conn = link /\ column.vxtype = vxtype
  BY DEF Fetched1
<1> HIDE DEF col
<1>3. /\ DOMAIN Reading!ColumnAttributes(link, col) =
           {"AUTO_INCREMENT", "CASE_SENSITIVE", "DISPLAY_SIZE", "LABEL", "NAME", "COLUMN_LENGTH", "MONEY",
            "NULLABLE", "OWNER_NAME", "COLUMN_PRECISION", "QUALIFIER_NAME", "COLUMN_SCALE", "SEARCHABLE"}
      /\ Reading!ColumnAttributes(link, col)["COLUMN_LENGTH"] =
           Reading!AtLeast0(Reading!BufferLength(link, col.type, col, "max"))
      /\ Reading!ColumnAttributes(link, col)["DISPLAY_SIZE"] = Reading!DisplaySize(col.type, col, "max")
  BY DEF Reading!ColumnAttributes
<1>4. ASSUME NEW attr \in {"COLUMN_LENGTH", "DISPLAY_SIZE"}
      PROVE  Reading!Attribute(attr) = Reading!ColumnAttributes(link, col)[attr]
  <2>1. attr \in DOMAIN Reading!ColumnAttributes(link, col)
    BY <1>3
  <2>2. Reading!AttributeOf(link, col, attr) = Reading!ColumnAttributes(link, col)[attr]
        /\ attr \in Reading!AttributesOf(link, col)
    BY <2>1, Zenon DEF Reading!AttributeOf, Reading!AttributesOf
  <2>3. attr # "COUNT" /\ attr \notin Reading!TextAttributes
    BY DEF Reading!TextAttributes
  <2>4. Len(<<col>>) = 1 /\ <<col>>[1] = col /\ ~(1 > 1) /\ 1 # 0
    OBVIOUS
  <2>5. Reading!ColAttributes(link, <<col>>, 1, attr, 64, FALSE) =
          Reading!Delivered(attr, Reading!AttributeOf(link, col, attr), 64)
    BY <2>2, <2>3, <2>4, Zenon DEF Reading!ColAttributes
  <2>6. Reading!Delivered(attr, Reading!AttributeOf(link, col, attr), 64).value =
          Reading!AttributeOf(link, col, attr)
    BY <2>3 DEF Reading!Delivered, Reading!Reply
  <2>7. QED BY <1>2, <2>2, <2>5, <2>6, Zenon DEF Reading!Attribute, col
<1>5. QED BY <1>1, <1>3, <1>4 DEF col

Converts(ftype, x, ctype, today, cb, r) ==
  /\ ctype = "CHAR" => r = Reading!FixedText(ftype, x, Reading!SimpleTime(ftype, x, today), cb)
  /\ ctype \in {"TIMESTAMP", "TYPE_TIMESTAMP"} =>
       r = Reading!TimestampStruct(Reading!SimpleTime(ftype, x, today))
  /\ ctype = "SBIGINT" => r = Reading!Converted("OK", 8, <<Reading!NumberOf(ftype, x)>>)
  /\ ctype = "DOUBLE" => r = Reading!Converted("OK", 8, <<Reading!NumberOf(ftype, x)>>)
  /\ ctype \in {"SLONG", "SSHORT"} =>
       \E y : r = Reading!Converted("OK", IF ctype = "SLONG" THEN 4 ELSE 2, <<y>>)
  /\ ctype = "NUMERIC" =>
       r = Reading!Converted("OK", 19, <<Reading!NumericStruct(Reading!NumberOf(ftype, x))>>)

LEMMA ConvertsTo ==
  ASSUME NEW ftype, NEW x, NEW ctype, NEW cb, NEW today
  PROVE  Converts(ftype, x, ctype, today, cb, Reading!ConvertFixed(ftype, x, ctype, cb, today))
<1> DEFINE t == Reading!SimpleTime(ftype, x, today)
           n == Reading!NumberOf(ftype, x)
           low == <<Reading!LowBits(Reading!Atoi(n), ctype)>>
           len == Reading!NumberLength[ctype]
           narrow == Reading!FixedText(ftype, x, t, cb)
           wide == Reading!WideOfFixed(narrow, cb)
           stamp == Reading!TimestampStruct(t)
           date == Reading!DateStruct(t)
           time == Reading!TimeStruct(t)
           mark == Reading!Varbookmark(x, cb)
           numeric == <<Reading!NumericStruct(n)>>
           known == DOMAIN Reading!NumberLength
<1>1. Reading!ConvertFixed(ftype, x, ctype, cb, today) =
        CASE ctype = "CHAR" -> narrow
          [] ctype = "WCHAR" -> wide
          [] ctype \in {"DATE", "TYPE_DATE"} -> date
          [] ctype \in {"TIME", "TYPE_TIME"} -> time
          [] ctype \in {"TIMESTAMP", "TYPE_TIMESTAMP"} -> stamp
          [] ctype \in {"SBIGINT", "UBIGINT"} -> Reading!Converted("OK", 8, <<n>>)
          [] ctype \in known -> Reading!Converted("OK", len, low)
          [] ctype \in {"FLOAT", "DOUBLE"} ->
               Reading!Converted("OK", IF ctype = "FLOAT" THEN 4 ELSE 8, <<n>>)
          [] ctype = "BINARY" /\ ftype = "INT4" -> mark
          [] ctype = "NUMERIC" -> Reading!Converted("OK", 19, numeric)
          [] OTHER -> Reading!Converted("UNSUPPORTED_TYPE", 0, Reading!AsItWas)
  BY Zenon DEF Reading!ConvertFixed
<1>2. /\ known = {"BIT", "STINYINT", "TINYINT", "UTINYINT", "SSHORT", "SHORT", "USHORT", "SLONG",
                  "LONG", "ULONG"}
      /\ ctype = "SLONG" => len = 4
      /\ ctype = "SSHORT" => len = 2
  BY DEF Reading!NumberLength
<1>3. \E y : low = <<y>>
  OBVIOUS
<1> HIDE DEF narrow, wide, stamp, date, time, mark, numeric, known, low, len
<1> DEFINE r == Reading!ConvertFixed(ftype, x, ctype, cb, today)
<1> HIDE DEF r, n
<1>4. r = CASE ctype = "CHAR" -> narrow
          [] ctype = "WCHAR" -> wide
          [] ctype \in {"DATE", "TYPE_DATE"} -> date
          [] ctype \in {"TIME", "TYPE_TIME"} -> time
          [] ctype \in {"TIMESTAMP", "TYPE_TIMESTAMP"} -> stamp
          [] ctype \in {"SBIGINT", "UBIGINT"} -> Reading!Converted("OK", 8, <<n>>)
          [] ctype \in known -> Reading!Converted("OK", len, low)
          [] ctype \in {"FLOAT", "DOUBLE"} ->
               Reading!Converted("OK", IF ctype = "FLOAT" THEN 4 ELSE 8, <<n>>)
          [] ctype = "BINARY" /\ ftype = "INT4" -> mark
          [] ctype = "NUMERIC" -> Reading!Converted("OK", 19, numeric)
          [] OTHER -> Reading!Converted("UNSUPPORTED_TYPE", 0, Reading!AsItWas)
  BY <1>1, Zenon DEF r
<1>5. /\ ctype = "CHAR" => r = narrow
      /\ ctype \in {"TIMESTAMP", "TYPE_TIMESTAMP"} => r = stamp
      /\ ctype = "SBIGINT" => r = Reading!Converted("OK", 8, <<n>>)
      /\ ctype = "DOUBLE" => r = Reading!Converted("OK", 8, <<n>>)
      /\ ctype = "SLONG" => r = Reading!Converted("OK", 4, low)
      /\ ctype = "SSHORT" => r = Reading!Converted("OK", 2, low)
      /\ ctype = "NUMERIC" => r = Reading!Converted("OK", 19, numeric)
  BY <1>2, <1>4
<1>6. PICK y : low = <<y>>
  BY <1>3
<1>7. ctype \in {"SLONG", "SSHORT"} =>
        \E z : r = Reading!Converted("OK", IF ctype = "SLONG" THEN 4 ELSE 2, <<z>>)
  <2>1. CASE ctype = "SLONG"
    BY <1>5, <1>6, <2>1
  <2>2. CASE ctype = "SSHORT"
    BY <1>5, <1>6, <2>2
  <2>3. QED BY <2>1, <2>2
<1>8. QED BY <1>5, <1>7, Zenon DEF narrow, stamp, numeric, n, r, Converts

LEMMA ConvertsText ==
  ASSUME NEW ftype, NEW x, NEW cb, NEW today
  PROVE  Reading!ConvertFixed(ftype, x, "CHAR", cb, today) =
           Reading!FixedText(ftype, x, Reading!SimpleTime(ftype, x, today), cb)
<1> DEFINE r == Reading!ConvertFixed(ftype, x, "CHAR", cb, today)
<1>1. Converts(ftype, x, "CHAR", today, cb, r)
  BY ConvertsTo, Zenon
<1> HIDE DEF r
<1>2. r = Reading!FixedText(ftype, x, Reading!SimpleTime(ftype, x, today), cb)
  BY <1>1, Zenon DEF Converts
<1>3. QED BY <1>2 DEF r

LEMMA TruthRead ==
  ASSUME NEW v
  PROVE  \E y : Reading!AsRead("Bool", v, "CHAR", 1 + 1) = Reading!Converted("OK", 1, <<y>>)
<1> DEFINE x == Reading!Sent("Bool", v).data
           t == Reading!SimpleTime("BOOL", x, Reading!UnixEpochDay)
<1>1. /\ PgOf["Bool"] = "BOOL" /\ "BOOL" \notin Reading!Exact \cup Reading!Floating
      /\ "Bool" \in Reading!FixedTypes
  BY DEF PgOf, Reading!Exact, Reading!Integral, Reading!Floating, Reading!FixedTypes
<1>2. Reading!AsRead("Bool", v, "CHAR", 1 + 1) =
        Reading!ConvertFixed("BOOL", x, "CHAR", 1 + 1, Reading!UnixEpochDay)
  BY <1>1, AsReadIs, PgTypesOf
<1> HIDE DEF x
<1>3. Reading!ConvertFixed("BOOL", x, "CHAR", 1 + 1, Reading!UnixEpochDay) =
        Reading!FixedText("BOOL", x, t, 1 + 1)
  BY ConvertsText
<1> HIDE DEF t
<1>4. Reading!FixedText("BOOL", x, t, 1 + 1) = Reading!Converted("OK", 1, <<Reading!BoolText(x)>>)
  BY DEF Reading!FixedText
<1>5. QED BY <1>2, <1>3, <1>4

LEMMA ReadsText ==
  ASSUME NEW link \in Reading!Connections, NEW vxtype \in Reading!FixedTypes, NEW v,
         IsField(vxtype, v), column = Fetched1(link, vxtype, v)
  PROVE  LET room == Reading!Attribute("DISPLAY_SIZE")
         IN AsAnnounced(vxtype, v, Reading!AsRead(vxtype, v, "CHAR", room + 1), room)
<1> DEFINE room == Reading!Attribute("DISPLAY_SIZE")
           col == Reading!ResultColumn(vxtype)
<1>1. /\ col.type = PgOf[vxtype] /\ col.catalog = FALSE /\ col.size = -1
      /\ room = Reading!DisplaySize(PgOf[vxtype], col, "max")
  BY Announced
<1> HIDE DEF room, col
<1>2. ASSUME vxtype \in NumberTexts \ {"Decimal"}
      PROVE  FitsRoom(Reading!AsRead(vxtype, v, "CHAR", room + 1), v, room)
  <2>1. room \in Nat /\ MostLetters[vxtype] <= room
    <3>1. CASE vxtype = "Int64"
      BY <1>1, <3>1 DEF PgOf, MostLetters, Reading!DisplaySize
    <3>2. CASE vxtype = "Int32"
      BY <1>1, <3>2 DEF PgOf, MostLetters, Reading!DisplaySize
    <3>3. CASE vxtype = "Int16"
      BY <1>1, <3>3 DEF PgOf, MostLetters, Reading!DisplaySize
    <3>4. CASE vxtype = "Double"
      BY <1>1, <3>4 DEF PgOf, MostLetters, Reading!DisplaySize
    <3>5. QED BY <1>2, <3>1, <3>2, <3>3, <3>4 DEF NumberTexts
  <2>2. QED BY <1>2, <2>1, NumberFits
<1>3. ASSUME vxtype = "Bool" PROVE FitsRoom(Reading!AsRead(vxtype, v, "CHAR", room + 1), v, room)
  <2>1. room = 1
    BY <1>1, <1>3 DEF PgOf, Reading!DisplaySize, Reading!ColumnSize
  <2>2. \E x : Reading!AsRead(vxtype, v, "CHAR", 1 + 1) = Reading!Converted("OK", 1, <<x>>)
    BY <1>3, TruthRead
  <2>3. 1 \in (IF v.null THEN 0 ELSE 1)..room
    BY <2>1
  <2>4. QED BY <2>1, <2>2, <2>3, FitsWhen
<1>4. ASSUME vxtype = "DateTime" PROVE FitsRoom(Reading!AsRead(vxtype, v, "CHAR", room + 1), v, room)
  <2>1. room = 28
    BY <1>1, <1>4 DEF PgOf, Reading!DisplaySize, Reading!ColumnSize
  <2> DEFINE r == Reading!AsRead(vxtype, v, "CHAR", room + 1)
  <2>2. \E x, y : r = Reading!Converted("OK", 10, <<x>>) \/ r = Reading!Converted("OK", 19, <<x, y>>)
    <3>1. PgOf[vxtype] = "DATETIME" /\ "DATETIME" \notin Reading!Exact \cup Reading!Floating
      BY <1>4 DEF PgOf, Reading!Exact, Reading!Integral, Reading!Floating
    <3> DEFINE x == Reading!Sent(vxtype, v).data
               t == Reading!SimpleTime("DATETIME", x, Reading!UnixEpochDay)
    <3>2. r = Reading!ConvertFixed("DATETIME", x, "CHAR", room + 1, Reading!UnixEpochDay)
      BY <3>1, AsReadIs, PgTypesOf
    <3> HIDE DEF x
    <3>3. Reading!ConvertFixed("DATETIME", x, "CHAR", room + 1, Reading!UnixEpochDay) =
            Reading!FixedText("DATETIME", x, t, room + 1)
      BY ConvertsText
    <3> HIDE DEF t
    <3>4. \/ Reading!FixedText("DATETIME", x, t, room + 1) = Reading!Converted("OK", 10, <<t.day>>)
          \/ Reading!FixedText("DATETIME", x, t, room + 1) =
               Reading!Converted("OK", 19, <<t.day, t.clock>>)
      BY <2>1 DEF Reading!FixedText
    <3> HIDE DEF r
    <3>5. QED BY <3>2, <3>3, <3>4
  <2> HIDE DEF r
  <2>3. 10 \in (IF v.null THEN 0 ELSE 1)..room /\ 19 \in (IF v.null THEN 0 ELSE 1)..room
    BY <2>1
  <2>4. PICK x, y : r = Reading!Converted("OK", 10, <<x>>) \/ r = Reading!Converted("OK", 19, <<x, y>>)
    BY <2>2
  <2>5. CASE r = Reading!Converted("OK", 10, <<x>>)
    BY <2>3, <2>5, FitsWhen DEF r
  <2>6. CASE r = Reading!Converted("OK", 19, <<x, y>>)
    <3>1. <<x, y>> # Reading!AsItWas
      BY DEF Reading!AsItWas
    <3>2. r.ret = "OK" /\ r.data = <<x, y>> /\ r.len = 19
      BY <2>6 DEF Reading!Converted
    <3>3. FitsRoom(r, v, room)
      BY <2>3, <3>1, <3>2, Zenon DEF FitsRoom
    <3>4. QED BY <3>3 DEF r
  <2>7. QED BY <2>4, <2>5, <2>6
<1>5. CASE vxtype = "Decimal"
  <2>1. room = 30
    BY <1>1, <1>5 DEF PgOf, Reading!DisplaySize, Reading!NumericColumnSize
  <2>2. QED BY <1>5, <2>1, DecimalFits DEF room
<1>6. vxtype # "Decimal" => FitsRoom(Reading!AsRead(vxtype, v, "CHAR", room + 1), v, room)
  BY <1>2, <1>3, <1>4 DEF Reading!FixedTypes, Reading!NumberTypes, NumberTexts
<1>7. QED BY <1>5, <1>6 DEF AsAnnounced, room

\* the same of each other C type a column may default to
PutThere(r, len) == r.ret = "OK" /\ r.len = len /\ r.data # Reading!AsItWas
LEMMA WholeFits ==
  ASSUME NEW r, NEW len, PutThere(r, len), NEW v, NEW room, len \in (IF v.null THEN 0 ELSE 1)..room
  PROVE  FitsRoom(r, v, room)
  BY Zenon DEF PutThere, FitsRoom

LEMMA ConvertsNumber ==
  ASSUME NEW ftype, NEW x, NEW cb, NEW today, NEW ctype \in {"SBIGINT", "DOUBLE", "SLONG", "SSHORT"},
         NEW r, Converts(ftype, x, ctype, today, cb, r)
  PROVE  PutThere(r, CASE ctype \in {"SBIGINT", "DOUBLE"} -> 8
                        [] ctype = "SLONG" -> 4
                        [] ctype = "SSHORT" -> 2)
<1> DEFINE n == Reading!NumberOf(ftype, x)
<1>1. /\ ctype \in {"SBIGINT", "DOUBLE"} => r = Reading!Converted("OK", 8, <<n>>)
      /\ ctype = "SLONG" => \E y : r = Reading!Converted("OK", IF "SLONG" = "SLONG" THEN 4 ELSE 2, <<y>>)
      /\ ctype = "SSHORT" => \E y : r = Reading!Converted("OK", IF "SSHORT" = "SLONG" THEN 4 ELSE 2, <<y>>)
  BY Zenon DEF Converts
<1> HIDE DEF n
<1>2. ASSUME NEW len, NEW y, r = Reading!Converted("OK", len, <<y>>) PROVE PutThere(r, len)
  <2>1. r.ret = "OK" /\ r.len = len /\ r.data = <<y>>
    BY <1>2 DEF Reading!Converted
  <2>2. <<y>> # Reading!AsItWas
    BY DEF Reading!AsItWas
  <2>3. QED BY <2>1, <2>2 DEF PutThere
<1>3. CASE ctype \in {"SBIGINT", "DOUBLE"}
  <2>1. PutThere(r, 8)
    BY <1>1, <1>2, <1>3
  <2>2. QED BY <1>3, <2>1
<1>4. CASE ctype = "SLONG"
  <2>1. PICK y : r = Reading!Converted("OK", 4, <<y>>)
    BY <1>1, <1>4
  <2>2. PutThere(r, 4)
    BY <1>2, <2>1
  <2>3. QED BY <1>4, <2>2
<1>5. CASE ctype = "SSHORT"
  <2>1. PICK y : r = Reading!Converted("OK", 2, <<y>>)
    BY <1>1, <1>5
  <2>2. PutThere(r, 2)
    BY <1>2, <2>1
  <2>3. QED BY <1>5, <2>2
<1>6. QED BY <1>3, <1>4, <1>5

LEMMA ConvertsTime ==
  ASSUME NEW ftype, NEW x, NEW cb, NEW today, NEW ctype \in {"TIMESTAMP", "TYPE_TIMESTAMP"},
         NEW r, Converts(ftype, x, ctype, today, cb, r)
  PROVE  PutThere(r, 16)
<1> DEFINE t == Reading!SimpleTime(ftype, x, today)
<1>1. r = Reading!TimestampStruct(t)
  BY Zenon DEF Converts
<1> HIDE DEF t
<1>2. r.ret = "OK" /\ r.len = 16 /\ r.data = <<t.day, t.clock, t.fr>>
  BY <1>1 DEF Reading!TimestampStruct, Reading!Converted
<1>3. <<t.day, t.clock, t.fr>> # Reading!AsItWas
  BY DEF Reading!AsItWas
<1>4. QED BY <1>2, <1>3 DEF PutThere

LEMMA ReadsDefault ==
  ASSUME NEW link \in Reading!Connections, NEW vxtype \in Reading!FixedTypes, NEW v,
         IsField(vxtype, v), column = Fetched1(link, vxtype, v)
  PROVE  LET room == Reading!Attribute("COLUMN_LENGTH")
         IN AsAnnounced(vxtype, v, Reading!AsRead(vxtype, v, DefaultType, room + 1), room)
<1> DEFINE room == Reading!Attribute("COLUMN_LENGTH")
           col == Reading!ResultColumn(vxtype)
           x == Reading!Sent(vxtype, v).data
<1>1. /\ col.type = PgOf[vxtype] /\ col.catalog = FALSE /\ col.size = -1
      /\ room = Reading!AtLeast0(Reading!BufferLength(link, PgOf[vxtype], col, "max"))
  BY Announced
<1>2. DefaultType = Reading!DefaultConversion("DEFAULT", Reading!CType(link, PgOf[vxtype]))
  BY PgTypesOf DEF DefaultType, Fetched1
<1> HIDE DEF room, col
<1>3. /\ vxtype = "Int64" => DefaultType = IF link.jet THEN "CHAR" ELSE "SBIGINT"
      /\ vxtype = "Int32" => DefaultType = "SLONG"
      /\ vxtype = "Int16" => DefaultType = "SSHORT"
      /\ vxtype = "Double" => DefaultType = "DOUBLE"
      /\ vxtype = "Decimal" => DefaultType = "CHAR"
      /\ vxtype = "Bool" => DefaultType = "CHAR"
      /\ vxtype = "DateTime" => DefaultType \in {"TIMESTAMP", "TYPE_TIMESTAMP"}
  BY <1>2 DEF PgOf, Reading!CType, Reading!DefaultConversion
<1>4. /\ vxtype = "Int64" => room = IF link.jet THEN 20 ELSE 8
      /\ vxtype = "Int32" => room = 4
      /\ vxtype = "Int16" => room = 2
      /\ vxtype = "Double" => room = 8
      /\ vxtype = "Decimal" => room = 30
      /\ vxtype = "Bool" => room = 1
      /\ vxtype = "DateTime" => room = 16
  <2>1. CASE vxtype = "Int64"
    BY <1>1, <2>1 DEF PgOf, Reading!BufferLength, Reading!AtLeast0, Reading!CType
  <2>2. CASE vxtype = "Int32"
    BY <1>1, <2>2 DEF PgOf, Reading!BufferLength, Reading!AtLeast0
  <2>3. CASE vxtype = "Int16"
    BY <1>1, <2>3 DEF PgOf, Reading!BufferLength, Reading!AtLeast0
  <2>4. CASE vxtype = "Double"
    BY <1>1, <2>4 DEF PgOf, Reading!BufferLength, Reading!AtLeast0
  <2>5. CASE vxtype = "Decimal"
    BY <1>1, <2>5 DEF PgOf, Reading!BufferLength, Reading!AtLeast0, Reading!NumericColumnSize
  <2>6. CASE vxtype = "Bool"
    BY <1>1, <2>6 DEF PgOf, Reading!BufferLength, Reading!AtLeast0, Reading!ColumnSize
  <2>7. CASE vxtype = "DateTime"
    BY <1>1, <2>7 DEF PgOf, Reading!BufferLength, Reading!AtLeast0
  <2>8. QED BY <2>1, <2>2, <2>3, <2>4, <2>5, <2>6, <2>7
            DEF Reading!FixedTypes, Reading!NumberTypes
<1>5. DefaultType # "CHAR" =>
        Reading!AsRead(vxtype, v, DefaultType, room + 1) =
          Reading!ConvertFixed(PgOf[vxtype], x, DefaultType, room + 1, Reading!UnixEpochDay)
  BY AsReadIs, PgTypesOf
<1> HIDE DEF x
<1>6. ASSUME vxtype \in NumberTexts \ {"Decimal"}, DefaultType = "CHAR"
      PROVE  FitsRoom(Reading!AsRead(vxtype, v, DefaultType, room + 1), v, room)
  <2>1. room \in Nat /\ MostLetters[vxtype] <= room
    BY <1>3, <1>4, <1>6 DEF NumberTexts, MostLetters
  <2>2. FitsRoom(Reading!AsRead(vxtype, v, "CHAR", room + 1), v, room)
    BY <1>6, <2>1, NumberFits
  <2>3. QED BY <1>6, <2>2
<1>7. ASSUME vxtype = "Bool"
      PROVE  FitsRoom(Reading!AsRead(vxtype, v, DefaultType, room + 1), v, room)
  <2>1. room = 1 /\ DefaultType = "CHAR" /\ 1 \in (IF v.null THEN 0 ELSE 1)..room
    BY <1>3, <1>4, <1>7
  <2>2. PICK y : Reading!AsRead(vxtype, v, "CHAR", 1 + 1) = Reading!Converted("OK", 1, <<y>>)
    BY <1>7, TruthRead
  <2>3. QED BY <2>1, <2>2, FitsWhen
<1>8. ASSUME DefaultType \in {"SBIGINT", "DOUBLE", "SLONG", "SSHORT"}
      PROVE  FitsRoom(Reading!AsRead(vxtype, v, DefaultType, room + 1), v, room)
  <2> DEFINE r == Reading!ConvertFixed(PgOf[vxtype], x, DefaultType, room + 1, Reading!UnixEpochDay)
             length == CASE DefaultType \in {"SBIGINT", "DOUBLE"} -> 8
                         [] DefaultType = "SLONG" -> 4
                         [] DefaultType = "SSHORT" -> 2
  <2>01. Converts(PgOf[vxtype], x, DefaultType, Reading!UnixEpochDay, room + 1, r)
    BY ConvertsTo, Zenon
  <2> HIDE DEF r
  <2>1. PutThere(r, length)
    BY <1>8, <2>01, ConvertsNumber
  <2>2. Reading!AsRead(vxtype, v, DefaultType, room + 1) = r
    BY <1>5, <1>8 DEF r
  <2>3. room = length /\ length \in {2, 4, 8}
    BY <1>3, <1>4, <1>8 DEF Reading!FixedTypes, Reading!NumberTypes
  <2> HIDE DEF length
  <2>4. length \in (IF v.null THEN 0 ELSE 1)..room
    BY <2>3
  <2>5. QED BY <2>1, <2>2, <2>4, WholeFits
<1>9. ASSUME vxtype = "DateTime"
      PROVE  FitsRoom(Reading!AsRead(vxtype, v, DefaultType, room + 1), v, room)
  <2> DEFINE r == Reading!ConvertFixed(PgOf[vxtype], x, DefaultType, room + 1, Reading!UnixEpochDay)
  <2>0. DefaultType \in {"TIMESTAMP", "TYPE_TIMESTAMP"} /\ room = 16
    BY <1>3, <1>4, <1>9
  <2>01. Converts(PgOf[vxtype], x, DefaultType, Reading!UnixEpochDay, room + 1, r)
    BY ConvertsTo, Zenon
  <2> HIDE DEF r
  <2>1. PutThere(r, 16)
    BY <2>0, <2>01, ConvertsTime
  <2>2. Reading!AsRead(vxtype, v, DefaultType, room + 1) = r
    BY <1>5, <2>0 DEF r
  <2>3. 16 \in (IF v.null THEN 0 ELSE 1)..room
    BY <2>0
  <2>4. QED BY <2>1, <2>2, <2>3, WholeFits
<1>10. CASE vxtype = "Decimal"
  <2>1. room = 30 /\ DefaultType = "CHAR"
    BY <1>3, <1>4, <1>10
  <2>2. QED BY <1>10, <2>1, DecimalFits DEF room
<1>11. CASE vxtype # "Decimal"
  <2>1. \/ vxtype \in NumberTexts \ {"Decimal"} /\ DefaultType = "CHAR"
        \/ DefaultType \in {"SBIGINT", "DOUBLE", "SLONG", "SSHORT"}
        \/ vxtype = "Bool" \/ vxtype = "DateTime"
    BY <1>3, <1>11 DEF Reading!FixedTypes, Reading!NumberTypes, NumberTexts
  <2>2. FitsRoom(Reading!AsRead(vxtype, v, DefaultType, room + 1), v, room)
    BY <1>6, <1>7, <1>8, <1>9, <2>1
  <2>3. QED BY <1>11, <2>2 DEF AsAnnounced, room
<1>12. QED BY <1>10, <1>11

\* the number of an SQL_NUMERIC_STRUCT
LEMMA NumericFits ==
  ASSUME NEW link \in Reading!Connections, NEW v, IsField("Decimal", v), ~v.null, NEW cb
  PROVE  LET struct == Reading!AsRead("Decimal", v, "NUMERIC", cb).data[1]
             digits == v.value.whole \o v.value.frac
         IN /\ Reading!Bytes(struct.val) = Reading!Decimal(digits)
            /\ struct.sign = IF v.value.neg THEN 0 ELSE 1
            /\ struct.scale = Len(v.value.frac)
            /\ struct.precision = Len(Reading!Dropped(v.value.whole)) + Len(v.value.frac)
<1> DEFINE x == Reading!Sent("Decimal", v).data
           r == Reading!ConvertFixed("NUMERIC", x, "NUMERIC", cb, Reading!UnixEpochDay)
           value == v.value
           digits == value.whole \o value.frac
<1>1. PICK y : v = Reading!NotNull(y) /\ IsValue("Decimal", y)
  BY DEF IsField, Reading!Null
<1>2. value = y
  BY <1>1 DEF Reading!NotNull
<1>3. x = value
  BY DEF Reading!Sent
<1>4. IsDecimal(value)
  BY <1>1, <1>2 DEF IsValue, NumberTexts
<1>5. Reading!AsRead("Decimal", v, "NUMERIC", cb) = r
  <2>1. "Decimal" \in Reading!FixedTypes /\ PgOf["Decimal"] = "NUMERIC"
    BY DEF Reading!FixedTypes, Reading!NumberTypes, PgOf
  <2>2. QED BY <2>1, AsReadIs, PgTypesOf
<1>6. Converts("NUMERIC", x, "NUMERIC", Reading!UnixEpochDay, cb, r)
  BY ConvertsTo, Zenon
<1> HIDE DEF r, x
<1>7. r = Reading!Converted("OK", 19, <<Reading!NumericStruct(Reading!NumberOf("NUMERIC", x))>>)
  BY <1>6, Zenon DEF Converts
<1>8. Reading!NumberOf("NUMERIC", x) = x
  BY DEF Reading!NumberOf
<1> HIDE DEF value
<1>9. r.data[1] = Reading!NumericStruct(value)
  BY <1>3, <1>7, <1>8 DEF Reading!Converted
<1> DEFINE struct == Reading!NumericStruct(value)
<1>10. /\ struct.val = Reading!Val(digits)
       /\ struct.sign = IF value.neg THEN 0 ELSE 1
       /\ struct.scale = Len(value.frac)
       /\ struct.precision = Len(Reading!Dropped(value.whole)) + Len(value.frac)
  BY DEF Reading!NumericStruct
<1> HIDE DEF struct
<1>11. digits \in Seq(0..9)
  BY <1>4 DEF IsDecimal
<1> HIDE DEF digits
<1>12. Reading!Bytes(struct.val) = Reading!Decimal(digits)
  BY <1>10, <1>11, EveryDecimalExact, Zenon
<1>13. QED BY <1>5, <1>9, <1>10, <1>12 DEF struct, digits, value

LEMMA FixedFits == ASSUME FixedInv PROVE Reading!ValuesComeWhole
<1>1. CASE got = Reading!NotRead
  BY <1>1 DEF Reading!NotRead, Reading!ValuesComeWhole, Reading!BuffersFit, Reading!NumericIsExact
<1>2. CASE got # Reading!NotRead
  <2>0. PICK link \in Reading!Connections, vxtype \in Reading!FixedTypes :
          \E v : column = Fetched1(link, vxtype, v) /\ IsField(vxtype, v)
    BY <1>2 DEF FixedInv
  <2>1. PICK v : column = Fetched1(link, vxtype, v) /\ IsField(vxtype, v)
    BY <2>0
  <2>2. column.vxtype = vxtype /\ column.v = v /\ column.conn = link
    BY <2>1 DEF Fetched1
  <2>3. ASSUME NEW how \in {"default", "text"}, NEW ctype, NEW room,
               got = ReadAs(how, ctype, room),
               AsAnnounced(vxtype, v, Reading!AsRead(vxtype, v, ctype, room + 1), room)
        PROVE  Reading!ValuesComeWhole
    <3> DEFINE a == Reading!AsRead(vxtype, v, ctype, room + 1)
    <3>1. got = [how |-> how, room |-> room, ret |-> a.ret, len |-> a.len, data |-> a.data]
      BY <2>2, <2>3, Zenon DEF ReadAs
    <3>2. AsAnnounced(vxtype, v, a, room)
      BY <2>3
    <3> HIDE DEF a
    <3>3. /\ got.how = how /\ got.ret = a.ret /\ got.len = a.len /\ got.data = a.data
          /\ got.room = room
      BY <3>1
    <3>4. Reading!BuffersFit
      BY <2>2, <3>2, <3>3, Zenon DEF AsAnnounced, FitsRoom, Reading!BuffersFit, Reading!Beyond
    <3>5. Reading!NumericIsExact
      BY <3>3 DEF Reading!NumericIsExact
    <3>6. QED BY <3>4, <3>5 DEF Reading!ValuesComeWhole
  <2>4. CASE got = ReadAs("default", DefaultType, Reading!Attribute("COLUMN_LENGTH"))
    BY <2>1, <2>3, <2>4, ReadsDefault
  <2>5. CASE got = ReadAs("text", "CHAR", Reading!Attribute("DISPLAY_SIZE"))
    BY <2>1, <2>3, <2>5, ReadsText
  <2>6. CASE column.vxtype = "Decimal" /\ got = ReadAs("numeric", "NUMERIC", 18)
    <3> DEFINE a == Reading!AsRead("Decimal", v, "NUMERIC", 18 + 1)
    <3>1. got = [how |-> "numeric", room |-> 18, ret |-> a.ret, len |-> a.len, data |-> a.data]
      BY <2>2, <2>6, Zenon DEF ReadAs
    <3>2. ASSUME ~v.null
          PROVE  /\ Reading!Bytes(a.data[1].val) = Reading!Decimal(v.value.whole \o v.value.frac)
                 /\ a.data[1].sign = IF v.value.neg THEN 0 ELSE 1
                 /\ a.data[1].scale = Len(v.value.frac)
                 /\ a.data[1].precision =
                      Len(Reading!Dropped(v.value.whole)) + Len(v.value.frac)
      BY <2>1, <2>2, <2>6, <3>2, NumericFits, Zenon
    <3> HIDE DEF a
    <3>3. got.how = "numeric" /\ got.data = a.data
      BY <3>1
    <3>4. Reading!BuffersFit
      BY <3>3 DEF Reading!BuffersFit
    <3>5. Reading!NumericIsExact
      BY <2>2, <3>2, <3>3, Zenon DEF Reading!NumericIsExact
    <3>6. QED BY <3>4, <3>5 DEF Reading!ValuesComeWhole
  <2>7. QED BY <1>2, <2>4, <2>5, <2>6 DEF FixedInv, Reading!NoColumnYet, Reading!NotRead
<1>3. QED BY <1>1, <1>2

-----------------------------------------------------------------------------
(* The texts of the driver's information.                                    *)

LEMMA Halving ==
  ASSUME NEW n \in Nat, NEW cb \in Nat, cb % 2 = 0
  PROVE  /\ cb \div 2 \in Nat /\ 2 * (cb \div 2) = cb
         /\ n < cb \div 2 <=> 2 * n < cb
  OBVIOUS

(* A buffer never gets more than it holds; success means that every letter   *)
(* and a terminator are in it; and a buffer that has one unit more than the  *)
(* length the application was told gets success (PGAPI_GetInfo).             *)
THEOREM TextsFit ==
  ASSUME NEW c, c.unicode \in BOOLEAN, NEW n \in Nat, NEW cb \in Nat,
         c.unicode => cb % 2 = 0
  PROVE  /\ Information!InfoUnit(c) * (Information!TextInfo(c, n, cb).letters
              + IF Information!TextInfo(c, n, cb).terminated THEN 1 ELSE 0) <= cb
         /\ Information!TextInfo(c, n, cb).ret = "SUCCESS" =>
              /\ Information!TextInfo(c, n, cb).terminated
              /\ Information!InfoUnit(c) * Information!TextInfo(c, n, cb).letters
                   = Information!TextInfo(c, n, cb).len
         /\ cb = Information!TextInfo(c, n, Information!NoBuffer).len + Information!InfoUnit(c) =>
              Information!TextInfo(c, n, cb).ret = "SUCCESS"
<1> DEFINE unit == Information!InfoUnit(c)
           room == cb \div unit
           a == Information!TextInfo(c, n, cb)
<1>1. cb # Information!NoBuffer /\ Information!TextInfo(c, n, Information!NoBuffer).len = unit * n
  BY DEF Information!NoBuffer, Information!TextInfo, Information!InfoUnit
<1>2. /\ a.len = unit * n
      /\ a.terminated <=> IF c.unicode THEN n < room ELSE cb > 0
      /\ a.letters = IF n < room THEN n ELSE IF c.unicode THEN room ELSE Information!AtLeast0(room - 1)
      /\ a.ret = IF unit * n >= cb THEN "SUCCESS_WITH_INFO" ELSE "SUCCESS"
  BY <1>1 DEF Information!TextInfo, Information!InfoUnit
<1> HIDE DEF a
<1>3. CASE c.unicode
  <2>1. unit = 2 /\ room \in Nat /\ unit * room = cb /\ (n < room <=> 2 * n < cb)
    BY <1>3, Halving DEF Information!InfoUnit
  <2>2. a.letters \in Nat /\ a.letters = IF n < room THEN n ELSE room
    BY <1>2, <1>3, <2>1
  <2>3. unit * (a.letters + IF a.terminated THEN 1 ELSE 0) <= cb
    BY <1>2, <1>3, <2>1, <2>2
  <2>4. a.ret = "SUCCESS" => a.terminated /\ unit * a.letters = a.len
    BY <1>2, <1>3, <2>1, <2>2
  <2>5. cb = unit * n + unit => a.ret = "SUCCESS"
    BY <1>2, <2>1
  <2> QED BY <1>1, <2>3, <2>4, <2>5 DEF a
<1>4. CASE ~c.unicode
  <2>1. unit = 1 /\ room = cb
    BY <1>4 DEF Information!InfoUnit
  <2>2. a.letters = IF n < cb THEN n ELSE IF cb = 0 THEN 0 ELSE cb - 1
    BY <1>2, <1>4, <2>1 DEF Information!AtLeast0
  <2>3. unit * (a.letters + IF a.terminated THEN 1 ELSE 0) <= cb
    BY <1>2, <1>4, <2>1, <2>2
  <2>4. a.ret = "SUCCESS" => a.terminated /\ unit * a.letters = a.len
    BY <1>2, <1>4, <2>1, <2>2
  <2>5. cb = unit * n + unit => a.ret = "SUCCESS"
    BY <1>2, <2>1
  <2> QED BY <1>1, <2>3, <2>4, <2>5 DEF a
<1> QED BY <1>3, <1>4

\* the length of the text of an information type
InfoLength(c, type) == Len(Information!AllInfo(c)[type].text)

\* the buffer's units are whole, and one made later has room
Informed(c, type, cb, more) ==
  /\ told = Information!Heard(c, type, cb, more)
  /\ c \in InfoConns /\ type \in Information!TextTypes(c)
  /\ cb = Information!NoBuffer \/ (cb \in Nat /\ cb % Information!InfoUnit(c) = 0)
  /\ more => cb = Information!InfoUnit(c) * InfoLength(c, type) + Information!InfoUnit(c)
InfoInv ==
  told = Information!Untold \/ \E c, type, cb, more : Informed(c, type, cb, more)

LEMMA InfoAnswers ==
  ASSUME Information!InfoKnown, NEW c \in InfoConns, NEW type \in Information!TextTypes(c), NEW cb
  PROVE  /\ InfoLength(c, type) \in Nat /\ c.unicode \in BOOLEAN
         /\ Information!SQLGetInfo(c, type, cb)
              = Information!TextInfo(c, InfoLength(c, type), cb)
<1>1. type \in DOMAIN Information!AllInfo(c) /\ Information!AllInfo(c)[type].bytes = 0
  BY Zenon DEF Information!TextTypes
<1>2. Information!SQLGetInfo(c, type, cb) = Information!TextInfo(c, InfoLength(c, type), cb)
  BY <1>1, Zenon DEF Information!SQLGetInfo, Information!Deliver, InfoLength
<1>3. QED BY <1>2, Zenon DEF Information!InfoKnown, InfoLength

LEMMA InitInfoInv == Information!InitInfo => InfoInv
  BY Zenon DEF Information!InitInfo, InfoInv

LEMMA StepInfoInv ==
  ASSUME Information!InfoKnown, InfoInv, [Information!NextInfo]_told
  PROVE  InfoInv'
<1>1. CASE UNCHANGED told
  BY <1>1, Zenon DEF InfoInv, Informed, InfoLength
<1>2. ASSUME NEW c \in InfoConns, NEW cb \in InfoSizes \cup {Information!NoBuffer},
             NEW type \in Information!TextTypes(c), Information!AskInfo(c, type, cb)
      PROVE  InfoInv'
  <2>1. told' = Information!Heard(c, type, cb, FALSE)
    BY <1>2, Zenon DEF Information!AskInfo
  <2>2. cb = Information!NoBuffer \/ (cb \in Nat /\ cb % Information!InfoUnit(c) = 0)
    <3>1. cb = Information!NoBuffer \/ cb % Information!InfoUnit(c) = 0
      BY <1>2, Zenon DEF Information!AskInfo
    <3>2. cb = Information!NoBuffer \/ cb \in Nat
      BY Zenon DEF Information!InfoKnown
    <3>3. QED BY <3>1, <3>2, Zenon
  <2>3. c \in InfoConns /\ type \in Information!TextTypes(c)
    OBVIOUS
  <2>4. Informed(c, type, cb, FALSE)'
    BY <2>1, <2>2, <2>3, Zenon DEF Informed
  <2>5. QED BY <2>4, Zenon DEF InfoInv
<1>3. CASE Information!AskInfoAgain
  <2>1. told # Information!Untold
    BY <1>3, Zenon DEF Information!AskInfoAgain
  <2>2. PICK c, type, cb, more : Informed(c, type, cb, more)
    BY <2>1, Zenon DEF InfoInv
  <2> DEFINE unit == Information!InfoUnit(c)
             n == InfoLength(c, type)
             room == unit * n + unit
  <2>3. /\ c \in InfoConns /\ type \in Information!TextTypes(c)
        /\ told = Information!Heard(c, type, cb, more)
    BY <2>2, Zenon DEF Informed
  <2>4. n \in Nat /\ c.unicode \in BOOLEAN
        /\ Information!SQLGetInfo(c, type, cb) = Information!TextInfo(c, n, cb)
    BY <2>3, InfoAnswers, Zenon
  <2>5. told.conn = c /\ told.type = type /\ told.answer = Information!SQLGetInfo(c, type, cb)
    BY <2>3 DEF Information!Heard
  <2> HIDE DEF n
  <2>6. told.answer.len = unit * n
    BY <2>4, <2>5 DEF Information!TextInfo, Information!InfoUnit
  <2>7. told' = Information!Heard(c, type, room, TRUE)
    BY <1>3, <2>5, <2>6, Zenon DEF Information!AskInfoAgain
  <2>8. unit \in {1, 2}
    BY DEF Information!InfoUnit
  <2> HIDE DEF unit
  <2>9. room \in Nat /\ room % unit = 0
    BY <2>4, <2>8
  <2> USE DEF unit, n
  <2>10. Informed(c, type, room, TRUE)'
    <3> HIDE DEF room
    <3>1. /\ c \in InfoConns /\ type \in Information!TextTypes(c)
          /\ room = Information!InfoUnit(c) * InfoLength(c, type) + Information!InfoUnit(c)
      BY <2>3, Zenon DEF room
    <3>2. QED BY <2>7, <2>9, <3>1, Zenon DEF Informed
  <2>11. QED BY <2>10, Zenon DEF InfoInv
<1>4. CASE Information!ForgetInfo
  BY <1>4, Zenon DEF Information!ForgetInfo, InfoInv
<1>5. QED BY <1>1, <1>2, <1>3, <1>4 DEF Information!NextInfo

LEMMA InfoComesWhole ==
  ASSUME Information!InfoKnown, InfoInv
  PROVE  Information!InfoFits
<1>1. SUFFICES ASSUME told # Information!Untold
               PROVE  Information!InfoFits
  BY Zenon DEF Information!InfoFits
<1>2. PICK c, type, cb, more : Informed(c, type, cb, more)
  BY <1>1, Zenon DEF InfoInv
<1> DEFINE unit == Information!InfoUnit(c)
           n == InfoLength(c, type)
           a == Information!TextInfo(c, n, cb)
<1>3. /\ c \in InfoConns /\ type \in Information!TextTypes(c)
      /\ told = Information!Heard(c, type, cb, more)
      /\ cb = Information!NoBuffer \/ (cb \in Nat /\ cb % unit = 0)
      /\ more => cb = unit * n + unit
  BY <1>2, Zenon DEF Informed
<1>4. n \in Nat /\ c.unicode \in BOOLEAN /\ Information!SQLGetInfo(c, type, cb) = a
  BY <1>3, InfoAnswers, Zenon
<1>5. told.conn = c /\ told.cb = cb /\ told.again = more /\ told.answer = a
  BY <1>3, <1>4 DEF Information!Heard
<1>6. unit \in {1, 2} /\ (c.unicode => unit = 2)
  BY <1>4 DEF Information!InfoUnit
<1>7. SUFFICES
        /\ cb # Information!NoBuffer => unit * (a.letters + IF a.terminated THEN 1 ELSE 0) <= cb
        /\ cb # Information!NoBuffer /\ a.ret = "SUCCESS" => a.terminated /\ unit * a.letters = a.len
        /\ more => a.ret = "SUCCESS"
  <2> HIDE DEF a
  <2>1. QED BY <1>5, Zenon DEF Information!InfoFits
<1>8. CASE cb = Information!NoBuffer
  <2>1. ~more
    <3> HIDE DEF unit, n
    <3>1. QED BY <1>3, <1>4, <1>6, <1>8 DEF Information!NoBuffer
  <2>2. QED BY <1>8, <2>1, Zenon
<1>9. CASE cb # Information!NoBuffer
  <2>1. cb \in Nat /\ (c.unicode => cb % 2 = 0)
    <3> HIDE DEF unit, n
    <3>1. QED BY <1>3, <1>6, <1>9
  <2>2. Information!TextInfo(c, n, Information!NoBuffer).len = unit * n
    BY DEF Information!TextInfo, Information!InfoUnit
  <2>3. /\ unit * (a.letters + IF a.terminated THEN 1 ELSE 0) <= cb
        /\ a.ret = "SUCCESS" => a.terminated /\ unit * a.letters = a.len
        /\ cb = unit * n + unit => a.ret = "SUCCESS"
    <3> HIDE DEF n
    <3>1. /\ unit * (a.letters + IF a.terminated THEN 1 ELSE 0) <= cb
          /\ a.ret = "SUCCESS" => a.terminated /\ unit * a.letters = a.len
          /\ cb = Information!TextInfo(c, n, Information!NoBuffer).len + unit => a.ret = "SUCCESS"
      BY <1>4, <2>1, TextsFit
    <3> HIDE DEF a, unit
    <3>2. QED BY <2>2, <3>1, Zenon
  <2>4. QED BY <1>3, <2>3, Zenon
<1>10. QED BY <1>8, <1>9

-----------------------------------------------------------------------------
(* Texts that cross the wide entries.                                        *)

LEMMA CodesAre ==
  ASSUME NEW c \in Texts!Codes
  PROVE  c \in Nat /\ c > 0 /\ c < 65536
  BY SMT DEF Texts!Codes

LEMMA TwoBytes ==
  ASSUME NEW c \in Nat, c < 2048
  PROVE  \E h \in Nat, l \in Nat :
           /\ c \div 64 = h /\ c % 64 = l /\ c = 64 * h + l /\ h < 32 /\ l < 64
           /\ (192 + h) % 32 = h /\ (128 + l) % 64 = l
<1>2. PICK h \in Nat, l \in Nat : c \div 64 = h /\ c % 64 = l /\ c = 64 * h + l /\ l < 64
  BY SMT
<1>3. c = 64 * h + l /\ l < 64
  BY <1>2, SMT
<1>4. h < 32
  BY <1>3, SMT
<1>5. (192 + h) % 32 = h /\ (128 + l) % 64 = l
  BY <1>3, <1>4, SMT
<1>6. QED BY <1>2, <1>4, <1>5, SMT

LEMMA ThreeBytes ==
  ASSUME NEW c \in Nat, c < 65536
  PROVE  \E t \in Nat, m \in Nat, l \in Nat :
           /\ c \div 4096 = t /\ (c \div 64) % 64 = m /\ c % 64 = l
           /\ c = 4096 * t + 64 * m + l /\ t < 16 /\ m < 64 /\ l < 64
           /\ (224 + t) % 16 = t /\ (128 + m) % 64 = m /\ (128 + l) % 64 = l
<1>2. PICK h \in Nat, l \in Nat : c \div 64 = h /\ c % 64 = l /\ c = 64 * h + l /\ l < 64
  BY SMT
<1>4. PICK t \in Nat, m \in Nat : h \div 64 = t /\ h % 64 = m /\ h = 64 * t + m /\ m < 64
  BY SMT
<1>5. c = 64 * h + l /\ h = 64 * t + m /\ m < 64 /\ l < 64
  BY <1>2, <1>4, SMT
<1>6. c \div 4096 = (c \div 64) \div 64
  BY SMT
<1>7. c \div 4096 = t /\ (c \div 64) % 64 = m /\ c % 64 = l
  BY <1>2, <1>4, <1>6, SMT
<1>8. c = 4096 * t + 64 * m + l
  BY <1>5, SMT
<1>9. t < 16
  BY <1>5, <1>8, SMT
<1>10. (224 + t) % 16 = t /\ (128 + m) % 64 = m /\ (128 + l) % 64 = l
  BY <1>5, <1>9, SMT
<1>11. QED BY <1>5, <1>7, <1>8, <1>9, <1>10, SMT


\* what utf8_to_ucs2_lf makes of the bytes from position i on
ByteIn(b, i) == IF i > Len(b) THEN 0 ELSE b[i]
LetterAt(b, i) ==
  IF ByteIn(b, i) < 128 THEN ByteIn(b, i)
  ELSE IF ByteIn(b, i) >= 224
  THEN 4096 * (ByteIn(b, i) % 16) + 64 * (ByteIn(b, i + 1) % 64) + (ByteIn(b, i + 2) % 64)
  ELSE 64 * (ByteIn(b, i) % 32) + (ByteIn(b, i + 1) % 64)
WidthAt(b, i) == IF ByteIn(b, i) < 128 THEN 1 ELSE IF ByteIn(b, i) >= 224 THEN 3 ELSE 2

\* the bytes w stand in b from position i on
StandsAt(w, b, i) == \A j \in 1..Len(w) : ByteIn(b, i + j - 1) = w[j]

\* a letter's bytes are one, two or three, none is zero, and wherever they
\* stand the letter is read back from them
Spells(w, c) ==
  /\ w \in Seq(Nat) /\ Len(w) > 0 /\ Len(w) <= 3
  /\ \A j \in 1..Len(w) : w[j] > 0
  /\ \A b : \A i \in Nat : StandsAt(w, b, i) => LetterAt(b, i) = c /\ WidthAt(b, i) = Len(w)

LEMMA OneByteSpells ==
  ASSUME NEW c \in Nat, c > 0, c < 128
  PROVE  Spells(<<c>>, c)
<1> DEFINE w == <<c>>
<1>1. w \in Seq(Nat) /\ Len(w) = 1 /\ w[1] = c
  BY SMT
<1> HIDE DEF w
<1>2. ASSUME NEW b, NEW i \in Nat, StandsAt(w, b, i)
      PROVE  LetterAt(b, i) = c /\ WidthAt(b, i) = Len(w)
  <2>1. i + 1 - 1 = i /\ 1 \in 1..Len(w)
    BY <1>1, SMT
  <2>2. ByteIn(b, i + 1 - 1) = w[1]
    BY <1>2, <2>1, Zenon DEF StandsAt
  <2>3. ByteIn(b, i) = c
    BY <1>1, <2>1, <2>2, Zenon
  <2>4. QED BY <1>1, <2>3, Zenon DEF LetterAt, WidthAt
<1>3. Len(w) > 0 /\ Len(w) <= 3 /\ \A j \in 1..Len(w) : w[j] > 0
  BY <1>1, SMT
<1>4. Spells(w, c)
  BY <1>1, <1>2, <1>3, Zenon DEF Spells
<1>5. QED BY <1>4 DEF w

LEMMA TwoBytesSpell ==
  ASSUME NEW c \in Nat, NEW x \in Nat, NEW y \in Nat, ~(x < 128), ~(x >= 224), y > 0,
         64 * (x % 32) + (y % 64) = c
  PROVE  Spells(<<x, y>>, c)
<1> DEFINE w == <<x, y>>
<1>1. w \in Seq(Nat) /\ Len(w) = 2 /\ w[1] = x /\ w[2] = y
  BY SMT
<1> HIDE DEF w
<1>2. ASSUME NEW b, NEW i \in Nat, StandsAt(w, b, i)
      PROVE  LetterAt(b, i) = c /\ WidthAt(b, i) = Len(w)
  <2>1. i + 1 - 1 = i /\ i + 2 - 1 = i + 1 /\ 1 \in 1..Len(w) /\ 2 \in 1..Len(w)
    BY <1>1, SMT
  <2>2. ByteIn(b, i + 1 - 1) = w[1] /\ ByteIn(b, i + 2 - 1) = w[2]
    BY <1>2, <2>1, Zenon DEF StandsAt
  <2>3. ByteIn(b, i) = x /\ ByteIn(b, i + 1) = y
    BY <1>1, <2>1, <2>2, Zenon
  <2>4. WidthAt(b, i) = 2
    BY <2>3, Zenon DEF WidthAt
  <2>5. LetterAt(b, i) = 64 * (x % 32) + (y % 64)
    BY <2>3, SMT DEF LetterAt
  <2>6. QED BY <1>1, <2>4, <2>5, Zenon
<1>3. Len(w) > 0 /\ Len(w) <= 3 /\ \A j \in 1..Len(w) : w[j] > 0
  <2>1. x > 0
    BY SMT
  <2>2. \A j \in 1..2 : j = 1 \/ j = 2
    BY SMT
  <2>3. QED BY <1>1, <2>1, <2>2, SMT
<1>4. Spells(w, c)
  BY <1>1, <1>2, <1>3, Zenon DEF Spells
<1>5. QED BY <1>4 DEF w

LEMMA ThreeBytesSpell ==
  ASSUME NEW c \in Nat, NEW x \in Nat, NEW y \in Nat, NEW z \in Nat, ~(x < 128), x >= 224, y > 0, z > 0,
         4096 * (x % 16) + 64 * (y % 64) + (z % 64) = c
  PROVE  Spells(<<x, y, z>>, c)
<1> DEFINE w == <<x, y, z>>
<1>1. w \in Seq(Nat) /\ Len(w) = 3 /\ w[1] = x /\ w[2] = y /\ w[3] = z
  BY SMT
<1> HIDE DEF w
<1>2. ASSUME NEW b, NEW i \in Nat, StandsAt(w, b, i)
      PROVE  LetterAt(b, i) = c /\ WidthAt(b, i) = Len(w)
  <2>1. /\ i + 1 - 1 = i /\ i + 2 - 1 = i + 1 /\ i + 3 - 1 = i + 2
        /\ 1 \in 1..Len(w) /\ 2 \in 1..Len(w) /\ 3 \in 1..Len(w)
    BY <1>1, SMT
  <2>2. ByteIn(b, i + 1 - 1) = w[1] /\ ByteIn(b, i + 2 - 1) = w[2] /\ ByteIn(b, i + 3 - 1) = w[3]
    BY <1>2, <2>1, SMT DEF StandsAt
  <2>3. ByteIn(b, i) = x /\ ByteIn(b, i + 1) = y /\ ByteIn(b, i + 2) = z
    BY <1>1, <2>1, <2>2, SMT
  <2>4. WidthAt(b, i) = 3
    BY <2>3, SMT DEF WidthAt
  <2>5. LetterAt(b, i) = 4096 * (x % 16) + 64 * (y % 64) + (z % 64)
    BY <2>3, SMT DEF LetterAt
  <2>6. QED BY <1>1, <2>4, <2>5, SMT
<1>3. Len(w) > 0 /\ Len(w) <= 3 /\ \A j \in 1..Len(w) : w[j] > 0
  <2>1. x > 0
    BY SMT
  <2>2. \A j \in 1..3 : j = 1 \/ j = 2 \/ j = 3
    BY SMT
  <2>3. QED BY <1>1, <2>1, <2>2, SMT
<1>4. Spells(w, c)
  BY <1>1, <1>2, <1>3, Zenon DEF Spells
<1>5. QED BY <1>4 DEF w

LEMMA LettersSpelled ==
  ASSUME NEW c \in Texts!Codes
  PROVE  Spells(Texts!Utf8Of(c, FALSE), c)
<1> DEFINE w == Texts!Utf8Of(c, FALSE)
           short == c < 128
           middle == c < 2048
<1>1. c \in Nat /\ c > 0 /\ c < 65536
  BY CodesAre, SMT
<1>2. CASE short
  <2>1. w = <<c>>
    BY <1>2, Zenon DEF Texts!Utf8Of
  <2> HIDE DEF w
  <2>2. Spells(<<c>>, c)
    BY <1>1, <1>2, OneByteSpells, SMT
  <2>3. Spells(w, c)
    BY <2>1, <2>2, Zenon
  <2>4. QED BY <2>3, Zenon DEF w
<1>3. CASE ~short /\ middle
  <2>1. PICK h \in Nat, l \in Nat :
           /\ c \div 64 = h /\ c % 64 = l /\ c = 64 * h + l /\ h < 32 /\ l < 64
           /\ (192 + h) % 32 = h /\ (128 + l) % 64 = l
    BY <1>1, <1>3, TwoBytes, SMT
  <2>2. w = <<192 + (c \div 64), 128 + (c % 64)>>
    BY <1>3, SMT DEF Texts!Utf8Of
  <2> HIDE DEF w
  <2>3. PICK x \in Nat, y \in Nat : x = 192 + h /\ y = 128 + l
    BY SMT
  <2>4. w = <<x, y>>
    BY <2>1, <2>2, <2>3, SMT
  <2>5. ~(x < 128) /\ ~(x >= 224) /\ y > 0
    BY <2>1, <2>3, SMT
  <2>6. 64 * (x % 32) + (y % 64) = c
    BY <2>1, <2>3, SMT
  <2>7. Spells(<<x, y>>, c)
    BY <1>1, <2>5, <2>6, TwoBytesSpell, SMT
  <2>8. Spells(w, c)
    BY <2>4, <2>7, Zenon
  <2>9. QED BY <2>8, Zenon DEF w
<1>4. CASE ~short /\ ~middle
  <2>1. PICK t \in Nat, m \in Nat, l \in Nat :
           /\ c \div 4096 = t /\ (c \div 64) % 64 = m /\ c % 64 = l
           /\ c = 4096 * t + 64 * m + l /\ t < 16 /\ m < 64 /\ l < 64
           /\ (224 + t) % 16 = t /\ (128 + m) % 64 = m /\ (128 + l) % 64 = l
    BY <1>1, ThreeBytes, SMT
  <2>2. w = <<224 + (c \div 4096), 128 + ((c \div 64) % 64), 128 + (c % 64)>>
    BY <1>4, SMT DEF Texts!Utf8Of
  <2> HIDE DEF w
  <2>3. PICK x \in Nat, y \in Nat, z \in Nat : x = 224 + t /\ y = 128 + m /\ z = 128 + l
    BY SMT
  <2>4. w = <<x, y, z>>
    BY <2>1, <2>2, <2>3, SMT
  <2>5. ~(x < 128) /\ x >= 224 /\ y > 0 /\ z > 0
    BY <2>1, <2>3, SMT
  <2>6. 4096 * (x % 16) + 64 * (y % 64) + (z % 64) = c
    BY <2>1, <2>3, SMT
  <2>7. Spells(<<x, y, z>>, c)
    BY <1>1, <2>5, <2>6, ThreeBytesSpell, SMT
  <2>8. Spells(w, c)
    BY <2>4, <2>7, Zenon
  <2>9. QED BY <2>8, Zenon DEF w
<1> HIDE DEF short, middle
<1>5. QED BY <1>2, <1>3, <1>4, Zenon


\* the pieces a text was made of stand where the ones before them end
InPlace(n, p, f, i) ==
  /\ Len(f[i]) = Len(f[i - 1]) + Len(p[i])
  /\ Len(f[i]) <= Len(f[n])
  /\ \A j \in 1..Len(p[i]) : f[n][Len(f[i - 1]) + j] = p[i][j]

LEMMA AppendedPieces ==
  ASSUME NEW X, NEW n \in Nat, NEW p, \A i \in 1..n : p[i] \in Seq(X), NEW f, Appended(n, p, f),
         NEW i \in 1..n
  PROVE  InPlace(n, p, f, i)
<1>1. \A k \in 0..n : f[k] \in Seq(X)
  BY AppendedIsSeq, Zenon
<1>2. f[0] = <<>> /\ \A k \in 1..n : f[k] = f[k - 1] \o p[k]
  BY AppendedAt, Zenon
<1>3. PICK h \in Nat : h = i - 1 /\ h \in 0..n
  OBVIOUS
<1>4. f[i] = f[h] \o p[i] /\ f[h] \in Seq(X) /\ p[i] \in Seq(X) /\ f[i] \in Seq(X)
  <2>1. f[i] = f[i - 1] \o p[i]
    BY <1>2, Zenon
  <2>2. i \in 0..n
    BY SMT
  <2>3. QED BY <1>1, <1>3, <2>1, <2>2, Zenon
<1>5. PICK a \in Nat : a = Len(f[h])
  BY <1>4
<1>6. PICK l \in Nat : l = Len(p[i])
  BY <1>4
<1>7. Len(f[i]) = a + l /\ \A j \in 1..l : f[i][a + j] = p[i][j]
  <2>1. Len(f[h] \o p[i]) = Len(f[h]) + Len(p[i])
    BY <1>4, ConcatProperties, Zenon
  <2>2. \A j \in 1..Len(f[h]) + Len(p[i]) :
          (f[h] \o p[i])[j] = IF j <= Len(f[h]) THEN f[h][j] ELSE p[i][j - Len(f[h])]
    BY <1>4, ConcatProperties, Zenon
  <2>3. ASSUME NEW j \in 1..l PROVE f[i][a + j] = p[i][j]
    <3>1. a + j \in 1..a + l /\ ~(a + j <= a) /\ a + j - a = j
      BY SMT
    <3>2. \A k \in 1..a + l : (f[h] \o p[i])[k] = IF k <= a THEN f[h][k] ELSE p[i][k - a]
      BY <1>5, <1>6, <2>2, Zenon
    <3>3. (f[h] \o p[i])[a + j] = p[i][a + j - a]
      <4> DEFINE k == a + j
      <4> HIDE DEF k
      <4>1. k \in 1..a + l /\ ~(k <= a)
        BY <3>1, Zenon DEF k
      <4>2. (f[h] \o p[i])[k] = p[i][k - a]
        BY <3>2, <4>1, Zenon
      <4>3. QED BY <4>2, SMT DEF k
    <3>4. QED BY <1>4, <3>1, <3>3, Zenon
  <2>4. QED BY <1>4, <1>5, <1>6, <2>1, <2>3, Zenon
<1> DEFINE S == {k \in Nat : Len(f[i + k]) >= a + l /\ \A j \in 1..(a + l) : f[i + k][j] = f[i][j]}
<1>8. 0 \in S
  BY <1>7
<1>9. ASSUME NEW k \in 0..(n - i - 1), k \in S PROVE k + 1 \in S
  <2>1. PICK m \in 1..n : m = i + k /\ m + 1 \in 1..n /\ m + 1 - 1 = m
    OBVIOUS
  <2>2. f[m + 1] = f[m] \o p[m + 1] /\ f[m] \in Seq(X) /\ p[m + 1] \in Seq(X)
    <3>1. PICK q \in 1..n : q = m + 1 /\ q - 1 = m
      BY <2>1
    <3>2. f[q] = f[q - 1] \o p[q]
      BY <1>2, Zenon
    <3>3. QED BY <1>1, <3>1, <3>2
  <2>3. PICK b \in Nat : b = Len(f[m])
    BY <2>2
  <2>4. PICK e \in Nat : e = Len(p[m + 1])
    BY <2>2
  <2>5. Len(f[m + 1]) = b + e /\ \A j \in 1..b : f[m + 1][j] = f[m][j]
    <3>1. Len(f[m] \o p[m + 1]) = Len(f[m]) + Len(p[m + 1])
      BY <2>2, ConcatProperties, Zenon
    <3>2. \A j \in 1..Len(f[m]) + Len(p[m + 1]) :
            (f[m] \o p[m + 1])[j] = IF j <= Len(f[m]) THEN f[m][j] ELSE p[m + 1][j - Len(f[m])]
      BY <2>2, ConcatProperties, Zenon
    <3>3. ASSUME NEW j \in 1..b PROVE f[m + 1][j] = f[m][j]
      <4>1. j \in 1..b + e /\ j <= b
        BY SMT
      <4>2. (f[m] \o p[m + 1])[j] = f[m][j]
        BY <2>3, <2>4, <3>2, <4>1, Zenon
      <4>3. QED BY <2>2, <4>2, Zenon
    <3>4. QED BY <2>2, <2>3, <2>4, <3>1, <3>3, Zenon
  <2>6. b >= a + l /\ \A j \in 1..(a + l) : f[m][j] = f[i][j]
    BY <1>9, <2>1, <2>3
  <2>7. Len(f[m + 1]) >= a + l /\ \A j \in 1..(a + l) : f[m + 1][j] = f[i][j]
    BY <2>5, <2>6
  <2>8. i + (k + 1) = m + 1 /\ k + 1 \in Nat
    BY <2>1
  <2>9. QED BY <2>7, <2>8
<1>10. PICK d \in Nat : d = n - i
  OBVIOUS
<1>11. d \in S
  <2> HIDE DEF S
  <2>1. 0..d \subseteq S
    BY <1>8, <1>9, <1>10, UpTo
  <2>2. QED BY <2>1
<1>12. i + d = n
  BY <1>10
<1>13. Len(f[n]) >= a + l /\ \A j \in 1..(a + l) : f[n][j] = f[i][j]
  BY <1>11, <1>12
<1>14. f[n] \in Seq(X)
  BY <1>1
<1>15. PICK z \in Nat : z = Len(f[n])
  BY <1>14
<1>16. ASSUME NEW j \in 1..l PROVE f[n][a + j] = p[i][j]
  <2>1. a + j \in 1..(a + l)
    BY SMT
  <2>2. f[n][a + j] = f[i][a + j] /\ f[i][a + j] = p[i][j]
    BY <1>7, <1>13, <2>1, Zenon
  <2>3. QED BY <2>2, Zenon
<1>17. QED BY <1>3, <1>5, <1>6, <1>7, <1>13, <1>15, <1>16 DEF InPlace


-----------------------------------------------------------------------------
(* What went through ucs2_to_utf8 comes back through utf8_to_ucs2.           *)

AsBytes(text) == Texts!Ucs2ToUtf8(text, FALSE)
Narrow(text, f) == Appended(Len(text), [i \in 1..Len(text) |-> Texts!Utf8Of(text[i], FALSE)], f)

\* the bytes of a text, as far as each letter
LEMMA NarrowIs ==
  ASSUME NEW text \in Seq(Texts!Codes)
  PROVE  \E f : Narrow(text, f) /\ AsBytes(text) = f[Len(text)]
<1> DEFINE n == Len(text)
           L(i) == Texts!Utf8Of(text[i], FALSE)
           p == [i \in 1..n |-> L(i)]
           upto == CHOOSE upto : upto = [i \in 0..n |-> IF i = 0 THEN <<>> ELSE upto[i - 1] \o L(i)]
<1>1. n \in Nat
  BY Zenon, LenProperties
<1>2. Texts!UpToNul(text) = text
  <2>1. \A i \in DOMAIN text : text[i] # 0
    <3>1. \A i \in DOMAIN text : text[i] \in Texts!Codes
      BY SMT
    <3>2. \A c \in Texts!Codes : c # 0
      BY CodesAre, SMT
    <3>3. QED BY <3>1, <3>2, Zenon
  <2>2. QED BY <2>1, Zenon DEF Texts!UpToNul
<1>3. AsBytes(text) = upto[n]
  BY <1>2, Zenon DEF AsBytes, Texts!Ucs2ToUtf8
<1>4. ASSUME NEW f
      PROVE  Appended(n, p, f) <=> f = [i \in 0..n |-> IF i = 0 THEN <<>> ELSE f[i - 1] \o L(i)]
  <2> DEFINE A(i) == IF i = 0 THEN <<>> ELSE f[i - 1] \o p[i]
             B(i) == IF i = 0 THEN <<>> ELSE f[i - 1] \o L(i)
  <2>1. ASSUME NEW i \in 0..n PROVE A(i) = B(i)
    <3>1. CASE i = 0
      BY <3>1, Zenon
    <3>2. CASE i # 0
      <4>1. i \in 1..n
        BY <1>1, <3>2, SMT
      <4> HIDE DEF n, L
      <4>2. p[i] = L(i)
        BY <4>1, Zenon
      <4> HIDE DEF p
      <4>3. QED BY <4>2, Zenon
    <3>3. QED BY <3>1, <3>2, Zenon
  <2>2. [i \in 0..n |-> A(i)] = [i \in 0..n |-> B(i)]
    BY <2>1, Zenon
  <2>3. QED BY <2>2, Zenon DEF Appended
<1>5. Appended(n, p, upto)
  <2> HIDE DEF p, L, n
  <2>1. \E f : Appended(n, p, f)
    BY <1>1, AppendedSolved, Zenon
  <2>2. QED BY <1>4, <2>1, Zenon
<1>6. Narrow(text, upto)
  <2> HIDE DEF upto
  <2>1. QED BY <1>5, Zenon DEF Narrow
<1> HIDE DEF upto
<1>7. QED BY <1>3, <1>6, Zenon

\* where each letter's bytes stand, and how many there are
LEMMA NarrowLetters ==
  ASSUME NEW text \in Seq(Texts!Codes), NEW f, Narrow(text, f)
  PROVE  /\ f[0] = <<>> /\ f[Len(text)] \in Seq(Nat)
         /\ \A j \in 1..Len(f[Len(text)]) : f[Len(text)][j] > 0
         /\ \A i \in 1..Len(text) :
              /\ Len(f[i - 1]) \in Nat /\ Len(f[i]) \in Nat
              /\ Len(f[i]) > Len(f[i - 1]) /\ Len(f[i]) <= Len(f[i - 1]) + 3
              /\ Len(f[i]) <= Len(f[Len(text)])
              /\ LetterAt(f[Len(text)], Len(f[i - 1]) + 1) = text[i]
              /\ WidthAt(f[Len(text)], Len(f[i - 1]) + 1) = Len(f[i]) - Len(f[i - 1])
<1> DEFINE n == Len(text)
           L(i) == Texts!Utf8Of(text[i], FALSE)
           p == [i \in 1..n |-> L(i)]
           X == Nat \ {0}
<1>1. n \in Nat
  BY Zenon, LenProperties
<1>2. ASSUME NEW i \in 1..n PROVE Spells(p[i], text[i])
  <2>1. text[i] \in Texts!Codes
    BY SMT
  <2>2. Spells(L(i), text[i])
    BY <2>1, LettersSpelled, Zenon
  <2> HIDE DEF L, n
  <2>3. p[i] = L(i)
    BY Zenon
  <2>4. QED BY <2>2, <2>3, Zenon
<1>3. Appended(n, p, f)
  BY Zenon DEF Narrow
<1> HIDE DEF p
<1>4. ASSUME NEW i \in 1..n PROVE p[i] \in Seq(X)
  <2>1. p[i] \in Seq(Nat) /\ \A j \in 1..Len(p[i]) : p[i][j] > 0
    BY <1>2, Zenon DEF Spells
  <2>2. p[i] \in [1..Len(p[i]) -> X]
    <3>1. p[i] \in [1..Len(p[i]) -> Nat]
      BY <2>1, LenProperties, SMT
    <3>2. ASSUME NEW j \in 1..Len(p[i]) PROVE p[i][j] \in X
      BY <2>1, <3>1, SMT
    <3>3. QED BY <3>1, <3>2, SMT
  <2> HIDE DEF X
  <2>3. Len(p[i]) \in Nat
    BY <2>1, LenProperties, Zenon
  <2>4. QED BY <2>2, <2>3, SeqDef, SMT
<1> HIDE DEF n, X
<1>5. f[0] = <<>> /\ \A i \in 0..n : f[i] \in Seq(X)
  BY <1>1, <1>3, <1>4, AppendedAt, AppendedIsSeq, Zenon
<1>6. n \in 0..n
  BY <1>1, SMT
<1>7. f[n] \in Seq(Nat) /\ \A j \in 1..Len(f[n]) : f[n][j] > 0
  <2>1. f[n] \in Seq(X)
    BY <1>5, <1>6, Zenon
  <2>2. QED BY <2>1, SMT DEF X
<1>8. ASSUME NEW i \in 1..n
      PROVE  /\ Len(f[i - 1]) \in Nat /\ Len(f[i]) \in Nat
             /\ Len(f[i]) > Len(f[i - 1]) /\ Len(f[i]) <= Len(f[i - 1]) + 3
             /\ Len(f[i]) <= Len(f[n])
             /\ LetterAt(f[n], Len(f[i - 1]) + 1) = text[i]
             /\ WidthAt(f[n], Len(f[i - 1]) + 1) = Len(f[i]) - Len(f[i - 1])
  <2>1. i \in 0..n /\ i - 1 \in 0..n
    BY <1>1, SMT
  <2>2. f[i] \in Seq(X) /\ f[i - 1] \in Seq(X)
    BY <1>5, <2>1, Zenon
  <2>3. PICK a \in Nat : a = Len(f[i - 1])
    BY <2>2, LenProperties, Zenon
  <2>4. PICK e \in Nat : e = Len(f[i])
    BY <2>2, LenProperties, Zenon
  <2>5. InPlace(n, p, f, i)
    BY <1>1, <1>3, <1>4, AppendedPieces, Zenon
  <2>6. PICK l \in Nat : l = Len(p[i]) /\ l > 0 /\ l <= 3
    <3>1. Len(p[i]) \in Nat
      BY <1>4, LenProperties, Zenon
    <3>2. Len(p[i]) > 0 /\ Len(p[i]) <= 3
      BY <1>2, Zenon DEF Spells
    <3>3. QED BY <3>1, <3>2, Zenon
  <2>7. PICK z \in Nat : z = Len(f[n])
    BY <1>5, <1>6, LenProperties, Zenon
  <2>8. e = a + l /\ e <= z /\ \A j \in 1..l : f[n][a + j] = p[i][j]
    BY <2>3, <2>4, <2>5, <2>6, <2>7, Zenon DEF InPlace
  <2>9. StandsAt(p[i], f[n], a + 1)
    <3>1. ASSUME NEW j \in 1..l PROVE ByteIn(f[n], a + 1 + j - 1) = p[i][j]
      <4>1. a + 1 + j - 1 = a + j /\ ~(a + j > z)
        BY <2>8, SMT
      <4>2. ByteIn(f[n], a + j) = f[n][a + j]
        BY <2>7, <4>1, Zenon DEF ByteIn
      <4>3. QED BY <2>8, <4>1, <4>2, Zenon
    <3>2. QED BY <2>6, <3>1, Zenon DEF StandsAt
  <2>10. a + 1 \in Nat
    BY SMT
  <2>11. LetterAt(f[n], a + 1) = text[i] /\ WidthAt(f[n], a + 1) = l
    BY <1>2, <2>6, <2>9, <2>10, Zenon DEF Spells
  <2>12. e > a /\ e <= a + 3 /\ l = e - a
    BY <2>6, <2>8, SMT
  <2>13. QED BY <2>3, <2>4, <2>7, <2>8, <2>11, <2>12, Zenon
<1>9. QED BY <1>5, <1>7, <1>8, Zenon DEF n


FromAt(b, f, i) ==
  IF ByteIn(b, i) = 0 THEN <<>>
  ELSE IF ByteIn(b, i) < 128
       THEN (IF FALSE /\ ByteIn(b, i) = Texts!LF /\ (i = 1 \/ ByteIn(b, i - 1) # Texts!CR)
             THEN <<Texts!CR, Texts!LF>> ELSE <<ByteIn(b, i)>>)
              \o f[i + 1]
  ELSE IF ByteIn(b, i) >= 224
       THEN <<4096 * (ByteIn(b, i) % 16) + 64 * (ByteIn(b, i + 1) % 64) + (ByteIn(b, i + 2) % 64)>>
              \o f[i + 3]
  ELSE <<64 * (ByteIn(b, i) % 32) + (ByteIn(b, i + 1) % 64)>> \o f[i + 2]

LEMMA Ucs2Defined ==
  ASSUME NEW b
  PROVE  Texts!Utf8ToUcs2(b, FALSE) =
           (CHOOSE from : from = [i \in 1..Len(b) + 3 |-> FromAt(b, from, i)])[1]
  BY DEF Texts!Utf8ToUcs2, FromAt, ByteIn

LEMMA FromLetter ==
  ASSUME NEW b, NEW f, NEW i, ByteIn(b, i) # 0
  PROVE  FromAt(b, f, i) = <<LetterAt(b, i)>> \o f[i + WidthAt(b, i)]
<1> DEFINE short == ByteIn(b, i) < 128
           long == ByteIn(b, i) >= 224
           two == 64 * (ByteIn(b, i) % 32) + (ByteIn(b, i + 1) % 64)
           three == 4096 * (ByteIn(b, i) % 16) + 64 * (ByteIn(b, i + 1) % 64) + (ByteIn(b, i + 2) % 64)
<1>1. FromAt(b, f, i) = IF short THEN <<ByteIn(b, i)>> \o f[i + 1]
                        ELSE IF long THEN <<three>> \o f[i + 3] ELSE <<two>> \o f[i + 2]
  BY DEF FromAt
<1>2. LetterAt(b, i) = IF short THEN ByteIn(b, i) ELSE IF long THEN three ELSE two
  BY DEF LetterAt
<1>3. WidthAt(b, i) = IF short THEN 1 ELSE IF long THEN 3 ELSE 2
  BY DEF WidthAt
<1> HIDE DEF short, long, two, three
<1>4. CASE short
  BY <1>1, <1>2, <1>3, <1>4, Zenon
<1>5. CASE ~short /\ long
  BY <1>1, <1>2, <1>3, <1>5, Zenon
<1>6. CASE ~short /\ ~long
  BY <1>1, <1>2, <1>3, <1>6, Zenon
<1>7. QED BY <1>4, <1>5, <1>6, Zenon

\* utf8_to_ucs2 reads a letter wherever there is a byte, and goes on behind it
LEMMA Ucs2Read ==
  ASSUME NEW b \in Seq(Nat), \A j \in 1..Len(b) : b[j] > 0
  PROVE  \E f : /\ Texts!Utf8ToUcs2(b, FALSE) = f[1] /\ f[Len(b) + 1] = <<>>
                /\ \A i \in 1..Len(b) : f[i] = <<LetterAt(b, i)>> \o f[i + WidthAt(b, i)]
<1> DEFINE n == Len(b)
           H(i) == <<LetterAt(b, i)>>
           W(i) == WidthAt(b, i)
           head == [i \in 1..n |-> H(i)]
           step == [i \in 1..n |-> W(i)]
           from == CHOOSE from : from = [i \in 1..n + 3 |-> FromAt(b, from, i)]
<1>1. n \in Nat
  BY LenProperties, Zenon
<1>2. \A i \in 1..n : W(i) \in 1..3
  <2>1. \A i : W(i) = 1 \/ W(i) = 2 \/ W(i) = 3
    BY Zenon DEF WidthAt
  <2>2. QED BY <2>1, SMT
<1>3. \A i \in 1..n : ByteIn(b, i) # 0 /\ ~(i > n)
  BY SMT DEF ByteIn
<1>4. \A i \in 1..n + 3 : i \in 1..n \/ i > n
  BY <1>1, SMT
<1>5. ASSUME NEW f
      PROVE  Gathered(n, 3, head, step, {}, f) <=> f = [i \in 1..n + 3 |-> FromAt(b, f, i)]
  <2> DEFINE A(i) == IF i > n \/ i \in {} THEN <<>> ELSE head[i] \o f[i + step[i]]
             B(i) == FromAt(b, f, i)
  <2>1. ASSUME NEW i \in 1..n + 3 PROVE A(i) = B(i)
    <3>1. CASE i > n
      BY <3>1, Zenon DEF FromAt, ByteIn
    <3>2. CASE i \in 1..n
      <4>1. head[i] = H(i) /\ step[i] = W(i)
        BY <3>2, Zenon
      <4>2. B(i) = H(i) \o f[i + W(i)]
        BY <1>3, <3>2, FromLetter, Zenon
      <4>3. ~(i > n \/ i \in {})
        BY <1>3, <3>2, Zenon
      <4> HIDE DEF head, step, H, W, n, B
      <4>4. QED BY <4>1, <4>2, <4>3, Zenon
    <3>3. QED BY <1>4, <3>1, <3>2, Zenon
  <2>2. [i \in 1..n + 3 |-> A(i)] = [i \in 1..n + 3 |-> B(i)]
    BY <2>1, Zenon
  <2>3. QED BY <2>2, Zenon DEF Gathered
<1>6. ASSUME NEW i \in 1..n PROVE step[i] = W(i)
  BY Zenon
<1>7. Texts!Utf8ToUcs2(b, FALSE) = from[1]
  BY Ucs2Defined, Zenon
<1> HIDE DEF step
<1>8. ASSUME NEW i \in 1..n PROVE step[i] \in 1..3
  BY <1>2, <1>6, Zenon
<1> HIDE DEF head, n, W
<1>9. Gathered(n, 3, head, step, {}, from)
  <2>1. 3 \in Nat /\ 3 > 0
    OBVIOUS
  <2>2. \E f : Gathered(n, 3, head, step, {}, f)
    BY <1>1, <1>8, <2>1, GatheredSolved, Zenon
  <2>3. QED BY <1>5, <2>2, Zenon
<1>10. from = [i \in 1..n + 3 |-> FromAt(b, from, i)]
  BY <1>5, <1>9, Zenon
<1> HIDE DEF from
<1>11. from[n + 1] = <<>>
  <2>1. n + 1 \in 1..n + 3 /\ n + 1 > n
    BY <1>1, SMT
  <2>2. ByteIn(b, n + 1) = 0
    BY <2>1, Zenon DEF ByteIn, n
  <2>3. from[n + 1] = FromAt(b, from, n + 1)
    BY <1>10, <2>1, Zenon
  <2>4. QED BY <2>2, <2>3, Zenon DEF FromAt
<1>12. ASSUME NEW i \in 1..n PROVE from[i] = <<LetterAt(b, i)>> \o from[i + WidthAt(b, i)]
  <2>1. i \in 1..n + 3
    BY <1>1, SMT
  <2>2. from[i] = FromAt(b, from, i)
    BY <1>10, <2>1, Zenon
  <2>3. QED BY <1>3, <2>2, FromLetter, Zenon
<1>13. QED BY <1>7, <1>11, <1>12, Zenon DEF n


\* a text that went through both conversions is as it was
LEMMA ComesBack ==
  ASSUME NEW text \in Seq(Texts!Codes)
  PROVE  /\ Texts!Utf8ToUcs2(AsBytes(text), FALSE) = text
         /\ AsBytes(text) \in Seq(Nat)
         /\ \A j \in 1..Len(AsBytes(text)) : AsBytes(text)[j] > 0
         /\ Len(text) <= Len(AsBytes(text))
<1> DEFINE n == Len(text)
           C == Texts!Codes
<1>1. n \in Nat
  BY LenProperties, Zenon
<1>2. PICK f : Narrow(text, f) /\ AsBytes(text) = f[n]
  BY NarrowIs, Zenon
<1>3. /\ f[0] = <<>> /\ f[n] \in Seq(Nat)
      /\ \A j \in 1..Len(f[n]) : f[n][j] > 0
      /\ \A i \in 1..n :
           /\ Len(f[i - 1]) \in Nat /\ Len(f[i]) \in Nat
           /\ Len(f[i]) > Len(f[i - 1]) /\ Len(f[i]) <= Len(f[i - 1]) + 3
           /\ Len(f[i]) <= Len(f[n])
           /\ LetterAt(f[n], Len(f[i - 1]) + 1) = text[i]
           /\ WidthAt(f[n], Len(f[i - 1]) + 1) = Len(f[i]) - Len(f[i - 1])
  BY <1>2, NarrowLetters, Zenon
<1>4. PICK g :
        /\ Texts!Utf8ToUcs2(f[n], FALSE) = g[1] /\ g[Len(f[n]) + 1] = <<>>
        /\ \A i \in 1..Len(f[n]) : g[i] = <<LetterAt(f[n], i)>> \o g[i + WidthAt(f[n], i)]
  BY <1>3, Ucs2Read, Zenon
<1> DEFINE Behind(k) == SubSeq(text, k + 1, n)
           S == {d \in Nat : d <= n => g[Len(f[n - d]) + 1] = Behind(n - d)}
<1>5. 0 \in S
  <2>1. Behind(n) = <<>>
    <3>1. n + 1 \in Int /\ n \in Int /\ n < n + 1
      BY <1>1, SMT
    <3>2. QED BY <3>1, SubSeqEmpty, Zenon
  <2>2. n - 0 = n
    BY <1>1, SMT
  <2> HIDE DEF Behind, n
  <2>3. g[Len(f[n - 0]) + 1] = Behind(n - 0)
    BY <1>4, <2>1, <2>2, Zenon
  <2>4. QED BY <2>3, SMT
<1>6. ASSUME NEW d \in 0..(n - 1), d \in S PROVE d + 1 \in S
  <2>1. PICK i \in 1..n : i = n - d /\ i - 1 = n - (d + 1) /\ i - 1 + 1 = i /\ d \in Nat /\ d + 1 \in Nat
    BY <1>1, SMT
  <2>2. g[Len(f[i]) + 1] = Behind(i)
    <3>1. d <= n
      BY <1>1, SMT
    <3> HIDE DEF Behind, n
    <3>2. g[Len(f[n - d]) + 1] = Behind(n - d)
      BY <1>6, <3>1, Zenon
    <3>3. QED BY <2>1, <3>2, Zenon
  <2>3. PICK q \in Nat : q = Len(f[i - 1]) + 1 /\ q \in 1..Len(f[n]) /\ q + (Len(f[i]) - Len(f[i - 1])) = Len(f[i]) + 1
    <3>1. PICK x \in Nat, y \in Nat, z \in Nat : x = Len(f[i - 1]) /\ y = Len(f[i]) /\ z = Len(f[n]) /\ y > x /\ y <= z
      <4>1. Len(f[n]) \in Nat
        BY <1>3, LenProperties, Zenon
      <4>2. QED BY <1>3, <4>1, Zenon
    <3>2. y > x /\ y <= z
      BY <3>1, Zenon
    <3>3. x + 1 \in Nat /\ x + 1 \in 1..z /\ x + 1 + (y - x) = y + 1
      BY <3>2, SMT
    <3>4. QED BY <3>1, <3>3, Zenon
  <2>4. g[q] = <<LetterAt(f[n], q)>> \o g[q + WidthAt(f[n], q)]
    BY <1>4, <2>3, Zenon
  <2>5. LetterAt(f[n], q) = text[i] /\ WidthAt(f[n], q) = Len(f[i]) - Len(f[i - 1])
    BY <1>3, <2>3, Zenon
  <2>6. g[q] = <<text[i]>> \o Behind(i)
    <3> HIDE DEF Behind
    <3>1. QED BY <2>2, <2>3, <2>4, <2>5, Zenon
  <2>7. <<text[i]>> \o Behind(i) = SubSeq(text, i, n)
    <3>1. n \in i..n
      BY <1>1, SMT
    <3>2. QED BY <3>1, SubSeqRecursiveFirst, Zenon
  <2>8. g[Len(f[n - (d + 1)]) + 1] = Behind(n - (d + 1))
    <3>1. g[Len(f[i - 1]) + 1] = Behind(i - 1)
      BY <2>1, <2>3, <2>6, <2>7, Zenon
    <3> HIDE DEF Behind, n
    <3>2. QED BY <2>1, <3>1, Zenon
  <2> HIDE DEF Behind
  <2>9. QED BY <2>1, <2>8, Zenon
<1>7. n \in S
  <2> HIDE DEF S, n
  <2>1. 0..n \subseteq S
    BY <1>1, <1>5, <1>6, UpTo, Zenon
  <2>2. n \in 0..n
    BY <1>1, SMT
  <2>3. QED BY <2>1, <2>2, Zenon
<1>8. g[1] = text
  <2>1. n <= n /\ n - n = 0 /\ 0 + 1 = 1
    BY <1>1, SMT
  <2>2. Behind(0) = text
    BY <2>1, SubSeqFull, Zenon
  <2>3. Len(f[0]) + 1 = 1
    <3>1. Len(<<>>) = 0
      BY EmptySeq, Zenon
    <3>2. QED BY <1>3, <2>1, <3>1, Zenon
  <2> HIDE DEF Behind, n
  <2>4. g[Len(f[n - n]) + 1] = Behind(n - n)
    BY <1>7, <2>1, Zenon
  <2>5. QED BY <2>1, <2>2, <2>3, <2>4, Zenon
<1>9. n <= Len(f[n])
  <2> DEFINE T == {k \in Nat : k <= n => Len(f[k]) \in Nat /\ k <= Len(f[k])}
  <2>1. 0 \in T
    BY <1>3, EmptySeq, SMT
  <2>2. ASSUME NEW k \in 0..(n - 1), k \in T PROVE k + 1 \in T
    <3>1. PICK i \in 1..n : i = k + 1 /\ i - 1 = k /\ k \in Nat /\ k <= n /\ i \in Nat
      BY <1>1, SMT
    <3>2. Len(f[k]) \in Nat /\ k <= Len(f[k])
      BY <2>2, <3>1, Zenon
    <3>3. Len(f[i]) \in Nat /\ Len(f[i]) > Len(f[k])
      BY <1>3, <3>1, Zenon
    <3>4. PICK x \in Nat, y \in Nat : x = Len(f[k]) /\ y = Len(f[i]) /\ k <= x /\ y > x
      BY <3>2, <3>3, Zenon
    <3>5. i <= y
      BY <3>1, <3>4, SMT
    <3>6. QED BY <3>1, <3>4, <3>5, SMT
  <2> HIDE DEF T, n
  <2>3. 0..n \subseteq T
    BY <1>1, <2>1, <2>2, UpTo, Zenon
  <2>4. n \in 0..n /\ n <= n
    BY <1>1, SMT
  <2>5. n \in T
    BY <2>3, <2>4, Zenon
  <2>6. QED BY <2>4, <2>5, Zenon DEF T
<1>10. QED BY <1>2, <1>3, <1>4, <1>8, <1>9, Zenon DEF n


-----------------------------------------------------------------------------
(* The answers of the wide entries.                                          *)

\* what an entry answers: success is of the whole name, and what is reported
\* says how large the buffer must be
Enough(entry) ==
  IF entry = "SQLColAttributeW" THEN 2 * Len(name) + 2 ELSE Len(name) + 1
Telling(entry, cb, a) ==
  /\ a.ret = "SUCCESS" => a.text = name
  /\ a.text = Texts!Prefix(name, Len(a.text))
  /\ a.len \in Nat /\ a.len + Texts!Terminator(entry) >= Enough(entry)
  /\ cb >= Enough(entry) => a.ret = "SUCCESS" /\ a.text = name /\ a.ended

LEMMA PrefixOf ==
  ASSUME NEW X, NEW s \in Seq(X), NEW k \in Nat
  PROVE  /\ Texts!Prefix(s, k) \in Seq(X)
         /\ Len(Texts!Prefix(s, k)) = IF k < Len(s) THEN k ELSE Len(s)
         /\ ~(k < Len(s)) => Texts!Prefix(s, k) = s
         /\ Texts!Prefix(s, k) = Texts!Prefix(s, Len(Texts!Prefix(s, k)))
<1>1. PICK l \in Nat : l = Len(s)
  BY LenProperties, Zenon
<1> DEFINE m == IF k < l THEN k ELSE l
<1>2. m \in Nat /\ m \in Int /\ 1 \in Int /\ m <= l /\ (~(k < l) => m = l) /\ (m < l => m = k)
  BY SMT
<1>3. Texts!Prefix(s, k) = SubSeq(s, 1, m)
  BY <1>1, Zenon DEF Texts!Prefix, Texts!Min2
<1> HIDE DEF m
<1>4. \A i \in 1..m : s[i] \in X
  <2>1. \A i \in 1..m : i \in 1..l
    BY <1>2, SMT
  <2>2. QED BY <1>1, <2>1, ElementOfSeq, Zenon
<1>5. SubSeq(s, 1, m) \in Seq(X) /\ Len(SubSeq(s, 1, m)) = m
  BY <1>2, <1>4, SubSeqProperties
<1>6. ~(k < l) => SubSeq(s, 1, m) = s
  BY <1>1, <1>2, SubSeqFull, Zenon
<1>7. Texts!Prefix(s, m) = SubSeq(s, 1, m)
  <2>1. (IF m < l THEN m ELSE l) = m
    BY <1>2, SMT
  <2>2. QED BY <1>1, <2>1, Zenon DEF Texts!Prefix, Texts!Min2
<1>8. QED BY <1>1, <1>3, <1>5, <1>6, <1>7, Zenon DEF m

\* an answer for a buffer that was asked for with its length is whole
LEMMA RetriedWhole ==
  ASSUME NEW b \in Seq(Nat), NEW guess \in Nat
  PROVE  /\ Texts!Retried(b, guess).answer.ret = "SUCCESS"
         /\ Texts!Retried(b, guess).answer.text = b
         /\ Texts!Retried(b, guess).answer.len = Len(b)
         /\ Len(b) < Texts!Retried(b, guess).size
<1>1. PICK l \in Nat : l = Len(b)
  BY LenProperties, Zenon
<1>2. ASSUME NEW cb \in Nat, l < cb
      PROVE  /\ Texts!NarrowAnswer(b, cb).ret = "SUCCESS" /\ Texts!NarrowAnswer(b, cb).len = l
             /\ Texts!NarrowAnswer(b, cb).text = b
  <2>1. cb # -1 /\ cb > 0 /\ ~(l >= cb) /\ cb - 1 \in Nat /\ ~(cb - 1 < l)
    BY <1>2, SMT
  <2>2. Texts!Prefix(b, cb - 1) = b
    BY <1>1, <2>1, PrefixOf, Zenon
  <2>3. Texts!NarrowAnswer(b, cb)
          = [ret |-> IF cb # -1 /\ l >= cb THEN "SUCCESS_WITH_INFO" ELSE "SUCCESS",
             text |-> IF cb = -1 THEN <<>> ELSE Texts!Prefix(b, IF cb > 0 THEN cb - 1 ELSE 0),
             len |-> l, ended |-> cb > 0]
    BY <1>1, Zenon DEF Texts!NarrowAnswer, Texts!StrncpyNull, Texts!NoBuffer
  <2>4. Texts!NarrowAnswer(b, cb) = [ret |-> "SUCCESS", text |-> b, len |-> l, ended |-> cb > 0]
    BY <2>1, <2>2, <2>3, Zenon
  <2>5. QED BY <2>4
<1>3. Texts!NarrowAnswer(b, guess).len = l
      /\ (l >= guess => Texts!NarrowAnswer(b, guess).ret = "SUCCESS_WITH_INFO")
  BY <1>1, SMT DEF Texts!NarrowAnswer, Texts!NoBuffer
<1> DEFINE fuller == Texts!NarrowAnswer(b, l + 1)
           once == Texts!NarrowAnswer(b, guess)
<1>4. CASE l >= guess
  <2>1. Texts!Retried(b, guess) = [answer |-> fuller, size |-> l + 1]
    BY <1>3, <1>4, Zenon DEF Texts!Retried
  <2>2. l + 1 \in Nat /\ l < l + 1
    BY SMT
  <2>3. fuller.ret = "SUCCESS" /\ fuller.len = l /\ fuller.text = b
    BY <1>2, <2>2, Zenon
  <2> HIDE DEF fuller
  <2>4. Texts!Retried(b, guess).answer = fuller /\ Texts!Retried(b, guess).size = l + 1
    BY <2>1
  <2>5. QED BY <1>1, <2>2, <2>3, <2>4, Zenon
<1>5. CASE ~(l >= guess)
  <2>1. l < guess
    BY <1>5, SMT
  <2>2. once.ret = "SUCCESS" /\ once.len = l /\ once.text = b
    BY <1>2, <2>1, Zenon
  <2>3. Texts!Retried(b, guess) = [answer |-> once, size |-> guess]
    BY <1>3, <1>5, Zenon DEF Texts!Retried
  <2> HIDE DEF once
  <2>4. Texts!Retried(b, guess).answer = once /\ Texts!Retried(b, guess).size = guess
    BY <2>3
  <2>5. QED BY <1>1, <2>1, <2>2, <2>4, Zenon
<1>6. QED BY <1>4, <1>5, Zenon


\* and it is converted as it is, and cut to the application's buffer
LEMMA WidenedWhole ==
  ASSUME NEW text \in Seq(Texts!Codes), NEW r, NEW cb \in Nat,
         r.answer.ret = "SUCCESS", r.answer.text = AsBytes(text),
         r.answer.len = Len(AsBytes(text)), Len(AsBytes(text)) < r.size
  PROVE  Texts!Widened(r, cb)
           = [ret |-> IF Len(text) > cb THEN "SUCCESS_WITH_INFO" ELSE "SUCCESS",
              text |-> Texts!Prefix(text, cb), len |-> Len(text), ended |-> Len(text) < cb]
<1>1. r.answer.len < r.size
  BY Zenon
<1>2. Texts!Utf8ToUcs2(r.answer.text, FALSE) = text
  BY ComesBack, Zenon
<1> DEFINE fits == r.answer.len < r.size
           letters == IF fits THEN Texts!Utf8ToUcs2(r.answer.text, FALSE) ELSE <<>>
           count == IF fits THEN Len(letters) ELSE r.answer.len
<1>3. fits /\ letters = text /\ count = Len(text)
  BY <1>1, <1>2, Zenon
<1>4. Texts!Widened(r, cb)
        = [ret |-> IF r.answer.ret = "SUCCESS" /\ count > cb THEN "SUCCESS_WITH_INFO"
                   ELSE r.answer.ret,
           text |-> Texts!Prefix(letters, cb), len |-> count, ended |-> fits /\ count < cb]
  BY Zenon DEF Texts!Widened
<1> HIDE DEF fits, letters, count
<1>5. (fits /\ count < cb) = (Len(text) < cb)
  BY <1>3, SMT
<1>6. (IF r.answer.ret = "SUCCESS" /\ count > cb THEN "SUCCESS_WITH_INFO" ELSE r.answer.ret)
        = IF Len(text) > cb THEN "SUCCESS_WITH_INFO" ELSE "SUCCESS"
  BY <1>3, SMT
<1>7. QED BY <1>3, <1>4, <1>5, <1>6, Zenon

\* the application's buffer counts letters; one that is too small gets a beginning
LEMMA CutToBuffer ==
  ASSUME name \in Seq(Texts!Codes), NEW entry, entry # "SQLColAttributeW", NEW cb \in Nat, NEW a,
         a = [ret |-> IF Len(name) > cb THEN "SUCCESS_WITH_INFO" ELSE "SUCCESS",
              text |-> Texts!Prefix(name, cb), len |-> Len(name), ended |-> Len(name) < cb]
  PROVE  Telling(entry, cb, a)
<1>1. PICK l \in Nat : l = Len(name)
  BY LenProperties, Zenon
<1>2. a.ret = IF l > cb THEN "SUCCESS_WITH_INFO" ELSE "SUCCESS"
  BY <1>1, SMT
<1>3. a.text = Texts!Prefix(name, cb) /\ a.len = l /\ a.ended = (l < cb)
  BY <1>1, Zenon
<1>4. Enough(entry) = l + 1 /\ Texts!Terminator(entry) = 1
  BY <1>1, Zenon DEF Enough, Texts!Terminator
<1>5. (~(cb < l) => a.text = name) /\ a.text = Texts!Prefix(name, Len(a.text))
  BY <1>1, <1>3, PrefixOf, Zenon
<1>6. a.ret = "SUCCESS" => a.text = name
  <2>1. "SUCCESS" # "SUCCESS_WITH_INFO" /\ (cb < l => l > cb)
    BY SMT
  <2>2. QED BY <1>2, <1>5, <2>1, Zenon
<1>7. cb >= l + 1 => a.ret = "SUCCESS" /\ a.text = name /\ a.ended
  <2>1. cb >= l + 1 => ~(l > cb) /\ ~(cb < l) /\ l < cb
    BY SMT
  <2>2. QED BY <1>2, <1>3, <1>5, <2>1, Zenon
<1>8. l + 1 >= l + 1
  BY SMT
<1>9. QED BY <1>3, <1>4, <1>5, <1>6, <1>7, <1>8, Zenon DEF Telling

LEMMA CursorNameTells ==
  ASSUME name \in Seq(Texts!Codes), NEW cb \in Nat
  PROVE  Telling("SQLGetCursorNameW", cb,
                 Texts!SQLGetCursorNameW(Texts!SQLSetCursorNameW(name), cb))
<1> DEFINE b == AsBytes(name)
           guess == IF cb > 0 THEN 3 * cb ELSE 32
           r == Texts!Retried(b, guess)
<1>1. b \in Seq(Nat)
  BY ComesBack, Zenon
<1>2. guess \in Nat
  BY SMT
<1>3. Texts!SQLGetCursorNameW(Texts!SQLSetCursorNameW(name), cb) = Texts!Widened(r, cb)
  BY Zenon DEF Texts!SQLGetCursorNameW, Texts!SQLSetCursorNameW, AsBytes
<1> HIDE DEF guess, b
<1>4. r.answer.ret = "SUCCESS" /\ r.answer.text = b /\ r.answer.len = Len(b) /\ Len(b) < r.size
  BY <1>1, <1>2, RetriedWhole, Zenon
<1> HIDE DEF r
<1>5. Texts!Widened(r, cb)
        = [ret |-> IF Len(name) > cb THEN "SUCCESS_WITH_INFO" ELSE "SUCCESS",
           text |-> Texts!Prefix(name, cb), len |-> Len(name), ended |-> Len(name) < cb]
  BY <1>4, WidenedWhole, Zenon DEF b
<1>6. "SQLGetCursorNameW" # "SQLColAttributeW"
  BY SMT
<1>7. QED BY <1>3, <1>5, <1>6, CutToBuffer, Zenon

LEMMA StatementTells ==
  ASSUME name \in Seq(Texts!Codes), NEW cb \in Nat
  PROVE  Telling("SQLNativeSqlW", cb, Texts!SQLNativeSqlW(name, cb))
<1> DEFINE b == AsBytes(name)
           guess == IF cb = 0 THEN Texts!NoBuffer ELSE 3 * cb
           r == Texts!Retried(b, guess)
           a == Texts!Widened(r, cb)
<1>1. b \in Seq(Nat) /\ (\A j \in 1..Len(b) : b[j] > 0) /\ Len(name) <= Len(b)
  BY ComesBack, Zenon
<1>2. Texts!NativeSql(b) = b
  <2> HIDE DEF b
  <2>1. \A i \in DOMAIN b : b[i] # 0
    BY <1>1, SMT
  <2>2. QED BY <2>1, Zenon DEF Texts!NativeSql, Texts!UpToNul
<1>3. Texts!SQLNativeSqlW(name, cb) = a
  BY <1>2, Zenon DEF Texts!SQLNativeSqlW, AsBytes
<1>4. "SQLNativeSqlW" # "SQLColAttributeW"
  BY SMT
<1>5. CASE cb # 0
  <2>1. guess \in Nat
    BY <1>5, SMT
  <2> HIDE DEF guess, b
  <2>2. r.answer.ret = "SUCCESS" /\ r.answer.text = b /\ r.answer.len = Len(b) /\ Len(b) < r.size
    BY <1>1, <2>1, RetriedWhole, Zenon
  <2> HIDE DEF r
  <2>3. a = [ret |-> IF Len(name) > cb THEN "SUCCESS_WITH_INFO" ELSE "SUCCESS",
             text |-> Texts!Prefix(name, cb), len |-> Len(name), ended |-> Len(name) < cb]
    BY <2>2, WidenedWhole, Zenon DEF b
  <2>4. QED BY <1>3, <1>4, <2>3, CutToBuffer, Zenon
<1>6. CASE cb = 0
  <2>1. PICK l \in Nat, n \in Nat : l = Len(b) /\ n = Len(name) /\ n <= l
    <3>1. Len(b) \in Nat /\ Len(name) \in Nat
      BY <1>1, LenProperties, Zenon
    <3>2. QED BY <1>1, <3>1, Zenon
  <2>2. guess = -1
    BY <1>6, Zenon DEF Texts!NoBuffer
  <2> HIDE DEF b, guess
  <2> DEFINE measured == Texts!NarrowAnswer(b, -1)
  <2>3. measured.ret = "SUCCESS" /\ measured.text = <<>> /\ measured.len = l
    BY <2>1, SMT DEF Texts!NarrowAnswer, Texts!NoBuffer
  <2>4. r.answer.ret = "SUCCESS" /\ r.answer.text = <<>> /\ r.answer.len = l /\ r.size = -1
    <3> HIDE DEF measured
    <3>1. "SUCCESS" # "SUCCESS_WITH_INFO"
      BY SMT
    <3>2. r = [answer |-> measured, size |-> -1]
      BY <2>2, <2>3, <3>1, Zenon DEF Texts!Retried, measured
    <3> HIDE DEF r
    <3>3. r.answer = measured /\ r.size = -1
      BY <3>2
    <3>4. QED BY <2>3, <3>3, Zenon
  <2> HIDE DEF r
  <2>5. a = [ret |-> IF l > 0 THEN "SUCCESS_WITH_INFO" ELSE "SUCCESS",
             text |-> Texts!Prefix(<<>>, 0), len |-> l, ended |-> FALSE]
    <3>1. ~(l < -1) /\ ~(r.answer.len < r.size)
      BY <2>4, SMT
    <3>2. QED BY <1>6, <2>4, <3>1, Zenon DEF Texts!Widened
  <2>6. Texts!Prefix(<<>>, 0) = <<>> /\ Len(<<>>) = 0 /\ Texts!Prefix(name, 0) = <<>>
    <3>1. \A s : Texts!Prefix(s, 0) = SubSeq(s, 1, 0) \/ Texts!Prefix(s, 0) = SubSeq(s, 1, Len(s))
      BY Zenon DEF Texts!Prefix, Texts!Min2
    <3>2. Len(<<>>) = 0
      BY EmptySeq, Zenon
    <3>3. SubSeq(name, 1, 0) = <<>> /\ SubSeq(<<>>, 1, 0) = <<>>
      BY SubSeqEmpty, SMT
    <3>4. Texts!Prefix(<<>>, 0) = <<>>
      BY <3>1, <3>2, <3>3, Zenon
    <3>5. Texts!Prefix(name, 0) = <<>>
      <4>1. 0 < n => Texts!Prefix(name, 0) = SubSeq(name, 1, 0)
        BY <2>1, Zenon DEF Texts!Prefix, Texts!Min2
      <4>2. n = 0 => Texts!Prefix(name, 0) = SubSeq(name, 1, 0)
        BY <2>1, SMT DEF Texts!Prefix, Texts!Min2
      <4>3. n = 0 \/ 0 < n
        BY SMT
      <4>4. QED BY <3>3, <4>1, <4>2, <4>3, Zenon
    <3>6. QED BY <3>2, <3>4, <3>5, Zenon
  <2> HIDE DEF a
  <2>7. a.ret = (IF l > 0 THEN "SUCCESS_WITH_INFO" ELSE "SUCCESS") /\ a.text = <<>> /\ a.len = l
    BY <2>5, <2>6
  <2>8. l = 0 => name = <<>>
    <3>1. l = 0 => n = 0
      BY <2>1, SMT
    <3>2. n = 0 => name = <<>>
      <4>1. name # <<>> => Len(name) \in Nat \ {0}
        BY EmptySeq, Zenon
      <4>2. QED BY <2>1, <4>1, SMT
    <3>3. QED BY <3>1, <3>2, Zenon
  <2>9. Enough("SQLNativeSqlW") = n + 1 /\ Texts!Terminator("SQLNativeSqlW") = 1
    BY <1>4, <2>1, Zenon DEF Enough, Texts!Terminator
  <2>10. l + 1 >= n + 1 /\ ~(0 >= n + 1) /\ (l > 0 \/ l = 0) /\ "SUCCESS" # "SUCCESS_WITH_INFO"
    BY <2>1, SMT
  <2>11. Telling("SQLNativeSqlW", cb, a)
    BY <1>6, <2>6, <2>7, <2>8, <2>9, <2>10, Zenon DEF Telling
  <2>12. QED BY <1>3, <2>11, Zenon DEF a
<1>7. QED BY <1>5, <1>6, Zenon


LEMMA AttributeTells ==
  ASSUME name \in Seq(Texts!Codes), NEW cb \in Nat
  PROVE  Telling("SQLColAttributeW", cb, Texts!SQLColAttributeW(AsBytes(name), cb))
<1> DEFINE b == AsBytes(name)
           guess == (3 * cb) \div 2
           r == Texts!Retried(b, guess)
           a == Texts!SQLColAttributeW(b, cb)
           h == cb \div 2
<1>1. b \in Seq(Nat)
  BY ComesBack, Zenon
<1>2. guess \in Nat
  BY SMT
<1>3. PICK l \in Nat : l = Len(name)
  BY LenProperties, Zenon
<1>4. h \in Nat /\ (2 * l < cb => ~(h < l)) /\ (cb >= 2 * l + 2 => ~(2 * l >= cb) /\ l < h)
      /\ (~(2 * l >= cb) => 2 * l < cb)
  BY SMT
<1>5. Texts!Utf8ToUcs2(b, FALSE) = name
  BY ComesBack, Zenon
<1> HIDE DEF guess, b
<1>6. r.answer.ret = "SUCCESS" /\ r.answer.text = b
  BY <1>1, <1>2, RetriedWhole, Zenon
<1>7. a = [ret |-> IF r.answer.ret = "SUCCESS" /\ 2 * Len(Texts!Utf8ToUcs2(r.answer.text, FALSE)) >= cb
                   THEN "SUCCESS_WITH_INFO" ELSE r.answer.ret,
           text |-> Texts!Prefix(Texts!Utf8ToUcs2(r.answer.text, FALSE), h),
           len |-> 2 * Len(Texts!Utf8ToUcs2(r.answer.text, FALSE)),
           ended |-> Len(Texts!Utf8ToUcs2(r.answer.text, FALSE)) < h]
  BY Zenon DEF Texts!SQLColAttributeW, guess
<1> HIDE DEF r, h, a
<1>8. a = [ret |-> IF "SUCCESS" = "SUCCESS" /\ 2 * l >= cb THEN "SUCCESS_WITH_INFO" ELSE "SUCCESS",
           text |-> Texts!Prefix(name, h), len |-> 2 * l, ended |-> l < h]
  BY <1>3, <1>5, <1>6, <1>7, Zenon
<1>9. a.ret = (IF 2 * l >= cb THEN "SUCCESS_WITH_INFO" ELSE "SUCCESS")
      /\ a.text = Texts!Prefix(name, h) /\ a.len = 2 * l /\ a.ended = (l < h)
  BY <1>8
<1>10. Enough("SQLColAttributeW") = 2 * l + 2 /\ Texts!Terminator("SQLColAttributeW") = 2
  BY <1>3, Zenon DEF Enough, Texts!Terminator
<1>11. (~(h < l) => a.text = name) /\ a.text = Texts!Prefix(name, Len(a.text))
  <2>1. /\ ~(h < Len(name)) => Texts!Prefix(name, h) = name
        /\ Texts!Prefix(name, h) = Texts!Prefix(name, Len(Texts!Prefix(name, h)))
    BY <1>4, PrefixOf, Zenon
  <2>2. QED BY <1>3, <1>9, <2>1, Zenon
<1>12. "SUCCESS" # "SUCCESS_WITH_INFO" /\ 2 * l \in Nat /\ 2 * l + 2 >= 2 * l + 2 /\ (l < h => ~(h < l))
  BY <1>4, SMT
<1>13. Telling("SQLColAttributeW", cb, a)
  BY <1>4, <1>9, <1>10, <1>11, <1>12, Zenon DEF Telling
<1>14. QED BY <1>13, Zenon DEF a, b

Asking == {"SQLNativeSqlW", "SQLGetCursorNameW", "SQLColAttributeW"}

LEMMA EntriesTell ==
  ASSUME name \in Seq(Texts!Codes), NEW entry \in Asking, NEW cb \in Nat, NEW beyond
  PROVE  Telling(entry, cb, Texts!AnswerOf(entry, cb, beyond))
<1>1. CASE entry = "SQLNativeSqlW"
  <2>1. Texts!AnswerOf(entry, cb, beyond) = Texts!SQLNativeSqlW(name, cb)
    BY <1>1 DEF Texts!AnswerOf
  <2>2. QED BY <1>1, <2>1, StatementTells, Zenon
<1>2. CASE entry = "SQLGetCursorNameW"
  <2>1. Texts!AnswerOf(entry, cb, beyond) = Texts!SQLGetCursorNameW(Texts!SQLSetCursorNameW(name), cb)
    BY <1>2 DEF Texts!AnswerOf
  <2>2. QED BY <1>2, <2>1, CursorNameTells, Zenon
<1>3. CASE entry = "SQLColAttributeW"
  <2>1. Texts!AnswerOf(entry, cb, beyond) = Texts!SQLColAttributeW(AsBytes(name), cb)
    BY <1>3 DEF Texts!AnswerOf, AsBytes
  <2>2. QED BY <1>3, <2>1, AttributeTells, Zenon
<1>4. QED BY <1>1, <1>2, <1>3, Zenon DEF Asking

-----------------------------------------------------------------------------
(* What an application has heard of a text: a second time only with a buffer *)
(* made after the first answer.                                              *)
Spoken(entry, cb, beyond, more) ==
  /\ heard = [entry |-> entry, cb |-> cb, answer |-> Texts!AnswerOf(entry, cb, beyond), again |-> more]
  /\ entry \in Texts!Entries
  /\ entry \in Asking => cb \in Nat /\ (more => cb >= Enough(entry))
HeardInv ==
  /\ name \in Seq(Texts!Codes)
  /\ heard = Texts!Unheard \/ \E entry, cb, beyond, more : Spoken(entry, cb, beyond, more)

LEMMA InitHeard == Texts!NamesKnown /\ Texts!Init => HeardInv
  BY Zenon DEF Texts!NamesKnown, Texts!Init, HeardInv

LEMMA SpokenIs ==
  ASSUME NEW entry, NEW cb, NEW beyond, NEW more, Spoken(entry, cb, beyond, more)
  PROVE  /\ heard.entry = entry /\ heard.cb = cb /\ heard.again = more
         /\ heard.answer = Texts!AnswerOf(entry, cb, beyond)
         /\ DOMAIN heard = {"entry", "cb", "answer", "again"}
<1> DEFINE a == Texts!AnswerOf(entry, cb, beyond)
<1>1. heard = [entry |-> entry, cb |-> cb, answer |-> a, again |-> more]
  BY Zenon DEF Spoken
<1> HIDE DEF a
<1>2. /\ heard.entry = entry /\ heard.cb = cb /\ heard.again = more /\ heard.answer = a
      /\ DOMAIN heard = {"entry", "cb", "answer", "again"}
  BY <1>1
<1>3. QED BY <1>2, Zenon DEF a

LEMMA StepHeard ==
  ASSUME Texts!NamesKnown, HeardInv, [Texts!Next]_<<name, heard>>
  PROVE  HeardInv'
<1>1. name' = name
  BY Zenon DEF Texts!Next, Texts!Ask, Texts!AskAgain, Texts!Forget
<1>2. name' \in Seq(Texts!Codes)
  BY <1>1, Zenon DEF HeardInv
<1>3. \A e, c, b : Texts!AnswerOf(e, c, b)' = Texts!AnswerOf(e, c, b)
  BY <1>1, Zenon DEF Texts!AnswerOf
<1>4. \A e : Enough(e)' = Enough(e)
  BY <1>1, Zenon DEF Enough
<1>5. CASE UNCHANGED heard
  <2>1. CASE heard = Texts!Unheard
    BY <1>2, <1>5, <2>1, Zenon DEF HeardInv, Texts!Unheard
  <2>2. ASSUME NEW entry, NEW cb, NEW beyond, NEW more, Spoken(entry, cb, beyond, more)
        PROVE  HeardInv'
    <3>1. heard' = [entry |-> entry, cb |-> cb, answer |-> Texts!AnswerOf(entry, cb, beyond)', again |-> more]
      BY <1>3, <1>5, <2>2, Zenon DEF Spoken
    <3>2. Spoken(entry, cb, beyond, more)'
      BY <1>4, <2>2, <3>1, Zenon DEF Spoken
    <3>3. QED BY <1>2, <3>2, Zenon DEF HeardInv
  <2>3. QED BY <2>1, <2>2, Zenon DEF HeardInv
<1>6. ASSUME NEW entry \in Texts!Entries, NEW cb \in WideBuffers, NEW beyond \in 0..1,
             Texts!Ask(entry, cb, beyond)
      PROVE  HeardInv'
  <2>1. heard' = [entry |-> entry, cb |-> cb, answer |-> Texts!AnswerOf(entry, cb, beyond), again |-> FALSE]
    BY <1>6, Zenon DEF Texts!Ask
  <2>2. cb \in Nat
    BY Zenon DEF Texts!NamesKnown
  <2>3. Spoken(entry, cb, beyond, FALSE)'
    BY <1>3, <2>1, <2>2, Zenon DEF Spoken
  <2>4. QED BY <1>2, <2>3, Zenon DEF HeardInv
<1>7. ASSUME NEW beyond \in 0..1, Texts!AskAgain(beyond) PROVE HeardInv'
  <2>1. heard # Texts!Unheard
    BY <1>7, Zenon DEF Texts!AskAgain
  <2>2. PICK entry, cb, before, more : Spoken(entry, cb, before, more)
    BY <2>1, Zenon DEF HeardInv
  <2>3. /\ heard.entry = entry /\ heard.answer = Texts!AnswerOf(entry, cb, before)
        /\ heard = [entry |-> entry, cb |-> cb, answer |-> Texts!AnswerOf(entry, cb, before), again |-> more]
    BY <2>2, SpokenIs, Zenon DEF Spoken
  <2>a. PICK room : room = Texts!AnswerOf(entry, cb, before).len + Texts!Terminator(entry)
    OBVIOUS
  <2>4. heard' = [heard EXCEPT !.cb = room, !.answer = Texts!AnswerOf(entry, room, beyond), !.again = TRUE]
    BY <1>7, <2>3, <2>a, Zenon DEF Texts!AskAgain
  <2>5. heard' = [entry |-> entry, cb |-> room, answer |-> Texts!AnswerOf(entry, room, beyond), again |-> TRUE]
    <3> DEFINE x == Texts!AnswerOf(entry, cb, before)
               y == Texts!AnswerOf(entry, room, beyond)
    <3>1. heard = [entry |-> entry, cb |-> cb, answer |-> x, again |-> more]
          /\ heard' = [heard EXCEPT !.cb = room, !.answer = y, !.again = TRUE]
      BY <2>3, <2>4, Zenon
    <3> HIDE DEF x, y
    <3>2. heard' = [entry |-> entry, cb |-> room, answer |-> y, again |-> TRUE]
      BY <3>1
    <3>3. QED BY <3>2, Zenon DEF y
  <2>6. entry \in Asking => room \in Nat /\ room >= Enough(entry)
    <3>1. SUFFICES ASSUME entry \in Asking PROVE room \in Nat /\ room >= Enough(entry)
      OBVIOUS
    <3>2. name \in Seq(Texts!Codes) /\ cb \in Nat
      BY <2>2, <3>1, Zenon DEF HeardInv, Spoken
    <3>3. Telling(entry, cb, Texts!AnswerOf(entry, cb, before))
      BY <3>1, <3>2, EntriesTell, Zenon
    <3>4. Texts!AnswerOf(entry, cb, before).len \in Nat /\ room >= Enough(entry)
      BY <2>a, <3>3, Zenon DEF Telling
    <3>5. Texts!Terminator(entry) = 1 \/ Texts!Terminator(entry) = 2
      BY Zenon DEF Texts!Terminator
    <3>6. QED BY <2>a, <3>4, <3>5, SMT
  <2>7. Spoken(entry, room, beyond, TRUE)'
    BY <1>3, <1>4, <2>2, <2>5, <2>6, Zenon DEF Spoken
  <2>8. QED BY <1>2, <2>7, Zenon DEF HeardInv
<1>8. CASE Texts!Forget
  BY <1>2, <1>8, Zenon DEF Texts!Forget, HeardInv
<1>9. QED BY <1>5, <1>6, <1>7, <1>8, Zenon DEF Texts!Next

LEMMA HeardWhole ==
  ASSUME HeardInv
  PROVE  Texts!WideTextArrives
<1>1. SUFFICES ASSUME heard # Texts!Unheard, heard.entry # "SQLDescribeColW"
      PROVE  /\ heard.answer.ret = "SUCCESS" => heard.answer.text = name
             /\ heard.answer.text = Texts!Prefix(name, Len(heard.answer.text))
             /\ heard.again => /\ heard.answer.ret = "SUCCESS"
                               /\ heard.answer.text = name
                               /\ heard.answer.ended
  BY Zenon DEF Texts!WideTextArrives
<1>2. PICK entry, cb, beyond, more : Spoken(entry, cb, beyond, more)
  BY <1>1, Zenon DEF HeardInv
<1>3. heard.entry = entry /\ heard.answer = Texts!AnswerOf(entry, cb, beyond) /\ heard.again = more
  BY <1>2, SpokenIs, Zenon
<1>4. entry \in Asking
  BY <1>1, <1>2, <1>3, Zenon DEF Spoken, Texts!Entries, Asking
<1>5. name \in Seq(Texts!Codes) /\ cb \in Nat /\ (more => cb >= Enough(entry))
  BY <1>2, <1>4, Zenon DEF HeardInv, Spoken
<1>6. Telling(entry, cb, heard.answer)
  BY <1>3, <1>4, <1>5, EntriesTell, Zenon
<1>7. QED BY <1>3, <1>5, <1>6, Zenon DEF Telling

-----------------------------------------------------------------------------
(* The session.                                                              *)
(* The session, as far as it reads values, texts and information.            *)

ReadingInv ==
  /\ doing = "long" => PieceInv
  /\ doing = "fixed" => FixedInv
  /\ doing = "information" => InfoInv
  /\ doing = "texts" => HeardInv

LEMMA InitReading == SessionInit => ReadingInv
  BY InitPieces, InitFixedValues, InitInfoInv, InitHeard, TextsAssumption
     DEF SessionInit, ReadingInv

\* a step of one of these parts is one of its own or none
LEMMA StepOfReading ==
  ASSUME [SessionNext]_sessionVars
  PROVE  /\ doing' = doing
         /\ doing = "long" => [Reading!Next]_<<row, gd, read>>
         /\ doing = "fixed" => [Reading!NextFixed]_<<column, got>>
         /\ doing = "information" => [Information!NextInfo]_told
         /\ doing = "texts" => [Texts!Next]_<<name, heard>>
<1>1. CASE UNCHANGED sessionVars
  BY <1>1 DEF sessionVars
<1>2. CASE AskCatalog \/ MeetErrors
  BY <1>2 DEF AskCatalog, MeetErrors
<1>3. CASE ReadLong \/ ReadFixed \/ AskTexts \/ AskInformation \/ Connect
  BY <1>3 DEF ReadLong, ReadFixed, AskTexts, AskInformation, Connect
<1>4. QED BY <1>1, <1>2, <1>3 DEF SessionNext

LEMMA NextReading == ReadingInv /\ [SessionNext]_sessionVars => ReadingInv'
<1> SUFFICES ASSUME ReadingInv, [SessionNext]_sessionVars PROVE ReadingInv'
  OBVIOUS
<1>1. doing = "long" => PieceInv'
  BY StepOfReading, StepPieces, ReadingAssumption DEF ReadingInv
<1>2. doing = "fixed" => FixedInv'
  BY StepOfReading, StepFixedValues DEF ReadingInv
<1>3. doing = "information" => InfoInv'
  BY StepOfReading, StepInfoInv, InfoAssumption DEF ReadingInv
<1>4. doing = "texts" => HeardInv'
  BY StepOfReading, StepHeard, TextsAssumption DEF ReadingInv
<1>5. QED BY <1>1, <1>2, <1>3, <1>4, StepOfReading DEF ReadingInv

(* What was read of a long value so far is its beginning, and the driver's   *)
(* buffer holds what is left (PieceInv); a value of a fixed type is one that *)
(* was asked for as the driver says (FixedInv).  A text of the driver's was  *)
(* asked for with whole units of a buffer (InfoInv), and one that crosses    *)
(* the wide entries is asked for again with enough of it (HeardInv).         *)
THEOREM ReadingKept == Session => []ReadingInv
<1>1. QED BY InitReading, NextReading, PTL DEF Session

(* A text or binary data that is read piece by piece, in buffers of any      *)
(* sizes and from a buffer kept from row to row, arrives whole, and before   *)
(* its end data_left counts the rest exactly; a value of a fixed type fits   *)
(* the buffer the driver's tables of lengths announce for it, in its default *)
(* C type and as a text; the bytes of an SQL_NUMERIC_STRUCT are the decimal  *)
(* they were made from, of any number of digits (copy_and_convert_field,     *)
(* pgtypes.cc).                                                              *)
THEOREM EveryValueArrives == Session => []ValuesArrive
<1>1. ReadingInv => ValuesArrive
  <2>1. ReadingInv => (doing = "long" => Reading!PiecesExact)
    BY PiecesFit, ReadingAssumption DEF ReadingInv
  <2>2. ReadingInv => (doing = "fixed" => Reading!ValuesComeWhole)
    BY FixedFits DEF ReadingInv
  <2>3. QED BY <2>1, <2>2 DEF ValuesArrive
<1>2. QED BY <1>1, ReadingKept, PTL

(* A statement, a cursor's name or a column's name of any letters but zero   *)
(* that goes through the wide entries comes out letter by letter, or as a    *)
(* beginning with a warning; a buffer made for the length that was told gets *)
(* all of it (odbcapiw.cc, odbcapi30w.cc, win_unicode.cc).  A text of        *)
(* SQLGetInfo is written within the buffer, is whole and has its terminator  *)
(* when success is told, and gets success in a buffer made for the length    *)
(* the application was told, wide or narrow (PGAPI_GetInfo).                 *)
THEOREM WideTextsArrive == Session => []WideTextArrives
<1>1. ReadingInv => WideTextArrives
  <2>1. ReadingInv => (doing = "texts" => Texts!WideTextArrives)
    BY HeardWhole DEF ReadingInv
  <2>2. ReadingInv => (doing = "information" => Information!InfoFits)
    BY InfoComesWhole, InfoAssumption DEF ReadingInv
  <2>3. QED BY <2>1, <2>2 DEF WideTextArrives
<1>2. QED BY <1>1, ReadingKept, PTL

-----------------------------------------------------------------------------
(* The stream to the bus (BufStream): the bytes arrive in order and as they  *)
(* were written, and the loop listens for what the stream waits for.         *)

-----------------------------------------------------------------------------
(* The invariants.                                                          *)

\* The elements of s stand where F wants them, from place a + 1 on.
Ordered(s, F, a) == \A i \in 1..Len(s) : s[i] \in F[a + i]

\* What is written is numbered; the n-th unit that the bus sends is part of
\* a message that begins where those before it end.
Number == [n \in Nat |-> {n}]
PlacedAt == [n \in Nat |->
  {u \in Unit : u.msg >= 1 /\ u.part \in 1..MsgLen
                /\ (u.msg - 1) * MsgLen + u.part = n}]

\* The bytes on their way to the bus.
Left == Len(peer) + Len(kernel)
OutInv ==
  /\ Ordered(peer, Number, 0)
  /\ ~lost => /\ Ordered(kernel, Number, Len(peer))
              /\ Ordered(outbuf, Number, Left)
              /\ Left + Len(outbuf) = written
  /\ lost => kernel = <<>>
  /\ Len(kernel) <= Room

\* _flush is registered while something is left, and the socket is in w
\* exactly when it is open and _flush is registered.
RegInv ==
  /\ writereg <=> outbuf # <<>>
  /\ onwritable = IF writereg THEN 1 ELSE 0
  /\ sock = "open" => wset = writereg
  /\ sock = "closed" => lost

\* The units on their way from the bus follow those that have been handled.
Begun == Len(handled) * MsgLen
Had == Begun + Len(inbuf)
InInv ==
  /\ \A i \in DOMAIN handled : handled[i] = Units(i)
  /\ Ordered(inbuf, PlacedAt, Begun)
  /\ Ordered(wire, PlacedAt, Had)
  /\ Ordered(coming, PlacedAt, Had + Len(wire))
  /\ Len(inbuf) < MsgLen
  /\ ~lost => Had + Len(wire) + Len(coming) = Len(posted) * MsgLen
  /\ lost => coming = <<>>

\* A socket that select has found writable is still in w, unless the reader
\* has written an answer and the kernel has taken everything.
Emptied == outbuf = <<>> /\ \E i \in DOMAIN handled : posted[i] = "foreign"
DeadInv ==
  /\ pc \in {"read", "write"} /\ ready.w => wset \/ lost \/ Emptied
  /\ pc = "dead" => lost \/ Emptied

\* The types, of what is on its way out, on its way in, and of the rest.
OutTypes ==
  /\ peer \in Seq(Nat) /\ kernel \in Seq(Nat) /\ outbuf \in Seq(Nat)
  /\ sock \in {"open", "closed"} /\ lost \in BOOLEAN
  /\ wset \in BOOLEAN /\ writereg \in BOOLEAN
  /\ pending \subseteq Cookies \cup {"pw_obj"}
  /\ written \in Nat
InTypes ==
  /\ posted \in Seq(Kinds) /\ coming \in Seq(Unit) /\ wire \in Seq(Unit)
  /\ inbuf \in Seq(Unit) /\ handled \in Seq(Seq(Unit))
AppTypes ==
  /\ ready \in [r : BOOLEAN, w : BOOLEAN]
  /\ nowpending \subseteq Cookies \cup {"pw_obj"}
  /\ deleted \subseteq Cookies
  /\ answered \in Nat /\ waiting \in Nat
  /\ pc \in {"select", "read", "write", "pending", "run", "drain", "reply",
             "ask", "flush", "nested", "done", "dead", "spin"}
  /\ action_queue \in Seq({"call", "quit"}) /\ want_to_die \in BOOLEAN

OutAll == OutTypes /\ OutInv /\ RegInv
InAll == InTypes /\ InInv

-----------------------------------------------------------------------------
(* Sequences that keep their order.                                         *)

LEMMA NoneOrdered == \A F, a : Ordered(<<>>, F, a)
  BY DEF Ordered

LEMMA JoinOrdered ==
  ASSUME NEW T, NEW s \in Seq(T), NEW t \in Seq(T), NEW F, NEW a \in Nat,
         Ordered(s, F, a), Ordered(t, F, a + Len(s))
  PROVE  s \o t \in Seq(T) /\ Len(s \o t) = Len(s) + Len(t) /\ Ordered(s \o t, F, a)
<1>1. s \o t \in Seq(T) /\ Len(s \o t) = Len(s) + Len(t)
      /\ \A i \in 1..Len(s \o t) :
           (s \o t)[i] = IF i <= Len(s) THEN s[i] ELSE t[i - Len(s)]
  BY ConcatProperties
<1>2. ASSUME NEW i \in 1..Len(s \o t) PROVE (s \o t)[i] \in F[a + i]
  <2>1. CASE i <= Len(s)
    BY <1>1, <2>1 DEF Ordered
  <2>2. CASE i > Len(s)
    <3>1. i - Len(s) \in 1..Len(t) /\ (a + Len(s)) + (i - Len(s)) = a + i
      BY <1>1, <2>2
    <3> QED BY <1>1, <2>2, <3>1 DEF Ordered
  <2> QED BY <2>1, <2>2
<1> QED BY <1>1, <1>2 DEF Ordered

LEMMA CutOrdered ==
  ASSUME NEW T, NEW s \in Seq(T), NEW F, NEW a \in Nat, Ordered(s, F, a),
         NEW k \in 0..Len(s)
  PROVE  /\ SubSeq(s, 1, k) \in Seq(T) /\ Len(SubSeq(s, 1, k)) = k
         /\ Ordered(SubSeq(s, 1, k), F, a)
         /\ SubSeq(s, k + 1, Len(s)) \in Seq(T)
         /\ Len(SubSeq(s, k + 1, Len(s))) = Len(s) - k
         /\ Ordered(SubSeq(s, k + 1, Len(s)), F, a + k)
<1>1. /\ SubSeq(s, 1, k) \in Seq(T) /\ Len(SubSeq(s, 1, k)) = k
      /\ \A i \in 1..k : SubSeq(s, 1, k)[i] = s[i]
  BY SubSeqProperties
<1>2. /\ SubSeq(s, k + 1, Len(s)) \in Seq(T)
      /\ Len(SubSeq(s, k + 1, Len(s))) = Len(s) - k
      /\ \A i \in 1..Len(s) - k : SubSeq(s, k + 1, Len(s))[i] = s[k + i]
  BY SubSeqProperties
<1>3. Ordered(SubSeq(s, 1, k), F, a)
  BY <1>1 DEF Ordered
<1>4. Ordered(SubSeq(s, k + 1, Len(s)), F, a + k)
  <2> SUFFICES ASSUME NEW i \in 1..Len(s) - k
               PROVE  SubSeq(s, k + 1, Len(s))[i] \in F[(a + k) + i]
    BY <1>2 DEF Ordered
  <2>1. k + i \in 1..Len(s) /\ a + (k + i) = (a + k) + i
    OBVIOUS
  <2> QED BY <1>2, <2>1 DEF Ordered
<1> QED BY <1>1, <1>2, <1>3, <1>4

LEMMA TailOrdered ==
  ASSUME NEW T, NEW s \in Seq(T), NEW F, NEW a \in Nat, Ordered(s, F, a), s # <<>>
  PROVE  /\ Head(s) \in T /\ Head(s) \in F[a + 1]
         /\ Tail(s) \in Seq(T) /\ Len(Tail(s)) = Len(s) - 1
         /\ Ordered(Tail(s), F, a + 1)
<1>1. Len(s) \in Nat /\ Len(s) >= 1 /\ Head(s) = s[1] /\ s[1] \in T
  BY EmptySeq, LenProperties, HeadTailProperties
<1>2. /\ Tail(s) \in Seq(T) /\ Len(Tail(s)) = Len(s) - 1
      /\ \A i \in 1..Len(Tail(s)) : Tail(s)[i] = s[i + 1]
  BY HeadTailProperties
<1>3. Ordered(Tail(s), F, a + 1)
  <2> SUFFICES ASSUME NEW i \in 1..Len(s) - 1 PROVE Tail(s)[i] \in F[(a + 1) + i]
    BY <1>2 DEF Ordered
  <2>1. i + 1 \in 1..Len(s) /\ a + (i + 1) = (a + 1) + i
    BY <1>1
  <2> QED BY <1>2, <2>1 DEF Ordered
<1> QED BY <1>1, <1>2, <1>3 DEF Ordered

LEMMA AppendOrdered ==
  ASSUME NEW T, NEW s \in Seq(T), NEW F, NEW a \in Nat, Ordered(s, F, a),
         NEW x \in T, x \in F[a + (Len(s) + 1)]
  PROVE  /\ Append(s, x) \in Seq(T) /\ Len(Append(s, x)) = Len(s) + 1
         /\ Ordered(Append(s, x), F, a)
<1>1. /\ Append(s, x) \in Seq(T) /\ Len(Append(s, x)) = Len(s) + 1
      /\ \A i \in 1..Len(s) : Append(s, x)[i] = s[i]
      /\ Append(s, x)[Len(s) + 1] = x
  BY AppendProperties
<1>2. ASSUME NEW i \in 1..Len(s) + 1 PROVE Append(s, x)[i] \in F[a + i]
  <2>1. CASE i \in 1..Len(s)
    BY <1>1, <2>1 DEF Ordered
  <2>2. CASE i = Len(s) + 1
    BY <1>1, <2>2
  <2> QED BY <2>1, <2>2
<1> QED BY <1>1, <1>2 DEF Ordered

\* Numbers that are in order are consecutive.
LEMMA Numbered ==
  ASSUME NEW s \in Seq(Nat), NEW a \in Nat
  PROVE  Ordered(s, Number, a) <=> s = [i \in 1..Len(s) |-> a + i]
<1>1. s \in [1..Len(s) -> Nat] /\ Len(s) \in Nat
  BY LenProperties
<1>2. \A i \in 1..Len(s) : a + i \in Nat /\ Number[a + i] = {a + i}
  BY <1>1 DEF Number
<1>3. ASSUME Ordered(s, Number, a) PROVE s = [i \in 1..Len(s) |-> a + i]
  <2>1. \A i \in 1..Len(s) : s[i] = a + i
    BY <1>2, <1>3 DEF Ordered
  <2> QED BY <1>1, <2>1
<1>4. ASSUME s = [i \in 1..Len(s) |-> a + i] PROVE Ordered(s, Number, a)
  <2>1. \A i \in 1..Len(s) : s[i] = a + i
    BY <1>4
  <2> QED BY <1>2, <2>1 DEF Ordered
<1> QED BY <1>3, <1>4

-----------------------------------------------------------------------------
(* Messages and their units.                                                *)

LEMMA Times ==
  /\ MsgLen \in Nat /\ MsgLen >= 1
  /\ \A n \in Nat : n * MsgLen \in Nat /\ (n + 1) * MsgLen = n * MsgLen + MsgLen
<1>1. MsgLen \in Nat /\ MsgLen >= 1
  BY SizesAssumption
<1>2. ASSUME NEW n \in Nat
      PROVE  n * MsgLen \in Nat /\ (n + 1) * MsgLen = n * MsgLen + MsgLen
  BY <1>1
<1> QED BY <1>1, <1>2

LEMMA LaterMessage ==
  ASSUME NEW m \in Nat, NEW h \in Nat, m < h
  PROVE  m * MsgLen + MsgLen <= h * MsgLen
<1>1. MsgLen \in Nat
  BY Times
<1> DEFINE k == h - (m + 1)
<1>2. k \in Nat /\ h = (m + 1) + k
  OBVIOUS
<1>3. k * MsgLen \in Nat
  BY <1>2, Times
<1>4. h * MsgLen = (m + 1) * MsgLen + k * MsgLen
  BY <1>1, <1>2
<1>5. (m + 1) * MsgLen = m * MsgLen + MsgLen
  BY Times
<1>6. m * MsgLen \in Nat
  BY Times
<1> HIDE DEF k
<1> QED BY <1>1, <1>3, <1>4, <1>5, <1>6

LEMMA OnePlace ==
  ASSUME NEW m \in Nat, NEW p \in 1..MsgLen, NEW h \in Nat, NEW i \in 1..MsgLen,
         m * MsgLen + p = h * MsgLen + i
  PROVE  m = h /\ p = i
<1>1. MsgLen \in Nat /\ m * MsgLen \in Nat /\ h * MsgLen \in Nat
  BY Times
<1>2. ~(m < h)
  BY <1>1, LaterMessage
<1>3. ~(h < m)
  BY <1>1, LaterMessage
<1>4. m = h
  BY <1>2, <1>3
<1> QED BY <1>1, <1>4

LEMMA UnitsPlaced ==
  ASSUME NEW n \in Nat
  PROVE  /\ Units(n + 1) \in Seq(Unit) /\ Len(Units(n + 1)) = MsgLen
         /\ Ordered(Units(n + 1), PlacedAt, n * MsgLen)
<1>1. MsgLen \in Nat /\ n * MsgLen \in Nat
  BY Times
<1>2. Units(n + 1) \in [1..MsgLen -> Unit]
  BY <1>1 DEF Units, Unit
<1>3. Units(n + 1) \in Seq(Unit) /\ Len(Units(n + 1)) = MsgLen
  BY <1>1, <1>2, LenProperties, IsASeq
<1>4. ASSUME NEW i \in 1..MsgLen PROVE Units(n + 1)[i] \in PlacedAt[n * MsgLen + i]
  <2> DEFINE u == [msg |-> n + 1, part |-> i]
  <2>1. Units(n + 1)[i] = u
    BY <1>4 DEF Units
  <2>2. u \in Unit /\ u.msg = n + 1 /\ u.part = i
    BY <1>1 DEF Unit
  <2>3. (n + 1) - 1 = n /\ n * MsgLen + i \in Nat
    BY <1>1
  <2>4. (u.msg - 1) * MsgLen + u.part = n * MsgLen + i
    BY <2>2, <2>3
  <2>5. u \in {v \in Unit : v.msg >= 1 /\ v.part \in 1..MsgLen
                            /\ (v.msg - 1) * MsgLen + v.part = n * MsgLen + i}
    BY <2>2, <2>4
  <2> HIDE DEF u
  <2> QED BY <2>1, <2>3, <2>5 DEF PlacedAt
<1> QED BY <1>3, <1>4 DEF Ordered

LEMMA FirstMessage ==
  ASSUME NEW s \in Seq(Unit), NEW h \in Nat, Ordered(s, PlacedAt, h * MsgLen),
         Len(s) >= MsgLen
  PROVE  SubSeq(s, 1, MsgLen) = Units(h + 1)
<1>1. MsgLen \in Nat /\ h * MsgLen \in Nat /\ Len(s) \in Nat
  BY Times, LenProperties
<1>2. /\ SubSeq(s, 1, MsgLen) \in [1..MsgLen -> Unit]
      /\ \A i \in 1..MsgLen : SubSeq(s, 1, MsgLen)[i] = s[i]
  <2>1. MsgLen \in 0..Len(s)
    BY <1>1
  <2>2. SubSeq(s, 1, MsgLen) \in Seq(Unit) /\ Len(SubSeq(s, 1, MsgLen)) = MsgLen
        /\ \A i \in 1..MsgLen : SubSeq(s, 1, MsgLen)[i] = s[i]
    BY <1>1, <2>1, SubSeqProperties
  <2> QED BY <2>2, LenProperties
<1>3. ASSUME NEW i \in 1..MsgLen PROVE s[i] = [msg |-> h + 1, part |-> i]
  <2> DEFINE u == s[i]
  <2>1. i \in 1..Len(s) /\ h * MsgLen + i \in Nat
    BY <1>1
  <2>2. u \in PlacedAt[h * MsgLen + i]
    BY <2>1 DEF Ordered
  <2>3. /\ u \in Unit /\ u.msg >= 1 /\ u.part \in 1..MsgLen
        /\ (u.msg - 1) * MsgLen + u.part = h * MsgLen + i
    BY <2>1, <2>2 DEF PlacedAt
  <2>4. u.msg \in Nat /\ u.msg - 1 \in Nat
    BY <2>3 DEF Unit
  <2>5. u.msg - 1 = h /\ u.part = i
    BY <2>3, <2>4, OnePlace
  <2>6. u.msg = h + 1
    BY <2>4, <2>5
  <2> QED BY <2>3, <2>5, <2>6 DEF Unit
<1> QED BY <1>2, <1>3 DEF Units

-----------------------------------------------------------------------------
(* What is written.                                                         *)

LEMMA FitsIn ==
  ASSUME NEW buf \in Seq(Nat), OutTypes, OutInv
  PROVE  Fits(buf) \in 0..Len(buf) /\ Len(kernel) + Fits(buf) <= Room
<1>1. Len(buf) \in Nat /\ Len(kernel) \in Nat /\ Room \in Nat /\ Len(kernel) <= Room
  BY LenProperties, SizesAssumption DEF OutTypes, OutInv
<1> QED BY <1>1 DEF Fits

\* The registration follows the buffer.
LEMMA Registered ==
  ASSUME NEW buf, NEW up \in BOOLEAN, OutTypes, RegInv, Register(buf, up),
         up => sock = "open"
  PROVE  /\ writereg' \in BOOLEAN /\ (writereg' <=> buf # <<>>)
         /\ onwritable' = IF writereg' THEN 1 ELSE 0
         /\ wset' \in BOOLEAN /\ (up => (wset' <=> writereg')) /\ (~up => ~wset')
         /\ pending' \subseteq Cookies \cup {"pw_obj"}
<1>1. /\ writereg' = (buf # <<>>)
      /\ onwritable' = IF buf # <<>> /\ ~writereg THEN onwritable + 1
                       ELSE IF buf = <<>> /\ writereg THEN onwritable - 1
                       ELSE onwritable
      /\ wset' = (up /\ IF writereg' = writereg THEN wset ELSE writereg')
      /\ pending' = IF buf = <<>> THEN pending \cup {"pw_obj"} ELSE pending
  BY DEF Register
<1>2. writereg' \in BOOLEAN /\ (writereg' <=> buf # <<>>)
  BY <1>1
<1>3. onwritable' = IF writereg' THEN 1 ELSE 0
  BY <1>1, <1>2 DEF OutTypes, RegInv
<1>4. /\ wset \in BOOLEAN /\ writereg \in BOOLEAN /\ (up => (wset <=> writereg))
      /\ wset' = (up /\ IF writereg' = writereg THEN wset ELSE writereg')
  BY <1>1 DEF OutTypes, RegInv
<1>5. wset' \in BOOLEAN /\ (up => (wset' <=> writereg')) /\ (~up => ~wset')
  <2>1. CASE ~up
    BY <1>4, <2>1
  <2>2. CASE up /\ writereg' = writereg
    BY <1>4, <1>2, <2>2
  <2>3. CASE up /\ writereg' # writereg
    BY <1>4, <1>2, <2>3
  <2> QED BY <2>1, <2>2, <2>3
<1>6. pending' \subseteq Cookies \cup {"pw_obj"}
  BY <1>1 DEF OutTypes
<1> QED BY <1>2, <1>3, <1>5, <1>6

\* What is to be flushed follows what is on its way, up to number n.
Follows(buf, n) ==
  ~lost => Ordered(buf, Number, Left) /\ Left + Len(buf) = n

\* _flush loses nothing and changes no order while the connection lasts.
LEMMA Flushed ==
  ASSUME OutAll, NEW buf \in Seq(Nat), Follows(buf, written'), written' \in Nat,
         _flush(buf), UNCHANGED <<peer, lost>>
  PROVE  OutAll' /\ (~lost => sock' = sock)
<1>1. OutTypes /\ OutInv /\ RegInv
  BY DEF OutAll
<1>2. Len(peer) \in Nat /\ Len(kernel) \in Nat /\ Len(buf) \in Nat
      /\ kernel \in Seq(Nat) /\ outbuf \in Seq(Nat)
  BY <1>1, LenProperties DEF OutTypes
<1>3. CASE sock = "open" /\ ~lost /\ Taken(buf) /\ Register(outbuf', TRUE) /\ UNCHANGED sock
  <2>1. PICK n \in 0..Len(buf) : n = Fits(buf) /\ Len(kernel) + n <= Room
    BY <1>1, FitsIn
  <2>14. PICK p \in Nat : p = Len(peer)
    BY <1>2
  <2>15. PICK a \in Nat : a = p + Len(kernel)
    BY <1>2, <2>14
  <2>2. Ordered(kernel, Number, p) /\ Ordered(buf, Number, a)
    BY <1>1, <1>3, <2>14, <2>15 DEF OutInv, Left, Follows
  <2> DEFINE front == SubSeq(buf, 1, n)
             rest == SubSeq(buf, n + 1, Len(buf))
  <2>4. kernel' = kernel \o front /\ outbuf' = rest
    BY <1>3, <2>1 DEF Taken
  <2>12. a + Len(buf) = written'
    BY <1>3, <2>14, <2>15 DEF Left, Follows
  <2>3. /\ front \in Seq(Nat) /\ Len(front) = n /\ Ordered(front, Number, a)
        /\ rest \in Seq(Nat) /\ Len(rest) = Len(buf) - n
        /\ Ordered(rest, Number, a + n)
    <3>1. front \in Seq(Nat) /\ rest \in Seq(Nat)
      BY <2>2, CutOrdered
    <3>2. Len(front) = n /\ Len(rest) = Len(buf) - n
      BY <2>2, CutOrdered
    <3>3. Ordered(front, Number, a) /\ Ordered(rest, Number, a + n)
      BY <2>2, CutOrdered
    <3> HIDE DEF front, rest
    <3> QED BY <3>1, <3>2, <3>3
  <2> HIDE DEF front, rest
  <2>11. Ordered(front, Number, p + Len(kernel))
    BY <2>15, <2>3
  <2>5. /\ kernel' \in Seq(Nat) /\ Len(kernel') = Len(kernel) + n
        /\ Ordered(kernel', Number, p)
    <3>1. kernel \o front \in Seq(Nat)
      BY <1>2, <2>3, ConcatProperties
    <3>2. Len(kernel \o front) = Len(kernel) + n
      BY <1>2, <2>3, ConcatProperties
    <3>3. Ordered(kernel \o front, Number, p)
      BY <1>2, <2>2, <2>3, <2>11, JoinOrdered
    <3> QED BY <2>4, <3>1, <3>2, <3>3
  <2>6. /\ a + n = p + Len(kernel')
        /\ Len(kernel') <= Room
        /\ (p + Len(kernel')) + Len(outbuf') = written'
    <3>1. Len(kernel) \in Nat /\ Len(buf) \in Nat /\ n \in Nat
      BY <1>2
    <3>2. Len(kernel') = Len(kernel) + n /\ Len(outbuf') = Len(buf) - n
      BY <2>3, <2>4, <2>5
    <3> QED BY <2>1, <2>12, <2>15, <3>1, <3>2
  <2>13. p = Len(peer')
    BY <2>14
  <2>7. OutInv'
    <3>1. Ordered(peer', Number, 0)
      BY <1>1 DEF OutInv
    <3> QED BY <1>3, <2>3, <2>4, <2>5, <2>6, <2>13, <3>1 DEF OutInv, Left
  <2>8. /\ writereg' \in BOOLEAN /\ (writereg' <=> outbuf' # <<>>)
        /\ onwritable' = IF writereg' THEN 1 ELSE 0
        /\ wset' \in BOOLEAN /\ (wset' <=> writereg')
        /\ pending' \subseteq Cookies \cup {"pw_obj"}
    BY <1>1, <1>3, Registered
  <2>9. RegInv'
    BY <1>1, <1>3, <2>8 DEF RegInv
  <2>10. OutTypes'
    BY <1>1, <1>3, <2>3, <2>4, <2>5, <2>8 DEF OutTypes
  <2> QED BY <1>3, <2>7, <2>9, <2>10 DEF OutAll
<1>4. CASE /\ lost /\ UNCHANGED kernel
           /\ \/ sock = "open" /\ outbuf' = <<>> /\ Register(outbuf', TRUE) /\ UNCHANGED sock
              \/ sock' = "closed" /\ outbuf' = buf /\ Register(outbuf', FALSE)
  <2>1. outbuf' \in Seq(Nat)
    BY <1>4, EmptySeq
  <2>2. /\ writereg' \in BOOLEAN /\ (writereg' <=> outbuf' # <<>>)
        /\ onwritable' = IF writereg' THEN 1 ELSE 0
        /\ wset' \in BOOLEAN /\ (sock' = "open" => (wset' <=> writereg'))
        /\ pending' \subseteq Cookies \cup {"pw_obj"}
    <3>1. CASE sock = "open" /\ Register(outbuf', TRUE)
      BY <1>1, <3>1, Registered
    <3>2. CASE sock' = "closed" /\ Register(outbuf', FALSE)
      BY <1>1, <3>2, Registered
    <3> QED BY <1>4, <3>1, <3>2
  <2>3. sock' \in {"open", "closed"} /\ lost' = lost
    BY <1>1, <1>4 DEF OutTypes
  <2>4. OutTypes'
    BY <1>1, <1>4, <2>1, <2>2, <2>3 DEF OutTypes
  <2>5. RegInv'
    BY <1>4, <2>2, <2>3 DEF RegInv
  <2>6. OutInv'
    BY <1>1, <1>4 DEF OutInv
  <2> QED BY <1>4, <2>4, <2>5, <2>6 DEF OutAll
<1> QED
  <2>1. sock = "closed" => lost
    BY <1>1 DEF RegInv
  <2> QED BY <1>3, <1>4, <2>1 DEF _flush

LEMMA WrittenOut ==
  ASSUME OutAll, NEW n \in Nat, Write(n), UNCHANGED <<peer, lost>>
  PROVE  OutAll' /\ (~lost => sock' = sock)
<1> DEFINE new == [i \in 1..n |-> written + i]
           buf == outbuf \o new
<1>1. OutTypes /\ OutInv
  BY DEF OutAll
<1>2. Len(peer) \in Nat /\ Len(kernel) \in Nat /\ Len(outbuf) \in Nat
      /\ outbuf \in Seq(Nat) /\ written \in Nat
  BY <1>1, LenProperties DEF OutTypes
<1>3. new \in Seq(Nat) /\ Len(new) = n
  <2>1. new \in [1..n -> Nat]
    BY <1>2
  <2> QED BY <2>1, IsASeq, LenProperties
<1>4. Ordered(new, Number, written)
  BY <1>2, <1>3, Numbered
<1>5. buf \in Seq(Nat) /\ Len(buf) = Len(outbuf) + n
  BY <1>2, <1>3, ConcatProperties
<1>6. ~lost => Ordered(buf, Number, Left) /\ Left + Len(buf) = written + n
  <2> SUFFICES ASSUME ~lost PROVE Ordered(buf, Number, Left) /\ Left + Len(buf) = written + n
    OBVIOUS
  <2>1. Left \in Nat /\ Left + Len(outbuf) = written /\ Ordered(outbuf, Number, Left)
    BY <1>1, <1>2 DEF OutInv, Left
  <2>2. Ordered(buf, Number, Left)
    BY <1>2, <1>3, <1>4, <2>1, JoinOrdered
  <2> QED BY <1>2, <1>5, <2>1, <2>2
<1>7. _flush(buf) /\ written' = written + n /\ written' \in Nat
  BY <1>2 DEF Write
<1>8. Follows(buf, written')
  BY <1>6, <1>7 DEF Follows
<1> HIDE DEF buf
<1> QED BY <1>5, <1>7, <1>8, Flushed

LEMMA FlushedOut ==
  ASSUME OutAll, _flush(outbuf), UNCHANGED <<peer, lost, written>>
  PROVE  OutAll' /\ (~lost => sock' = sock)
<1>1. outbuf \in Seq(Nat) /\ written \in Nat
  BY DEF OutAll, OutTypes
<1>2. Follows(outbuf, written')
  BY DEF OutAll, OutInv, Follows
<1> QED BY <1>1, <1>2, Flushed

LEMMA OutKeeps ==
  ASSUME OutAll, UNCHANGED <<peer, kernel, outbuf, sock, lost, wset, writereg,
                             onwritable, written>>,
         pending' \subseteq Cookies \cup {"pw_obj"}
  PROVE  OutAll'
<1>1. OutTypes'
  BY DEF OutAll, OutTypes
<1>2. OutInv'
  BY DEF OutAll, OutInv, Left
<1>3. RegInv'
  BY DEF OutAll, RegInv
<1> QED BY <1>1, <1>2, <1>3 DEF OutAll

LEMMA OutPeerRead == ASSUME OutAll, PeerRead PROVE OutAll'
<1>1. /\ kernel # <<>> /\ kernel' = Tail(kernel) /\ peer' = Append(peer, Head(kernel))
      /\ UNCHANGED <<sock, lost, wset, pending, outbuf, writereg, onwritable, written>>
  BY DEF PeerRead, app
<1>2. peer \in Seq(Nat) /\ kernel \in Seq(Nat) /\ Ordered(peer, Number, 0)
      /\ ~lost /\ Ordered(kernel, Number, Len(peer)) /\ Ordered(outbuf, Number, Left)
      /\ Left + Len(outbuf) = written /\ Len(kernel) <= Room
  BY <1>1 DEF OutAll, OutTypes, OutInv
<1>3. PICK p \in Nat : p = Len(peer)
  BY <1>2, LenProperties
<1>4. Ordered(kernel, Number, p)
  BY <1>2, <1>3
<1>5. Head(kernel) \in Nat /\ Head(kernel) \in Number[p + 1] /\ Tail(kernel) \in Seq(Nat)
  BY <1>1, <1>2, <1>4, TailOrdered
<1>6. Len(Tail(kernel)) = Len(kernel) - 1 /\ Len(kernel) \in Nat
  BY <1>1, <1>2, HeadTailProperties, LenProperties
<1>7. Ordered(Tail(kernel), Number, p + 1)
  BY <1>1, <1>2, <1>4, TailOrdered
<1>8. Head(kernel) \in Number[0 + (Len(peer) + 1)]
  BY <1>3, <1>5
<1>9. Append(peer, Head(kernel)) \in Seq(Nat) /\ Ordered(Append(peer, Head(kernel)), Number, 0)
  BY <1>2, <1>5, <1>8, AppendOrdered
<1>10. Len(Append(peer, Head(kernel))) = p + 1
  BY <1>2, <1>3, <1>5, AppendProperties
<1>11. Left' = Left
  BY <1>1, <1>3, <1>6, <1>10 DEF Left
<1>12. Len(kernel') <= Room
  <2>1. Room \in Nat
    BY SizesAssumption
  <2> QED BY <1>1, <1>2, <1>6, <2>1
<1>13. OutInv'
  BY <1>1, <1>2, <1>7, <1>9, <1>10, <1>11, <1>12 DEF OutInv
<1>14. OutTypes' /\ RegInv'
  BY <1>1, <1>5, <1>9 DEF OutAll, OutTypes, RegInv
<1> QED BY <1>13, <1>14 DEF OutAll

LEMMA OutLose == ASSUME OutAll, Lose PROVE OutAll'
<1>1. /\ lost' = TRUE /\ kernel' = <<>>
      /\ UNCHANGED <<peer, sock, wset, pending, outbuf, writereg, onwritable, written>>
  BY DEF Lose, app
<1>2. <<>> \in Seq(Nat) /\ Len(<<>>) = 0
  BY EmptySeq
<1>3. 0 <= Room
  BY SizesAssumption
<1>4. OutInv'
  BY <1>1, <1>2, <1>3 DEF OutAll, OutInv
<1>5. OutTypes' /\ RegInv'
  BY <1>1, <1>2 DEF OutAll, OutTypes, RegInv
<1> QED BY <1>4, <1>5 DEF OutAll

\* Reading writes at most an answer to a call that is not for vx.db.
LEMMA OutReading ==
  ASSUME OutAll, handlemessage \/ NoMessage, UNCHANGED <<peer, lost>>
  PROVE  OutAll'
<1>1. CASE handlemessage
  <2>1. PICK kind : Handled(kind)
    BY <1>1 DEF handlemessage
  <2>2. CASE Write(1)
    BY <2>2, WrittenOut
  <2>3. CASE UNCHANGED <<output, sock, written>>
    <3>1. UNCHANGED <<kernel, wset, pending, outbuf, writereg, onwritable>>
      BY <2>3 DEF output
    <3>2. pending' \subseteq Cookies \cup {"pw_obj"}
      BY <3>1 DEF OutAll, OutTypes
    <3> QED BY <2>3, <3>1, <3>2, OutKeeps
  <2> QED BY <2>1, <2>2, <2>3 DEF Handled
<1>2. CASE NoMessage
  <2>1. /\ UNCHANGED <<kernel, pending, outbuf, writereg, onwritable, written>>
        /\ \/ lost /\ sock' = "closed" /\ wset' = FALSE
           \/ UNCHANGED <<sock, wset>>
    BY <1>2 DEF NoMessage, app
  <2>2. CASE UNCHANGED <<sock, wset>>
    <3>1. pending' \subseteq Cookies \cup {"pw_obj"}
      BY <2>1 DEF OutAll, OutTypes
    <3> QED BY <2>1, <2>2, <3>1, OutKeeps
  <2>3. CASE lost /\ sock' = "closed" /\ wset' = FALSE
    <3>1. OutInv'
      BY <2>1 DEF OutAll, OutInv, Left
    <3>2. OutTypes' /\ RegInv'
      BY <2>1, <2>3 DEF OutAll, OutTypes, RegInv
    <3> QED BY <3>1, <3>2 DEF OutAll
  <2> QED BY <2>1, <2>2, <2>3
<1> QED BY <1>1, <1>2

LEMMA OutStep == ASSUME OutAll, AppTypes, [Next]_vars PROVE OutAll'
<1>0. pending \subseteq Cookies \cup {"pw_obj"}
  BY DEF OutAll, OutTypes
<1>1. CASE \/ Post \/ Answer \/ Arrive \/ Select \/ NotRead \/ RunPending \/ Take
           \/ EndDrain \/ EndNested \/ UNCHANGED vars
  <2>1. UNCHANGED <<peer, kernel, outbuf, sock, lost, wset, writereg, onwritable,
                    written, pending>>
    <3>1. CASE Post \/ Answer \/ Arrive
      BY <3>1 DEF Post, Answer, Arrive, output, app
    <3>2. CASE Select \/ NotRead \/ RunPending
      BY <3>2 DEF Select, NotRead, RunPending, bus, output, app
    <3>3. CASE Take \/ EndDrain \/ EndNested
      BY <3>3 DEF Take, EndDrain, EndNested, bus, output, app
    <3>4. CASE UNCHANGED vars
      BY <3>4 DEF vars, bus, output, app
    <3> QED BY <1>1, <3>1, <3>2, <3>3, <3>4
  <2> QED BY <1>0, <2>1, OutKeeps
<1>2. CASE Snapshot \/ \E c \in Cookies : addpending(c) \/ delpending(c)
  <2>1. UNCHANGED <<peer, kernel, outbuf, sock, lost, wset, writereg, onwritable,
                    written>>
    BY <1>2 DEF Snapshot, addpending, delpending, bus, app
  <2>2. pending' \subseteq Cookies \cup {"pw_obj"}
    BY <1>0, <1>2 DEF Snapshot, addpending, delpending
  <2> QED BY <2>1, <2>2, OutKeeps
<1>3. CASE Read \/ Nested
  <2>1. (handlemessage \/ NoMessage) /\ UNCHANGED <<peer, lost>>
    BY <1>3 DEF Read, Nested, bus
  <2> QED BY <2>1, OutReading
<1>4. CASE Written \/ FlushAll
  <2>1. UNCHANGED <<peer, lost, written>>
    BY <1>4 DEF Written, FlushAll, bus, app
  <2>2. CASE _flush(outbuf)
    BY <2>1, <2>2, FlushedOut
  <2>3. CASE UNCHANGED <<output, sock>>
    <3>1. UNCHANGED <<kernel, wset, pending, outbuf, writereg, onwritable>>
      BY <2>3 DEF output
    <3> QED BY <1>0, <2>1, <2>3, <3>1, OutKeeps
  <2> QED BY <1>4, <2>2, <2>3 DEF Written, FlushAll
<1>5. CASE Reply \/ Ask
  <2>1. UNCHANGED <<peer, lost>> /\ \E n \in Nat : Write(n)
    <3>1. 1..MaxReply \subseteq Nat
      BY SizesAssumption
    <3> QED BY <1>5, <3>1 DEF Reply, Ask, bus
  <2> QED BY <2>1, WrittenOut
<1> QED BY <1>1, <1>2, <1>3, <1>4, <1>5, OutPeerRead, OutLose DEF Next, Thread, Rest

-----------------------------------------------------------------------------
(* What is read.                                                            *)

LEMMA InKeeps ==
  ASSUME InAll, UNCHANGED <<posted, coming, wire, inbuf, handled, lost>>
  PROVE  InAll'
<1>1. InTypes'
  BY DEF InAll, InTypes
<1>2. InInv'
  BY DEF InAll, InInv, Had, Begun
<1> QED BY <1>1, <1>2 DEF InAll

LEMMA InLengths ==
  ASSUME InAll
  PROVE  /\ Len(handled) \in Nat /\ Len(inbuf) \in Nat /\ Len(wire) \in Nat
         /\ Len(coming) \in Nat /\ Len(posted) \in Nat
         /\ Begun \in Nat /\ Had \in Nat
<1>1. /\ Len(handled) \in Nat /\ Len(inbuf) \in Nat /\ Len(wire) \in Nat
      /\ Len(coming) \in Nat /\ Len(posted) \in Nat
  BY LenProperties DEF InAll, InTypes
<1>2. Begun \in Nat
  BY <1>1, Times DEF Begun
<1> QED BY <1>1, <1>2 DEF Had

LEMMA Sent ==
  ASSUME InAll, ~lost, NEW kind \in Kinds, Send(kind),
         UNCHANGED <<wire, inbuf, handled, lost>>
  PROVE  InAll'
<1>1. PICK n \in Nat : n = Len(posted)
  BY InLengths
<1>2. PICK a \in Nat : a = Had + Len(wire)
  BY InLengths
<1>3. posted' \in Seq(Kinds) /\ Len(posted') = n + 1
  BY <1>1, AppendProperties DEF Send, InAll, InTypes
<1>4. coming' = coming \o Units(n + 1)
  BY <1>3 DEF Send
<1>5. coming \in Seq(Unit) /\ Ordered(coming, PlacedAt, a) /\ Len(coming) \in Nat
      /\ a + Len(coming) = n * MsgLen
  BY <1>1, <1>2, InLengths DEF InAll, InTypes, InInv
<1>6. Units(n + 1) \in Seq(Unit) /\ Len(Units(n + 1)) = MsgLen
      /\ Ordered(Units(n + 1), PlacedAt, a + Len(coming))
  BY <1>5, UnitsPlaced
<1>7. coming' \in Seq(Unit) /\ Ordered(coming', PlacedAt, a)
  BY <1>4, <1>5, <1>6, JoinOrdered
<1>8. Len(coming') = Len(coming) + MsgLen
  BY <1>4, <1>5, <1>6, ConcatProperties
<1>9. a + Len(coming') = Len(posted') * MsgLen
  <2>1. (n + 1) * MsgLen = n * MsgLen + MsgLen /\ n * MsgLen \in Nat /\ MsgLen \in Nat
    BY Times
  <2>2. Len(posted') * MsgLen = (n + 1) * MsgLen
    BY <1>3
  <2> DEFINE product == n * MsgLen
  <2>3. a + Len(coming) = product /\ product \in Nat
        /\ Len(posted') * MsgLen = product + MsgLen
    BY <1>5, <2>1, <2>2
  <2> HIDE DEF product
  <2> QED BY <1>5, <1>8, <2>1, <2>3
<1>10. a = (Had + Len(wire))'
  BY <1>2 DEF Had, Begun
<1>11. InTypes'
  BY <1>3, <1>7 DEF InAll, InTypes
<1>12. InInv'
  BY <1>7, <1>9, <1>10 DEF InAll, InInv, Had, Begun
<1> QED BY <1>11, <1>12 DEF InAll

LEMMA InArrive == ASSUME InAll, Arrive PROVE InAll'
<1>1. /\ coming # <<>> /\ coming' = Tail(coming) /\ wire' = Append(wire, Head(coming))
      /\ UNCHANGED <<posted, inbuf, handled, lost>>
  BY DEF Arrive
<1>2. PICK b \in Nat : b = Had
  BY InLengths
<1>3. PICK a \in Nat : a = b + Len(wire)
  BY <1>2, InLengths
<1>4. coming \in Seq(Unit) /\ wire \in Seq(Unit) /\ Len(coming) \in Nat /\ Len(wire) \in Nat
      /\ Ordered(wire, PlacedAt, b) /\ Ordered(coming, PlacedAt, a)
  BY <1>2, <1>3, InLengths DEF InAll, InTypes, InInv
<1>5. Head(coming) \in Unit /\ Head(coming) \in PlacedAt[b + (Len(wire) + 1)]
      /\ Tail(coming) \in Seq(Unit)
  <2>1. Head(coming) \in Unit /\ Head(coming) \in PlacedAt[a + 1] /\ Tail(coming) \in Seq(Unit)
    BY <1>1, <1>4, TailOrdered
  <2>2. a + 1 = b + (Len(wire) + 1)
    BY <1>3, <1>4
  <2> QED BY <2>1, <2>2
<1>6. Len(Tail(coming)) = Len(coming) - 1
  BY <1>1, <1>4, TailOrdered
<1>7. Ordered(Tail(coming), PlacedAt, a + 1)
  BY <1>1, <1>4, TailOrdered
<1>8. Append(wire, Head(coming)) \in Seq(Unit)
      /\ Ordered(Append(wire, Head(coming)), PlacedAt, b)
  BY <1>4, <1>5, AppendOrdered
<1>9. Len(Append(wire, Head(coming))) = Len(wire) + 1
  BY <1>4, <1>5, AppendProperties
<1>10. b + Len(wire') = a + 1 /\ a + 1 + Len(coming') = a + Len(coming)
  BY <1>1, <1>3, <1>4, <1>6, <1>9
<1>11. b = Had'
  BY <1>1, <1>2 DEF Had, Begun
<1>12. InTypes'
  BY <1>1, <1>5, <1>8 DEF InAll, InTypes
<1>13. ~lost
  BY <1>1 DEF InAll, InInv
<1>14. Had' + Len(wire') + Len(coming') = Len(posted') * MsgLen
  BY <1>1, <1>2, <1>3, <1>10, <1>11, <1>13 DEF InAll, InInv
<1>15. Ordered(wire', PlacedAt, Had') /\ Ordered(coming', PlacedAt, Had' + Len(wire'))
  BY <1>1, <1>7, <1>8, <1>10, <1>11
<1>16. InInv'
  BY <1>1, <1>13, <1>14, <1>15 DEF InAll, InInv, Begun
<1> QED BY <1>12, <1>16 DEF InAll

LEMMA InLose == ASSUME InAll, Lose PROVE InAll'
<1>1. /\ lost' = TRUE /\ coming' = <<>> /\ wire' \in {wire, <<>>}
      /\ UNCHANGED <<posted, inbuf, handled>>
  BY DEF Lose
<1>2. <<>> \in Seq(Unit)
  BY EmptySeq
<1>3. InTypes'
  BY <1>1, <1>2 DEF InAll, InTypes
<1>4. Ordered(wire', PlacedAt, Had)
  BY <1>1, NoneOrdered DEF InAll, InInv
<1>5. InInv'
  BY <1>1, <1>4, NoneOrdered DEF InAll, InInv, Had, Begun
<1> QED BY <1>3, <1>5 DEF InAll

\* The first MsgLen units of what there is are the next message.
LEMMA InTaken ==
  ASSUME InAll, Whole, TakenOut, UNCHANGED <<posted, coming, lost>>
  PROVE  /\ InAll' /\ Len(handled') = Len(handled) + 1
         /\ handled'[Len(handled')] = Units(Len(handled) + 1)
<1>1. PICK h \in Nat : h = Len(handled)
  BY InLengths
<1>2. PICK b \in Nat : b = h * MsgLen /\ b = Begun
  BY <1>1, InLengths DEF Begun
<1>3. PICK a \in Nat : a = b + Len(inbuf) /\ a = Had
  BY <1>2, InLengths DEF Had
<1>4. /\ inbuf \in Seq(Unit) /\ wire \in Seq(Unit) /\ handled \in Seq(Seq(Unit))
      /\ Len(inbuf) \in Nat /\ Len(wire) \in Nat /\ Len(coming) \in Nat
      /\ Len(inbuf) < MsgLen /\ MsgLen \in Nat
      /\ Ordered(inbuf, PlacedAt, b) /\ Ordered(wire, PlacedAt, a)
  BY <1>2, <1>3, InLengths, Times DEF InAll, InTypes, InInv
<1> DEFINE both == inbuf \o wire
<1>5. both \in Seq(Unit) /\ Ordered(both, PlacedAt, b)
  BY <1>3, <1>4, JoinOrdered
<1>6. Len(both) = Len(inbuf) + Len(wire)
  BY <1>4, ConcatProperties
<1>7. Len(both) >= MsgLen
  BY DEF Whole
<1>8. SubSeq(both, 1, MsgLen) = Units(h + 1)
  BY <1>2, <1>5, <1>7, FirstMessage
<1>9. PICK k \in 0..Len(wire) : k = MsgLen - Len(inbuf)
  <2>1. MsgLen - Len(inbuf) \in 0..Len(wire)
    <3> HIDE DEF both
    <3> QED BY <1>4, <1>6, <1>7
  <2> QED BY <2>1
<1>10. /\ inbuf' = <<>> /\ handled' = Append(handled, Units(h + 1))
       /\ wire' = SubSeq(wire, k + 1, Len(wire))
  BY <1>8, <1>9 DEF TakenOut
<1> HIDE DEF both
<1>11. Units(h + 1) \in Seq(Unit)
  BY UnitsPlaced
<1>12. /\ handled' \in Seq(Seq(Unit)) /\ Len(handled') = h + 1
       /\ handled'[h + 1] = Units(h + 1)
       /\ \A i \in 1..h : handled'[i] = handled[i]
  BY <1>1, <1>4, <1>10, <1>11, AppendProperties
<1>13. wire' \in Seq(Unit) /\ Ordered(wire', PlacedAt, a + k)
  BY <1>4, <1>10, CutOrdered
<1>14. Len(wire') = Len(wire) - k
  BY <1>4, <1>10, CutOrdered
<1>15. Begun' = b + MsgLen
  <2>1. Begun' = (h + 1) * MsgLen
    BY <1>12 DEF Begun
  <2> QED BY <1>2, <2>1, Times
<1>16. inbuf' \in Seq(Unit) /\ Len(inbuf') = 0
  BY <1>10, EmptySeq
<1>17. Had' = a + k
  BY <1>3, <1>4, <1>9, <1>15, <1>16 DEF Had
<1>18. Had' + Len(wire') = a + Len(wire)
  BY <1>4, <1>14, <1>17
<1>19. InTypes'
  BY <1>12, <1>13, <1>16 DEF InAll, InTypes
<1>20. \A i \in DOMAIN handled' : handled'[i] = Units(i)
  <2>1. DOMAIN handled' = 1..h + 1 /\ DOMAIN handled = 1..h
    BY <1>1, <1>4, <1>12, LenProperties
  <2>2. \A i \in 1..h : handled[i] = Units(i)
    BY <2>1 DEF InAll, InInv
  <2>3. \A i \in 1..h + 1 : i \in 1..h \/ i = h + 1
    OBVIOUS
  <2> QED BY <1>12, <2>1, <2>2, <2>3
<1>21. Ordered(inbuf', PlacedAt, Begun')
  BY <1>10, NoneOrdered
<1>22. Ordered(wire', PlacedAt, Had') /\ Ordered(coming', PlacedAt, Had' + Len(wire'))
  BY <1>3, <1>13, <1>17, <1>18 DEF InAll, InInv
<1>23. (~lost => a + Len(wire) + Len(coming) = Len(posted) * MsgLen) /\ (lost => coming = <<>>)
  BY <1>3 DEF InAll, InInv
<1>24. Len(inbuf') < MsgLen
  BY <1>16, Times
<1>25. InInv'
  BY <1>18, <1>20, <1>21, <1>22, <1>23, <1>24 DEF InInv
<1> QED BY <1>1, <1>12, <1>19, <1>25 DEF InAll

LEMMA InKept ==
  ASSUME InAll, NoMessage, UNCHANGED <<posted, coming, lost>>
  PROVE  InAll'
<1>1. ~Whole /\ inbuf' = inbuf \o wire /\ wire' = <<>> /\ UNCHANGED handled
  BY DEF NoMessage
<1>2. PICK b \in Nat : b = Begun
  BY InLengths
<1>3. PICK a \in Nat : a = b + Len(inbuf) /\ a = Had
  BY <1>2, InLengths DEF Had
<1>4. /\ inbuf \in Seq(Unit) /\ wire \in Seq(Unit) /\ Len(inbuf) \in Nat /\ Len(wire) \in Nat
      /\ Len(coming) \in Nat /\ MsgLen \in Nat
      /\ Ordered(inbuf, PlacedAt, b) /\ Ordered(wire, PlacedAt, a)
  BY <1>2, <1>3, InLengths, Times DEF InAll, InTypes, InInv
<1>5. inbuf' \in Seq(Unit) /\ Ordered(inbuf', PlacedAt, b)
  BY <1>1, <1>3, <1>4, JoinOrdered
<1>6. Len(inbuf') = Len(inbuf) + Len(wire)
  BY <1>1, <1>4, ConcatProperties
<1>7. Len(inbuf') < MsgLen
  <2>1. ~(Len(inbuf') >= MsgLen)
    BY <1>1 DEF Whole
  <2> QED BY <1>4, <1>6, <2>1
<1>8. wire' \in Seq(Unit) /\ Len(wire') = 0
  BY <1>1, EmptySeq
<1>9. Begun' = b
  BY <1>1, <1>2 DEF Begun
<1>10. Had' = a + Len(wire)
  BY <1>3, <1>4, <1>6, <1>9 DEF Had
<1>11. Had' + Len(wire') = a + Len(wire)
  BY <1>4, <1>8, <1>10
<1>12. InTypes'
  BY <1>1, <1>5, <1>8 DEF InAll, InTypes
<1>13. Ordered(inbuf', PlacedAt, Begun') /\ Ordered(wire', PlacedAt, Had')
       /\ Ordered(coming', PlacedAt, Had' + Len(wire'))
  BY <1>1, <1>3, <1>5, <1>9, <1>11, NoneOrdered DEF InAll, InInv
<1>14. (~lost => a + Len(wire) + Len(coming) = Len(posted) * MsgLen) /\ (lost => coming = <<>>)
  BY <1>3 DEF InAll, InInv
<1>15. \A i \in DOMAIN handled' : handled'[i] = Units(i)
  BY <1>1 DEF InAll, InInv
<1>16. InInv'
  BY <1>7, <1>11, <1>13, <1>14, <1>15 DEF InInv
<1> QED BY <1>12, <1>16 DEF InAll

LEMMA InStep == ASSUME InAll, [Next]_vars PROVE InAll'
<1>1. CASE Post \/ Answer
  <2>1. ~lost /\ (\E kind \in Kinds : Send(kind)) /\ UNCHANGED <<wire, inbuf, handled, lost>>
    BY <1>1 DEF Post, Answer, Kinds, input
  <2> QED BY <2>1, Sent
<1>2. CASE Read \/ Nested
  <2>1. ((Whole /\ TakenOut) \/ NoMessage) /\ UNCHANGED <<posted, coming, lost>>
    BY <1>2 DEF Read, Nested, handlemessage, bus
  <2> QED BY <2>1, InTaken, InKept
<1>3. CASE \/ Select \/ NotRead \/ Written \/ Snapshot \/ RunPending \/ Take \/ Reply
           \/ EndDrain \/ Ask \/ FlushAll \/ EndNested \/ PeerRead \/ UNCHANGED vars
           \/ \E c \in Cookies : addpending(c) \/ delpending(c)
  <2>1. UNCHANGED <<posted, coming, wire, inbuf, handled, lost>>
    <3>1. CASE Select \/ NotRead \/ Written \/ Snapshot \/ RunPending
      BY <3>1 DEF Select, NotRead, Written, Snapshot, RunPending, bus, input
    <3>2. CASE Take \/ Reply \/ EndDrain \/ Ask \/ FlushAll \/ EndNested
      BY <3>2 DEF Take, Reply, EndDrain, Ask, FlushAll, EndNested, bus, input
    <3>3. CASE PeerRead \/ UNCHANGED vars
      BY <3>3 DEF PeerRead, vars, bus, input
    <3>4. CASE \E c \in Cookies : addpending(c) \/ delpending(c)
      BY <3>4 DEF addpending, delpending, bus, input
    <3> QED BY <1>3, <3>1, <3>2, <3>3, <3>4
  <2> QED BY <2>1, InKeeps
<1> QED BY <1>1, <1>2, <1>3, InArrive, InLose DEF Next, Thread, Rest

-----------------------------------------------------------------------------
(* The loop, and the invariant as a whole.                                  *)

LEMMA AppReading ==
  ASSUME AppTypes, handlemessage \/ NoMessage
  PROVE  waiting' \in Nat /\ action_queue' \in Seq({"call", "quit"})
         /\ want_to_die' \in BOOLEAN
<1>0. waiting \in Nat /\ action_queue \in Seq({"call", "quit"})
      /\ want_to_die \in BOOLEAN
  BY DEF AppTypes
<1>1. CASE handlemessage
  <2>1. want_to_die' \in BOOLEAN
    BY <1>0, <1>1 DEF handlemessage, onclose
  <2>2. PICK kind : Handled(kind)
    BY <1>1 DEF handlemessage
  <2>3. CASE kind \in {"call", "quit"} /\ action_queue' = Append(action_queue, kind)
             /\ UNCHANGED waiting
    <3>1. action_queue' \in Seq({"call", "quit"})
      BY <1>0, <2>3, AppendProperties
    <3> QED BY <1>0, <2>1, <2>3, <3>1
  <2>4. CASE UNCHANGED action_queue /\ (UNCHANGED waiting \/ waiting' = 0)
    BY <1>0, <2>1, <2>4
  <2> QED BY <2>2, <2>3, <2>4 DEF Handled
<1>2. CASE NoMessage
  BY <1>0, <1>2 DEF NoMessage, app, onclose
<1> QED BY <1>1, <1>2

LEMMA AppStep == ASSUME OutAll, OutAll', AppTypes, [Next]_vars PROVE AppTypes'
<1>0. /\ ready \in [r : BOOLEAN, w : BOOLEAN]
      /\ nowpending \subseteq Cookies \cup {"pw_obj"} /\ deleted \subseteq Cookies
      /\ answered \in Nat /\ waiting \in Nat
      /\ action_queue \in Seq({"call", "quit"}) /\ want_to_die \in BOOLEAN
      /\ pending \subseteq Cookies \cup {"pw_obj"} /\ wset \in BOOLEAN
  BY DEF AppTypes, OutAll, OutTypes
<1>1. CASE Post \/ Answer \/ Arrive \/ PeerRead \/ Lose \/ UNCHANGED vars
  <2>1. UNCHANGED <<ready, nowpending, deleted, waiting, pc, action_queue, want_to_die>>
        /\ answered' \in {answered, waiting}
    <3>1. CASE Post \/ Answer
      BY <3>1 DEF Post, Answer, events, app
    <3>2. CASE Arrive \/ PeerRead \/ Lose
      BY <3>2 DEF Arrive, PeerRead, Lose, events, app
    <3>3. CASE UNCHANGED vars
      BY <3>3 DEF vars, bus, events, app
    <3> QED BY <1>1, <3>1, <3>2, <3>3
  <2> QED BY <1>0, <2>1 DEF AppTypes
<1>2. CASE Select \/ Snapshot \/ RunPending \/ \E c \in Cookies : addpending(c) \/ delpending(c)
  <2>1. UNCHANGED <<answered, waiting, action_queue, want_to_die>>
    BY <1>2 DEF Select, Snapshot, RunPending, addpending, delpending, bus, app
  <2>2. ready' \in [r : BOOLEAN, w : BOOLEAN]
    <3>1. CASE Select
      <4>1. ready' = [r |-> Readable, w |-> wset /\ Writable]
        BY <3>1 DEF Select
      <4>2. Readable \in BOOLEAN /\ (wset /\ Writable) \in BOOLEAN
        BY DEF Readable, Writable
      <4> QED BY <4>1, <4>2
    <3>2. CASE UNCHANGED ready
      BY <1>0, <3>2
    <3> QED BY <1>2, <3>1, <3>2 DEF Snapshot, RunPending, addpending, delpending
  <2>3. nowpending' \subseteq Cookies \cup {"pw_obj"}
    BY <1>0, <1>2 DEF Select, Snapshot, RunPending, addpending, delpending
  <2>4. deleted' \subseteq Cookies
    BY <1>0, <1>2 DEF Select, Snapshot, RunPending, addpending, delpending
  <2>5. pc' \in {pc, "read", "run", "drain"}
    BY <1>2 DEF Select, Snapshot, RunPending, addpending, delpending
  <2> QED BY <1>0, <2>1, <2>2, <2>3, <2>4, <2>5 DEF AppTypes
<1>3. CASE Read \/ Nested
  <2>1. handlemessage \/ NoMessage
    BY <1>3 DEF Read, Nested
  <2>2. UNCHANGED <<answered, ready, nowpending, deleted>>
    BY <1>3 DEF Read, Nested, bus, events
  <2>3. pc' \in {pc, "read", "write", "spin"}
    BY <1>3 DEF Read, Nested
  <2> QED BY <1>0, <2>1, <2>2, <2>3, AppReading DEF AppTypes
<1>4. CASE NotRead \/ Written \/ FlushAll
  <2>1. UNCHANGED <<answered, ready, nowpending, deleted, waiting, action_queue>>
    BY <1>4 DEF NotRead, Written, FlushAll, bus, events, app
  <2>2. want_to_die' \in BOOLEAN
    BY <1>0, <1>4 DEF NotRead, Written, FlushAll, onclose
  <2>3. pc' \in {pc, "write", "pending", "dead", "nested", "spin"}
    BY <1>4 DEF NotRead, Written, FlushAll
  <2> QED BY <1>0, <2>1, <2>2, <2>3 DEF AppTypes
<1>5. CASE Take
  <2>1. UNCHANGED <<answered, ready, nowpending, deleted, waiting>>
        /\ action_queue # <<>> /\ action_queue' = Tail(action_queue)
        /\ want_to_die' \in {want_to_die, TRUE} /\ pc' \in {"reply", "ask"}
    BY <1>5 DEF Take, bus, events
  <2>2. action_queue' \in Seq({"call", "quit"})
    BY <1>0, <2>1, HeadTailProperties
  <2> QED BY <1>0, <2>1, <2>2 DEF AppTypes
<1>6. CASE Reply \/ EndDrain
  <2>1. UNCHANGED <<answered, ready, nowpending, deleted, waiting, action_queue>>
    BY <1>6 DEF Reply, EndDrain, bus, events, app
  <2>2. want_to_die' \in BOOLEAN
    BY <1>0, <1>6 DEF Reply, EndDrain, onclose
  <2>3. pc' \in {"drain", "done", "select"}
    BY <1>6 DEF Reply, EndDrain
  <2> QED BY <1>0, <2>1, <2>2, <2>3 DEF AppTypes
<1>7. CASE Ask \/ EndNested
  <2>1. UNCHANGED <<answered, ready, nowpending, deleted, action_queue>>
    BY <1>7 DEF Ask, EndNested, bus, events
  <2>2. want_to_die' \in BOOLEAN
    BY <1>0, <1>7 DEF Ask, EndNested, onclose
  <2>3. waiting' \in Nat
    BY <1>7 DEF Ask, EndNested, OutAll, OutTypes
  <2>4. pc' \in {"flush", "reply", "ask"}
    BY <1>7 DEF Ask, EndNested
  <2> QED BY <1>0, <2>1, <2>2, <2>3, <2>4 DEF AppTypes
<1> QED BY <1>1, <1>2, <1>3, <1>4, <1>5, <1>6, <1>7 DEF Next, Thread, Rest

\* While the connection lasts, every message that was handled has been sent.
LEMMA HandledPosted ==
  ASSUME InAll, ~lost
  PROVE  Len(handled) \in Nat /\ Len(posted) \in Nat /\ Len(handled) <= Len(posted)
<1>1. PICK h \in Nat : h = Len(handled)
  BY InLengths
<1>2. PICK n \in Nat : n = Len(posted)
  BY InLengths
<1>3. h * MsgLen <= n * MsgLen
  <2> DEFINE gone == h * MsgLen
             sent == n * MsgLen
  <2>1. gone \in Nat /\ sent \in Nat
    BY Times
  <2>2. gone = Begun
    BY <1>1 DEF Begun
  <2>3. gone + Len(inbuf) + Len(wire) + Len(coming) = sent
    BY <1>2, <2>2 DEF InAll, InInv, Had
  <2> HIDE DEF gone, sent
  <2>4. gone <= sent
    BY <2>1, <2>3, InLengths
  <2> QED BY <2>4 DEF gone, sent
<1>4. ~(n < h)
  <2>1. ASSUME n < h PROVE FALSE
    <3>1. n * MsgLen + MsgLen <= h * MsgLen
      BY <2>1, LaterMessage
    <3>2. MsgLen >= 1 /\ MsgLen \in Nat /\ n * MsgLen \in Nat /\ h * MsgLen \in Nat
      BY Times
    <3> QED BY <1>3, <3>1, <3>2
  <2> QED BY <2>1
<1> QED BY <1>1, <1>2, <1>4

LEMMA EmptiedKeeps ==
  ASSUME InAll, ~lost, Emptied, UNCHANGED outbuf, UNCHANGED handled,
         \A i \in 1..Len(posted) : posted'[i] = posted[i]
  PROVE  Emptied'
<1>1. PICK i \in DOMAIN handled : posted[i] = "foreign"
  BY DEF Emptied
<1>2. i \in 1..Len(posted)
  <2>1. DOMAIN handled = 1..Len(handled)
    BY LenProperties DEF InAll, InTypes
  <2> QED BY <1>1, <2>1, HandledPosted
<1>3. posted'[i] = "foreign" /\ i \in DOMAIN handled'
  BY <1>1, <1>2
<1> QED BY <1>3 DEF Emptied

\* Reading takes the socket out of w only at the end of the stream, or when
\* the answer to a call that is not for vx.db has taken the rest along.
LEMMA DeadReading ==
  ASSUME OutAll, OutAll', InAll, handlemessage \/ NoMessage, UNCHANGED <<bus, lost>>,
         wset \/ lost \/ Emptied
  PROVE  wset' \/ lost' \/ Emptied'
<1> SUFFICES ASSUME ~lost, ~wset' PROVE Emptied'
  OBVIOUS
<1>0. UNCHANGED <<posted, coming, peer>>
  BY DEF bus
<1>1. CASE NoMessage
  <2>1. UNCHANGED <<wset, outbuf, handled>>
    BY <1>1 DEF NoMessage
  <2> QED BY <1>0, <2>1, EmptiedKeeps
<1>2. CASE handlemessage
  <2>1. PICK h \in Nat : h = Len(handled)
    BY InLengths
  <2>2. Len(handled') = h + 1 /\ handled'[h + 1] = Units(h + 1) /\ InAll'
    BY <1>0, <1>2, <2>1, InTaken DEF handlemessage
  <2>3. handled' = Append(handled, SubSeq(inbuf \o wire, 1, MsgLen))
    BY <1>2 DEF handlemessage, TakenOut
  <2>4. DOMAIN handled = 1..h /\ DOMAIN handled' = 1..h + 1
    BY <2>1, <2>2, LenProperties DEF InAll, InTypes
  <2>5. Handled(posted[h + 1])
    <3>1. 1 \in 1..MsgLen
      BY Times
    <3>2. Units(h + 1)[1].msg = h + 1
      BY <3>1 DEF Units
    <3> QED BY <1>2, <2>2, <3>2 DEF handlemessage
  <2>6. CASE UNCHANGED output
    <3>1. UNCHANGED <<wset, outbuf>>
      BY <2>6 DEF output
    <3>2. outbuf = <<>> /\ \E i \in DOMAIN handled : posted[i] = "foreign"
      BY <3>1 DEF Emptied
    <3>3. \E i \in DOMAIN handled' : posted'[i] = "foreign"
      BY <1>0, <2>4, <3>2
    <3> QED BY <3>1, <3>2, <3>3 DEF Emptied
  <2>7. CASE posted[h + 1] = "foreign"
    <3>1. h + 1 \in DOMAIN handled' /\ posted'[h + 1] = "foreign"
      BY <1>0, <2>4, <2>7
    <3>2. sock' # "closed"
      BY DEF OutAll, RegInv
    <3>3. sock' = "open" /\ (outbuf' # <<>> => wset')
      BY <3>2 DEF OutAll, OutTypes, RegInv
    <3> QED BY <3>1, <3>3 DEF Emptied
  <2> QED BY <2>5, <2>6, <2>7 DEF Handled
<1> QED BY <1>1, <1>2

LEMMA DeadKeeps ==
  ASSUME DeadInv, UNCHANGED <<pc, ready, wset, lost, outbuf, posted, handled>>
  PROVE  DeadInv'
  BY DEF DeadInv, Emptied

LEMMA DeadStep ==
  ASSUME OutAll, OutAll', InAll, DeadInv, [Next]_vars
  PROVE  DeadInv'
<1>1. CASE Post \/ Answer
  <2>1. UNCHANGED <<pc, ready, wset, lost, outbuf, handled>> /\ ~lost
    BY <1>1 DEF Post, Answer, events, output, input
  <2>2. PICK kind : posted' = Append(posted, kind) /\ kind \in Kinds
    BY <1>1 DEF Post, Answer, Send, Kinds
  <2>3. \A i \in 1..Len(posted) : posted'[i] = posted[i]
    BY <2>2, AppendProperties DEF InAll, InTypes
  <2>4. Emptied => Emptied'
    BY <2>1, <2>3, EmptiedKeeps
  <2> QED BY <2>1, <2>4 DEF DeadInv
<1>2. CASE Arrive \/ PeerRead \/ UNCHANGED vars \/ \E c \in Cookies : addpending(c) \/ delpending(c)
  <2>1. UNCHANGED <<pc, ready, wset, lost, outbuf, posted, handled>>
    <3>1. CASE Arrive \/ PeerRead
      BY <3>1 DEF Arrive, PeerRead, events, output, input
    <3>2. CASE UNCHANGED vars
      BY <3>2 DEF vars, bus, events, output, input
    <3>3. CASE \E c \in Cookies : addpending(c) \/ delpending(c)
      BY <3>3 DEF addpending, delpending, bus, input
    <3> QED BY <1>2, <3>1, <3>2, <3>3
  <2> QED BY <2>1, DeadKeeps
<1>3. CASE Lose
  BY <1>3 DEF Lose, DeadInv
<1>4. CASE Select
  <2>1. pc' = "read" /\ ready' = [r |-> Readable, w |-> wset /\ Writable] /\ wset' = wset
    BY <1>4 DEF Select, output
  <2> QED BY <2>1 DEF DeadInv
<1>5. CASE Read
  <2>1. /\ pc = "read" /\ pc' \in {"read", "write"} /\ UNCHANGED <<bus, lost>>
        /\ ready' = ready /\ (handlemessage \/ NoMessage)
    BY <1>5 DEF Read, events
  <2>2. ASSUME ready.w PROVE wset' \/ lost' \/ Emptied'
    <3>1. wset \/ lost \/ Emptied
      BY <2>1, <2>2 DEF DeadInv
    <3> QED BY <2>1, <3>1, DeadReading
  <2> QED BY <2>1, <2>2 DEF DeadInv
<1>6. CASE NotRead
  <2>1. pc = "read" /\ pc' = "write" /\ UNCHANGED <<ready, wset, lost, outbuf, posted, handled>>
    BY <1>6 DEF NotRead, bus, events, output, input
  <2> QED BY <2>1 DEF DeadInv, Emptied
<1>7. CASE Written
  <2>1. CASE pc' = "pending"
    BY <2>1 DEF DeadInv
  <2>2. CASE pc' = "dead"
    <3>1. pc = "write" /\ ready.w /\ ~wset
          /\ UNCHANGED <<lost, outbuf, posted, handled>>
      BY <1>7, <2>2 DEF Written, bus, output, input
    <3> QED BY <2>2, <3>1 DEF DeadInv, Emptied
  <2> QED BY <1>7, <2>1, <2>2 DEF Written
<1>8. CASE \/ Snapshot \/ RunPending \/ Take \/ Reply \/ EndDrain \/ Ask \/ FlushAll
           \/ Nested \/ EndNested
  <2>1. pc' \notin {"read", "write", "dead"}
    <3>1. CASE Snapshot \/ RunPending \/ Take \/ Reply \/ EndDrain \/ Ask
      BY <3>1 DEF Snapshot, RunPending, Take, Reply, EndDrain, Ask
    <3>2. CASE FlushAll \/ Nested \/ EndNested
      BY <3>2 DEF FlushAll, Nested, EndNested
    <3> QED BY <1>8, <3>1, <3>2
  <2> QED BY <2>1 DEF DeadInv
<1> QED BY <1>1, <1>2, <1>3, <1>4, <1>5, <1>6, <1>7, <1>8 DEF Next, Thread, Rest

-----------------------------------------------------------------------------
(* The theorems.                                                            *)

Inv == OutAll /\ InAll /\ AppTypes /\ DeadInv

LEMMA InvInit == ASSUME Init PROVE Inv
<1>1. <<>> \in Seq(Nat) /\ <<>> \in Seq(Unit) /\ <<>> \in Seq(Seq(Unit))
      /\ <<>> \in Seq(Kinds) /\ <<>> \in Seq({"call", "quit"})
      /\ Len(<<>>) = 0 /\ DOMAIN <<>> = {}
  BY EmptySeq
<1>2. Room \in Nat /\ Room >= 1 /\ MsgLen \in Nat /\ MsgLen >= 1
  BY SizesAssumption
<1>3. OutTypes
  BY <1>1 DEF Init, OutTypes
<1>4. OutInv
  BY <1>1, <1>2, NoneOrdered DEF Init, OutInv, Left
<1>5. RegInv
  BY DEF Init, RegInv
<1>6. InTypes
  BY <1>1 DEF Init, InTypes
<1>7. InInv
  <2>1. Begun = 0 /\ Had = 0
    BY <1>1, <1>2 DEF Init, Begun, Had
  <2> QED BY <1>1, <1>2, <2>1, NoneOrdered DEF Init, InInv
<1>8. AppTypes
  BY <1>1 DEF Init, AppTypes
<1>9. DeadInv
  BY DEF Init, DeadInv
<1> QED BY <1>3, <1>4, <1>5, <1>6, <1>7, <1>8, <1>9 DEF Inv, OutAll, InAll

LEMMA InvStep == ASSUME Inv, [Next]_vars PROVE Inv'
<1>1. OutAll /\ InAll /\ AppTypes /\ DeadInv
  BY DEF Inv
<1>2. OutAll' /\ InAll'
  BY <1>1, OutStep, InStep
<1>3. AppTypes' /\ DeadInv'
  BY <1>1, <1>2, AppStep, DeadStep
<1> QED BY <1>2, <1>3 DEF Inv

LEMMA Always == Spec => []Inv
  BY InvInit, InvStep, PTL DEF Spec

\* Every variable keeps its type, and _flush is in the socket's event once at
\* most, however often a reply has to wait for room.
THEOREM TypeCorrect == Spec => []TypeOK
<1>1. ASSUME Inv PROVE TypeOK
  <2>1. onwritable \in 0..1
    BY <1>1 DEF Inv, OutAll, RegInv
  <2> QED BY <1>1, <2>1 DEF Inv, OutAll, InAll, OutTypes, InTypes, AppTypes, TypeOK
<1> QED BY <1>1, Always, PTL

\* What the daemon writes gets to the bus in order and nothing twice, and while
\* the connection lasts nothing of it is missing.
LEMMA InOrder == ASSUME Inv PROVE BytesInOrder
<1>0. peer \in Seq(Nat) /\ kernel \in Seq(Nat) /\ outbuf \in Seq(Nat) /\ written \in Nat
  BY DEF Inv, OutAll, OutTypes
<1>1. PICK p \in Nat : p = Len(peer)
  BY <1>0, LenProperties
<1>2. PICK a \in Nat : a = p + Len(kernel) /\ a = Left
  BY <1>0, <1>1, LenProperties DEF Left
<1>3. Ordered(peer, Number, 0)
  BY DEF Inv, OutAll, OutInv
<1>4. peer = [i \in 1..Len(peer) |-> i]
  <2>1. peer = [i \in 1..Len(peer) |-> 0 + i]
    BY <1>0, <1>3, Numbered
  <2>2. \A i \in 1..Len(peer) : 0 + i = i
    OBVIOUS
  <2> QED BY <2>1, <2>2
<1>5. ASSUME ~lost PROVE peer \o kernel \o outbuf = [i \in 1..written |-> i]
  <2>1. Ordered(kernel, Number, p) /\ Ordered(outbuf, Number, a) /\ a + Len(outbuf) = written
    BY <1>1, <1>2, <1>5 DEF Inv, OutAll, OutInv
  <2> DEFINE sent == peer \o kernel
             all == sent \o outbuf
  <2>2. sent \in Seq(Nat) /\ Ordered(sent, Number, 0)
    <3>1. Ordered(kernel, Number, 0 + Len(peer))
      BY <1>1, <2>1
    <3> QED BY <1>0, <1>3, <3>1, JoinOrdered
  <2>3. Len(sent) = a
    BY <1>0, <1>1, <1>2, ConcatProperties
  <2> HIDE DEF sent
  <2>4. all \in Seq(Nat) /\ Ordered(all, Number, 0)
    <3>1. Ordered(outbuf, Number, 0 + Len(sent))
      BY <2>1, <2>3
    <3> QED BY <1>0, <2>2, <3>1, JoinOrdered
  <2>5. Len(all) = written
    BY <1>0, <2>1, <2>2, <2>3, ConcatProperties
  <2>6. all = [i \in 1..Len(all) |-> 0 + i]
    BY <2>4, Numbered
  <2> HIDE DEF all
  <2>7. all = [i \in 1..written |-> i]
    <3>1. \A i \in 1..Len(all) : 0 + i = i
      OBVIOUS
    <3> QED BY <2>5, <2>6, <3>1
  <2> QED BY <2>7 DEF all, sent
<1> QED BY <1>4, <1>5 DEF BytesInOrder

\* Bytes and messages keep their order and their boundaries in both directions,
\* however reads and writes are cut and whichever loop goes on with them; the
\* loop is ended by an exception only when a flush has nothing left to do.
THEOREM StreamIntact == Spec => []Intact
<1>1. ASSUME Inv PROVE Intact
  <2>1. BytesInOrder
    BY <1>1, InOrder
  <2>2. FramesIntact
    BY <1>1 DEF Inv, InAll, InInv, FramesIntact
  <2>3. DiesOfFlushOnly
    BY <1>1 DEF Inv, DeadInv, Emptied, DiesOfFlushOnly
  <2> QED BY <2>1, <2>2, <2>3 DEF Intact
<1> QED BY <1>1, Always, PTL

\* An open socket is selected for writing exactly while something waits in
\* outbuf: no output stays behind and the loop does not spin.
THEOREM ListensRightly == Spec => []ListensForWrites
<1>1. ASSUME Inv PROVE ListensForWrites
  BY <1>1 DEF Inv, OutAll, RegInv, OutTypes, ListensForWrites
<1> QED BY <1>1, Always, PTL

==============================================================================
