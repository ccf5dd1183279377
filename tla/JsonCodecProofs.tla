---------------------------- MODULE JsonCodecProofs ----------------------------
(***************************************************************************)
(* What is proved of string literals, for every text and every string:     *)
(* that what is written fits, that a literal is decoded to what it means,  *)
(* and that a printed string is decoded to itself; and of what is printed, *)
(* for every value and every INT_MAX: that all of it is within the buffer, *)
(* that it is refused only when there is no room for it, and that it is    *)
(* parsed to the value it was printed from.                                *)
(***************************************************************************)
EXTENDS JsonText, FoldProofs
-----------------------------------------------------------------------------
(* Where a literal ends. *)

Closings == [at : Nat, skipped : Nat]

ClosingStep(t, r, k) ==
  CASE k > Len(t) -> [at |-> 0, skipped |-> 0]
    [] k <= Len(t) /\ t[k] = Quote -> [at |-> k, skipped |-> 0]
    [] k <= Len(t) /\ t[k] = Backslash -> [r[k + 2] EXCEPT !.skipped = @ + 1]
    [] OTHER -> r[k + 1]

\* The function that Closing computes with.
ClosingRun(r, t, i) ==
  r = [k \in i..(Len(t) + 2) |-> ClosingStep(t, r, k)]

LEMMA ClosingStepIs ==
  ASSUME NEW t \in Seq(Int), NEW r, NEW k \in Nat
  PROVE  /\ k > Len(t) => ClosingStep(t, r, k) = [at |-> 0, skipped |-> 0]
         /\ k <= Len(t) /\ t[k] = Quote => ClosingStep(t, r, k) = [at |-> k, skipped |-> 0]
         /\ k <= Len(t) /\ t[k] = Backslash =>
              ClosingStep(t, r, k) = [r[k + 2] EXCEPT !.skipped = @ + 1]
         /\ k <= Len(t) /\ t[k] \notin {Quote, Backslash} => ClosingStep(t, r, k) = r[k + 1]
<1>1. Len(t) \in Nat
  BY LenProperties
<1>2. Quote # Backslash
  BY DEF Quote, Backslash
<1>3. CASE k > Len(t)
  BY <1>1, <1>3 DEF ClosingStep
<1>4. CASE k <= Len(t) /\ ~(k > Len(t))
  BY <1>2, <1>4 DEF ClosingStep
<1> QED BY <1>1, <1>3, <1>4

LEMMA Skip ==
  ASSUME NEW x \in Closings
  PROVE  LET y == [x EXCEPT !.skipped = @ + 1] IN
         y \in Closings /\ y.at = x.at /\ y.skipped = x.skipped + 1
BY DEF Closings

LEMMA ClosingExists ==
  ASSUME NEW t \in Seq(Int), NEW i \in 1..(Len(t) + 2)
  PROVE  \E r : ClosingRun(r, t, i)
<1> DEFINE S == i..(Len(t) + 2)
           V == Closings
           F == [p \in S \X [S -> V] |-> ClosingStep(t, p[2], p[1])]
           n == Len(t) + 2
           rank == [k \in S |-> n - k]
           v == [at |-> 0, skipped |-> 0]
<1>0. Len(t) \in Nat
  BY LenProperties
<1>1. n \in Nat /\ rank \in [S -> 0..n] /\ v \in V
  BY <1>0 DEF Closings
<1>8. \A k \in S : k \in Nat /\ (k <= Len(t) => k + 1 \in S /\ k + 2 \in S)
  BY <1>0
<1>2. ASSUME NEW k \in S, NEW r \in [S -> V] PROVE ClosingStep(t, r, k) \in V
  <2> HIDE DEF S
  <2>0. k \in Nat
    BY <1>8
  <2>1. CASE k > Len(t)
    BY <1>1, <2>0, <2>1, ClosingStepIs
  <2>2. CASE k <= Len(t) /\ t[k] = Quote
    BY <2>0, <2>2, ClosingStepIs DEF Closings
  <2>3. CASE k <= Len(t) /\ t[k] = Backslash
    <3>1. r[k + 2] \in Closings
      BY <1>8, <2>3
    <3> QED BY <2>0, <2>3, <3>1, ClosingStepIs, Skip
  <2>4. CASE k <= Len(t) /\ t[k] \notin {Quote, Backslash}
    BY <1>8, <2>0, <2>4, ClosingStepIs
  <2> QED BY <1>0, <2>0, <2>1, <2>2, <2>3, <2>4
<1>3. F \in [S \X [S -> V] -> V]
  BY <1>2
<1>4. DependsOnLower(F, rank, S, V)
  <2> SUFFICES ASSUME NEW k \in S, NEW g \in [S -> V], NEW h \in [S -> V],
                      \A y \in S : rank[y] < rank[k] => g[y] = h[y]
               PROVE  ClosingStep(t, g, k) = ClosingStep(t, h, k)
    BY DEF DependsOnLower
  <2>1. ASSUME k <= Len(t) PROVE g[k + 1] = h[k + 1] /\ g[k + 2] = h[k + 2]
    <3>1. n - (k + 1) < n - k /\ n - (k + 2) < n - k
      BY <1>0
    <3>2. k + 1 \in S /\ k + 2 \in S
      BY <1>8, <2>1
    <3> HIDE DEF S, n
    <3> QED BY <3>1, <3>2
  <2>2. k \in Nat
    BY <1>8
  <2> HIDE DEF S, V, F, n, rank
  <2>3. CASE k > Len(t)
    BY <2>2, <2>3, ClosingStepIs
  <2>4. CASE k <= Len(t)
    <3>1. CASE t[k] = Quote
      <4>1. ClosingStep(t, g, k) = [at |-> k, skipped |-> 0]
        BY <2>2, <2>4, <3>1, ClosingStepIs
      <4>2. ClosingStep(t, h, k) = [at |-> k, skipped |-> 0]
        BY <2>2, <2>4, <3>1, ClosingStepIs
      <4> QED BY <4>1, <4>2
    <3>2. CASE t[k] = Backslash
      <4>1. ClosingStep(t, g, k) = [g[k + 2] EXCEPT !.skipped = @ + 1]
        BY <2>2, <2>4, <3>2, ClosingStepIs
      <4>2. ClosingStep(t, h, k) = [h[k + 2] EXCEPT !.skipped = @ + 1]
        BY <2>2, <2>4, <3>2, ClosingStepIs
      <4>3. g[k + 2] = h[k + 2]
        BY <2>1, <2>4
      <4> QED BY <4>1, <4>2, <4>3
    <3>3. CASE t[k] \notin {Quote, Backslash}
      BY <2>1, <2>2, <2>4, <3>3, ClosingStepIs
    <3> QED BY <3>1, <3>2, <3>3
  <2> QED BY <1>0, <2>2, <2>3, <2>4
<1> HIDE DEF F, rank, v, V, n
<1>5. PICK r : Recursive(r, F, S, V)
  <2> HIDE DEF S
  <2> QED BY <1>1, <1>3, <1>4, RecursionExists
<1>6. \A k \in S : F[<<k, r>>] = ClosingStep(t, r, k)
  BY <1>5 DEF F, Recursive
<1>7. r = [k \in S |-> ClosingStep(t, r, k)]
  BY <1>5, <1>6 DEF Recursive
<1> QED BY <1>7 DEF ClosingRun

LEMMA ClosingIsRun ==
  ASSUME NEW t \in Seq(Int), NEW i \in 1..(Len(t) + 2)
  PROVE  \E r : ClosingRun(r, t, i) /\ Closing(t, i) = r[i]
<1> DEFINE f == CHOOSE r : ClosingRun(r, t, i)
<1>1. ClosingRun(f, t, i)
  BY ClosingExists
<1>2. Closing(t, i) = f[i]
  BY DEF Closing, ClosingRun, ClosingStep
<1> QED BY <1>1, <1>2

\* A literal ends at a quote, unless the text ends first.
EndsWell(t, r, k) ==
  /\ r[k] \in Closings
  /\ r[k].at # 0 => k <= r[k].at /\ r[k].at <= Len(t) /\ t[r[k].at] = Quote

LEMMA ClosingBounds ==
  ASSUME NEW t \in Seq(Int), NEW i \in 1..(Len(t) + 2), NEW r, ClosingRun(r, t, i)
  PROVE  \A k \in i..(Len(t) + 2) : EndsWell(t, r, k)
<1> DEFINE b == Len(t) + 2
           T == {k \in i..b : EndsWell(t, r, k)}
<1>0. Len(t) \in Nat
  BY LenProperties
<1>1. ASSUME NEW k \in i..b, \A j \in (k + 1)..b : j \in T PROVE k \in T
  <2>0. r[k] = ClosingStep(t, r, k) /\ k \in Nat
    <3>1. r[k] = ClosingStep(t, r, k)
      BY DEF ClosingRun
    <3> QED BY <1>0, <3>1
  <2>5. k <= Len(t) => EndsWell(t, r, k + 1) /\ EndsWell(t, r, k + 2)
    BY <1>0, <1>1
  <2>1. CASE k > Len(t)
    <3>1. r[k] = [at |-> 0, skipped |-> 0]
      BY <2>0, <2>1, ClosingStepIs
    <3> QED BY <3>1 DEF EndsWell, Closings
  <2>2. CASE k <= Len(t) /\ t[k] = Quote
    <3>1. r[k] = [at |-> k, skipped |-> 0]
      BY <2>0, <2>2, ClosingStepIs
    <3> QED BY <2>0, <2>2, <3>1 DEF EndsWell, Closings
  <2>3. CASE k <= Len(t) /\ t[k] = Backslash
    <3>2. r[k] = [r[k + 2] EXCEPT !.skipped = @ + 1]
      BY <2>0, <2>3, ClosingStepIs
    <3>3. r[k] \in Closings /\ r[k].at = r[k + 2].at
      BY <2>3, <2>5, <3>2, Skip DEF EndsWell
    <3>4. r[k + 2].at \in Nat
      BY <2>3, <2>5 DEF EndsWell, Closings
    <3>5. r[k + 2].at # 0 => /\ k + 2 <= r[k + 2].at /\ r[k + 2].at <= Len(t)
                             /\ t[r[k + 2].at] = Quote
      BY <2>3, <2>5 DEF EndsWell
    <3>6. k + 2 <= r[k + 2].at => k <= r[k + 2].at
      BY <2>0, <3>4
    <3> QED BY <3>3, <3>5, <3>6 DEF EndsWell
  <2>4. CASE k <= Len(t) /\ t[k] \notin {Quote, Backslash}
    <3>1. r[k] = r[k + 1]
      BY <2>0, <2>4, ClosingStepIs
    <3>2. EndsWell(t, r, k + 1) /\ r[k + 1].at \in Nat
      BY <2>4, <2>5 DEF EndsWell, Closings
    <3>3. k + 1 <= r[k + 1].at => k <= r[k + 1].at
      BY <2>0, <3>2
    <3> QED BY <3>1, <3>2, <3>3 DEF EndsWell
  <2> QED BY <1>0, <2>0, <2>1, <2>2, <2>3, <2>4
<1>2. b \in Int /\ i \in Int
  BY <1>0
<1> HIDE DEF T, b
<1>3. \A k \in i..b : k \in T
  BY <1>1, <1>2, DownTo
<1> QED BY <1>3 DEF T, b

\* The search from x finds the end that the one from q finds, which has skipped
\* no more than one in two bytes between them.
LeadsTo(t, i, r, q, x) ==
  /\ x \in i..(Len(t) + 2) /\ r[x].at = r[q].at
  /\ 2 * (r[q].skipped - r[x].skipped) <= x - q

\* It leads from q to m or just after it.
LEMMA ClosingAdvances ==
  ASSUME NEW t \in Seq(Int), NEW i \in 1..(Len(t) + 2), NEW r, ClosingRun(r, t, i),
         NEW q \in i..(Len(t) + 2), r[q].at # 0, NEW m \in q..r[q].at
  PROVE  LeadsTo(t, i, r, q, m) \/ LeadsTo(t, i, r, q, m + 1)
<1> DEFINE at == r[q].at
           Good(y) == LeadsTo(t, i, r, q, y) \/ LeadsTo(t, i, r, q, y + 1)
           n == at - q
           T == {d \in 0..n : Good(q + d)}
<1>1. \A k \in i..(Len(t) + 2) : EndsWell(t, r, k)
  BY ClosingBounds
<1>0. Len(t) \in Nat /\ i \in Nat /\ q \in Nat
  <2>1. Len(t) \in Nat
    BY LenProperties
  <2> QED BY <2>1
<1>2. at \in Nat /\ q <= at /\ at <= Len(t) /\ n \in Nat
  <2>1. at \in Nat /\ q <= at /\ at <= Len(t)
    BY <1>1 DEF EndsWell, Closings
  <2> QED BY <1>0, <2>1
<1>3. 0 \in T
  <2>1. r[q].skipped \in Nat
    BY <1>1 DEF EndsWell, Closings
  <2>2. Good(q + 0)
    BY <1>0, <2>1 DEF LeadsTo
  <2> QED BY <1>2, <2>2
<1>4. ASSUME NEW d \in 1..n, d - 1 \in T PROVE d \in T
  <2> DEFINE y == q + d
  <2>0. y \in Nat /\ y <= at /\ q + (d - 1) = y - 1 /\ (y - 1) + 1 = y /\ (y - 1) + 2 = y + 1
    BY <1>0, <1>2
  <2>1. LeadsTo(t, i, r, q, y - 1) \/ LeadsTo(t, i, r, q, y)
    <3>1. Good(q + (d - 1))
      BY <1>4
    <3> HIDE DEF y
    <3> QED BY <2>0, <3>1
  <2> HIDE DEF y
  <2>3. ASSUME LeadsTo(t, i, r, q, y - 1) PROVE Good(y)
    <3> DEFINE x == y - 1
    <3>0. x \in i..(Len(t) + 2) /\ r[x].at = at /\ 2 * (r[q].skipped - r[x].skipped) <= x - q
      BY <2>3 DEF LeadsTo
    <3>1. x < at /\ x <= Len(t) /\ x \in Nat
      <4>1. x \in Nat
        BY <1>0, <3>0
      <4> HIDE DEF at
      <4>2. x < at
        BY <1>2, <2>0
      <4> QED BY <1>0, <1>2, <4>1, <4>2
    <3>2. r[x] = ClosingStep(t, r, x)
      BY <3>0 DEF ClosingRun
    <3>7. /\ x + 1 \in i..(Len(t) + 2) /\ x + 2 \in i..(Len(t) + 2)
          /\ x + 1 = y /\ x + 2 = y + 1
      <4>1. x + 1 = y /\ x + 2 = y + 1
        BY <2>0
      <4>2. i <= x /\ x <= Len(t)
        BY <1>0, <3>0, <3>1
      <4> HIDE DEF x, at
      <4>3. x + 1 \in i..(Len(t) + 2) /\ x + 2 \in i..(Len(t) + 2)
        BY <1>0, <3>1, <4>2
      <4> QED BY <4>1, <4>3
    <3>8. /\ r[x] \in Closings /\ r[q] \in Closings
          /\ r[x + 1] \in Closings /\ r[x + 2] \in Closings
      BY <1>1, <3>0, <3>7 DEF EndsWell
    <3>9. \A z \in Closings : z.skipped \in Int
      BY DEF Closings
    <3> HIDE DEF x, at
    <3>3. t[x] # Quote
      <4>1. SUFFICES ASSUME t[x] = Quote PROVE r[x].at = x
        BY <1>2, <3>0, <3>1
      <4>2. r[x] = [at |-> x, skipped |-> 0]
        BY <3>1, <3>2, <4>1, ClosingStepIs
      <4> QED BY <4>2
    <3>5. CASE t[x] = Backslash
      <4>1. r[x] = [r[x + 2] EXCEPT !.skipped = @ + 1]
        BY <3>1, <3>2, <3>5, ClosingStepIs
      <4>3. r[x + 2].at = at /\ r[x].skipped = r[x + 2].skipped + 1
        BY <3>0, <3>8, <4>1, Skip
      <4>5. r[x].skipped \in Int /\ r[x + 2].skipped \in Int /\ r[q].skipped \in Int
        BY <3>8, <3>9
      <4> DEFINE a == r[x].skipped
                 c == r[x + 2].skipped
                 e == r[q].skipped
      <4>4. 2 * (e - c) <= (x + 2) - q
        <5>1. a \in Int /\ c \in Int /\ e \in Int /\ a = c + 1 /\ 2 * (e - a) <= x - q
          BY <3>0, <4>3, <4>5
        <5> HIDE DEF a, c, e
        <5> QED BY <1>0, <3>1, <5>1
      <4>6. LeadsTo(t, i, r, q, x + 2)
        BY <3>7, <4>3, <4>4 DEF LeadsTo, at
      <4> QED BY <3>7, <4>6
    <3>6. CASE t[x] # Backslash
      <4>1. r[x] = r[x + 1]
        BY <3>1, <3>2, <3>3, <3>6, ClosingStepIs
      <4>5. r[x].skipped \in Int /\ r[q].skipped \in Int
        BY <3>8, <3>9
      <4> DEFINE a == r[x].skipped
                 e == r[q].skipped
      <4>2. 2 * (e - a) <= (x + 1) - q
        <5>1. a \in Int /\ e \in Int /\ 2 * (e - a) <= x - q
          BY <3>0, <4>5
        <5> HIDE DEF a, e
        <5> QED BY <1>0, <3>1, <5>1
      <4>4. LeadsTo(t, i, r, q, x + 1)
        BY <3>0, <3>7, <4>1, <4>2 DEF LeadsTo, at
      <4> QED BY <3>7, <4>4
    <3> QED BY <3>5, <3>6
  <2>4. Good(y)
    BY <2>1, <2>3
  <2> HIDE DEF Good, n
  <2> QED BY <2>4 DEF y
<1>5. m - q \in 0..n /\ q + (m - q) = m
  BY <1>0, <1>2
<1> HIDE DEF T, Good, n
<1>6. m - q \in T
  <2>1. n \in Nat
    BY <1>2
  <2>2. \A d \in 0..n : d \in T
    BY <1>3, <1>4, <2>1, UpTo
  <2> QED BY <1>5, <2>2
<1>7. Good(m)
  BY <1>5, <1>6 DEF T
<1> QED BY <1>7 DEF Good
-----------------------------------------------------------------------------
(* How much an escape writes. *)

LEMMA DigitRange ==
  ASSUME NEW b \in Int
  PROVE  Digit(b) \in Nat /\ Digit(b) <= 16
BY DEF Digit

LEMMA FourDigits ==
  ASSUME NEW a \in Nat, a < 16, NEW b \in Nat, b < 16, NEW c \in Nat, c < 16,
         NEW e \in Nat, e < 16
  PROVE  LET n == ((a * 16 + b) * 16 + c) * 16 + e IN n \in Nat /\ n < 65536
<1> DEFINE x == a * 16 + b
           y == x * 16 + c
<1>1. x \in Nat /\ x < 256
  OBVIOUS
<1> HIDE DEF x
<1>2. y \in Nat /\ y < 4096
  BY <1>1
<1> HIDE DEF y
<1>3. y * 16 + e \in Nat /\ y * 16 + e < 65536
  BY <1>2
<1> QED BY <1>3 DEF x, y

LEMMA ParseHex4Range ==
  ASSUME NEW t \in Seq(Int), NEW i \in Nat \ {0}, i + 3 <= Len(t)
  PROVE  ParseHex4(t, i) \in Nat /\ ParseHex4(t, i) < 65536
<1> DEFINE d(k) == Digit(t[i + k])
<1>1. \A k \in 0..3 : d(k) \in Nat /\ d(k) <= 16
  <2>1. \A k \in 0..3 : i + k \in 1..Len(t)
    <3>1. Len(t) \in Nat
      BY LenProperties
    <3> QED BY <3>1
  <2>2. \A k \in 0..3 : t[i + k] \in Int
    BY <2>1, ElementOfSeq
  <2> QED BY <2>2, DigitRange
<1>4. ParseHex4(t, i) = IF \E k \in 0..3 : d(k) = 16 THEN 0
                        ELSE ((d(0) * 16 + d(1)) * 16 + d(2)) * 16 + d(3)
  BY DEF ParseHex4
<1> HIDE DEF d
<1>2. CASE \E k \in 0..3 : d(k) = 16
  BY <1>2, <1>4
<1>3. CASE ~\E k \in 0..3 : d(k) = 16
  <2>1. ParseHex4(t, i) = ((d(0) * 16 + d(1)) * 16 + d(2)) * 16 + d(3)
    BY <1>3, <1>4
  <2>2. ASSUME NEW k \in 0..3 PROVE d(k) \in Nat /\ d(k) < 16
    <3> DEFINE x == d(k)
    <3>1. x \in Nat /\ x <= 16 /\ x # 16
      BY <1>1, <1>3
    <3> HIDE DEF x
    <3>2. x < 16
      BY <3>1
    <3> QED BY <3>1, <3>2 DEF x
  <2>3. 0 \in 0..3 /\ 1 \in 0..3 /\ 2 \in 0..3 /\ 3 \in 0..3
    OBVIOUS
  <2> DEFINE d0 == d(0)
             d1 == d(1)
             d2 == d(2)
             d3 == d(3)
  <2>4. /\ d0 \in Nat /\ d0 < 16 /\ d1 \in Nat /\ d1 < 16
        /\ d2 \in Nat /\ d2 < 16 /\ d3 \in Nat /\ d3 < 16
    BY <2>2, <2>3
  <2>5. ParseHex4(t, i) = ((d0 * 16 + d1) * 16 + d2) * 16 + d3
    BY <2>1
  <2> HIDE DEF d0, d1, d2, d3
  <2> QED BY <2>4, <2>5, FourDigits
<1> QED BY <1>2, <1>3

LEMMA Utf8Length ==
  ASSUME NEW cp \in Int
  PROVE  /\ Utf8(cp) \in Seq(Int) /\ Len(Utf8(cp)) \in 1..4
         /\ cp < 65536 => Len(Utf8(cp)) <= 3
<1> DEFINE a == 192 + cp \div 64
           b == 224 + cp \div 4096
           c == 240 + cp \div 262144
           x == Continued(cp)
           y == Continued(cp \div 64)
           z == Continued(cp \div 4096)
<1>1. a \in Int /\ b \in Int /\ c \in Int /\ x \in Int /\ y \in Int /\ z \in Int
  BY DEF Continued
<1>2. Utf8(cp) = IF cp < 128 THEN <<cp>> ELSE IF cp < 2048 THEN <<a, x>>
                 ELSE IF cp < 65536 THEN <<b, y, x>> ELSE <<c, z, y, x>>
  BY DEF Utf8
<1> HIDE DEF a, b, c, x, y, z
<1>3. CASE cp < 128
  BY <1>2, <1>3
<1>4. CASE ~(cp < 128) /\ cp < 2048
  BY <1>1, <1>2, <1>4
<1>5. CASE ~(cp < 128) /\ ~(cp < 2048) /\ cp < 65536
  BY <1>1, <1>2, <1>5
<1>6. CASE ~(cp < 128) /\ ~(cp < 2048) /\ ~(cp < 65536)
  BY <1>1, <1>2, <1>6
<1> QED BY <1>3, <1>4, <1>5, <1>6

Escapes == [length : Nat, bytes : Seq(Int)]

\* An escape that is not wrong writes no more than half of its length, and only
\* one of two bytes may reach to the end.
WritesLittle(e, k, end) ==
  /\ e \in Escapes
  /\ e.length # 0 =>
       /\ e.length \in {2, 6, 12} /\ 2 * Len(e.bytes) <= e.length
       /\ e.length # 2 => k + e.length <= end

LEMMA WrongEscape ==
  ASSUME NEW k, NEW end
  PROVE  WritesLittle(NoEscape, k, end)
<1>1. <<>> \in Seq(Int)
  OBVIOUS
<1> QED BY <1>1 DEF NoEscape, Escapes, WritesLittle

LEMMA ShortEscape ==
  ASSUME NEW x \in Int, NEW k, NEW end
  PROVE  WritesLittle([length |-> 2, bytes |-> <<x>>], k, end)
BY DEF Escapes, WritesLittle

LEMMA HexEscape ==
  ASSUME NEW k \in Nat, NEW end \in Nat, NEW n \in {6, 12}, NEW cp \in Int,
         end - k >= n, cp < 65536 \/ n = 12
  PROVE  WritesLittle([length |-> n, bytes |-> Utf8(cp)], k, end)
<1>1. Utf8(cp) \in Seq(Int) /\ Len(Utf8(cp)) \in 1..4 /\ (cp < 65536 => Len(Utf8(cp)) <= 3)
  BY Utf8Length
<1>2. [length |-> n, bytes |-> Utf8(cp)] \in Escapes
  BY <1>1 DEF Escapes
<1>3. k + n <= end
  OBVIOUS
<1>4. 2 * Len(Utf8(cp)) <= n
  <2> DEFINE u == Len(Utf8(cp))
  <2>1. u \in 1..4 /\ (cp < 65536 => u <= 3)
    BY Utf8Length
  <2> HIDE DEF u
  <2>2. n = 12 \/ (n = 6 /\ cp < 65536)
    OBVIOUS
  <2>3. 2 * u <= n
    BY <2>1, <2>2
  <2> QED BY <2>3 DEF u
<1> QED BY <1>2, <1>3, <1>4 DEF WritesLittle

LEMMA Utf16WritesLittle ==
  ASSUME NEW t \in Seq(Int), NEW end \in 1..Len(t), NEW k \in 1..(end - 1)
  PROVE  WritesLittle(Utf16Literal(t, k, end), k, end)
<1> DEFINE first == ParseHex4(t, k + 2)
           second == ParseHex4(t, k + 8)
           pair == 65536 + (first % 1024) * 1024 + (second % 1024)
           single == [length |-> 6, bytes |-> Utf8(first)]
           double == [length |-> 12, bytes |-> Utf8(pair)]
           short == end - k < 6 \/ LowSurrogate(first)
           wrong == end - k < 12 \/ t[k + 6] # Backslash \/ t[k + 7] # LetterU
                    \/ ~LowSurrogate(second)
<1>1. Len(t) \in Nat /\ k \in Nat /\ end \in Nat
  <2>1. Len(t) \in Nat
    BY LenProperties
  <2> QED BY <2>1
<1>2. Utf16Literal(t, k, end) =
        IF short THEN NoEscape ELSE IF ~HighSurrogate(first) THEN single
        ELSE IF wrong THEN NoEscape ELSE double
  BY DEF Utf16Literal
<1>3. end - k >= 6 => first \in Nat /\ first < 65536
  <2>1. ASSUME end - k >= 6 PROVE (k + 2) + 3 <= Len(t) /\ k + 2 \in Nat \ {0}
    BY <1>1, <2>1
  <2> QED BY <2>1, ParseHex4Range
<1>4. end - k >= 12 => second \in Nat
  <2>1. ASSUME end - k >= 12 PROVE (k + 8) + 3 <= Len(t) /\ k + 8 \in Nat \ {0}
    BY <1>1, <2>1
  <2> QED BY <2>1, ParseHex4Range
<1> HIDE DEF first, second
<1>5. ASSUME ~short PROVE WritesLittle(single, k, end)
  <2>1. end - k >= 6 /\ first \in Int /\ first < 65536
    BY <1>1, <1>3, <1>5
  <2> QED BY <1>1, <2>1, HexEscape
<1>6. ASSUME ~short, ~wrong PROVE WritesLittle(double, k, end)
  <2>1. end - k >= 6 /\ end - k >= 12
    BY <1>1, <1>6
  <2>2. pair \in Int
    BY <1>3, <1>4, <2>1
  <2> HIDE DEF pair
  <2> QED BY <1>1, <2>1, <2>2, HexEscape
<1>7. WritesLittle(NoEscape, k, end)
  BY WrongEscape
<1> HIDE DEF short, wrong, single, double
<1> QED BY <1>2, <1>5, <1>6, <1>7

LEMMA EscapeWritesLittle ==
  ASSUME NEW t \in Seq(Int), NEW end \in 1..Len(t), NEW k \in 1..(end - 1)
  PROVE  WritesLittle(Escape(t, k, end), k, end)
<1> DEFINE b == t[k + 1]
           x == Escape(t, k, end)
<1>1. b \in Int
  <2>1. Len(t) \in Nat
    BY LenProperties
  <2>2. k + 1 \in 1..Len(t)
    BY <2>1
  <2> QED BY <2>2, ElementOfSeq
<1>2. /\ DOMAIN Short \cap Itself = {}
      /\ LetterU \notin DOMAIN Short /\ LetterU \notin Itself
      /\ \A c \in DOMAIN Short : Short[c] \in Int
  <2>1. DOMAIN Short = {98, 102, 110, 114, 116}
    BY DEF Short
  <2>2. Itself = {34, 92, 47} /\ LetterU = 117
    BY DEF Itself, Quote, Backslash, LetterU
  <2>3. /\ Short[98] = 8 /\ Short[102] = 12 /\ Short[110] = 10 /\ Short[114] = 13
        /\ Short[116] = 9
    BY DEF Short
  <2> QED BY <2>1, <2>2, <2>3
<1> HIDE DEF b
<1>3. /\ b \in DOMAIN Short => x = [length |-> 2, bytes |-> <<Short[b]>>]
      /\ b \in Itself => x = [length |-> 2, bytes |-> <<b>>]
      /\ b = LetterU => x = Utf16Literal(t, k, end)
      /\ b \notin DOMAIN Short /\ b \notin Itself /\ b # LetterU => x = NoEscape
  BY <1>2, Zenon DEF Escape, b
<1> HIDE DEF x
<1>4. CASE b \in DOMAIN Short
  <2>1. WritesLittle([length |-> 2, bytes |-> <<Short[b]>>], k, end)
    BY <1>2, <1>4, ShortEscape
  <2> QED BY <1>3, <1>4, <2>1 DEF x
<1>5. CASE b \in Itself
  <2>1. WritesLittle([length |-> 2, bytes |-> <<b>>], k, end)
    BY <1>1, ShortEscape
  <2> QED BY <1>3, <1>5, <2>1 DEF x
<1>6. CASE b = LetterU
  BY <1>3, <1>6, Utf16WritesLittle DEF x
<1>7. CASE b \notin DOMAIN Short /\ b \notin Itself /\ b # LetterU
  BY <1>3, <1>7, WrongEscape DEF x
<1> QED BY <1>4, <1>5, <1>6, <1>7
-----------------------------------------------------------------------------
(* How much a literal writes. *)

Decoded == [ok : BOOLEAN, out : Seq(Int)]

DecodeStep(t, r, k, end) ==
  LET e == Escape(t, k, end) IN
  CASE k >= end -> [ok |-> TRUE, out |-> <<>>]
    [] k < end /\ t[k] # Backslash -> [r[k + 1] EXCEPT !.out = <<t[k]>> \o @]
    [] k < end /\ t[k] = Backslash /\ e.length = 0 -> [ok |-> FALSE, out |-> <<>>]
    [] OTHER -> [r[k + e.length] EXCEPT !.out = e.bytes \o @]

\* The function that Decode computes with.
DecodeRun(r, t, i, end) ==
  r = [k \in i..(end + 1) |-> DecodeStep(t, r, k, end)]

LEMMA Prefix ==
  ASSUME NEW x \in Decoded, NEW s \in Seq(Int)
  PROVE  LET y == [x EXCEPT !.out = s \o @] IN
         y \in Decoded /\ Len(y.out) = Len(s) + Len(x.out)
<1>1. x.out \in Seq(Int)
  BY DEF Decoded
<1>2. s \o x.out \in Seq(Int) /\ Len(s \o x.out) = Len(s) + Len(x.out)
  BY <1>1, ConcatProperties
<1>3. [x EXCEPT !.out = s \o @] = [x EXCEPT !.out = s \o x.out]
  BY DEF Decoded
<1> DEFINE so == s \o x.out
<1> HIDE DEF so
<1>4. [x EXCEPT !.out = so] \in Decoded /\ [x EXCEPT !.out = so].out = so
  BY <1>2 DEF Decoded, so
<1> QED BY <1>2, <1>3, <1>4 DEF so

\* What a step goes on with, and what it writes before that.
LEMMA DecodeGoesOn ==
  ASSUME NEW t \in Seq(Int), NEW end \in 1..Len(t), NEW k \in 1..(end - 1),
         t[k] = Backslash, Escape(t, k, end).length # 0
  PROVE  LET e == Escape(t, k, end) IN
         /\ e.length \in {2, 6, 12} /\ k + e.length <= end + 1
         /\ e.bytes \in Seq(Int) /\ 2 * Len(e.bytes) <= e.length
         /\ e.length # 2 => k + e.length <= end
<1> DEFINE e == Escape(t, k, end)
<1>1. WritesLittle(e, k, end)
  BY EscapeWritesLittle
<1>2. Len(t) \in Nat
  BY LenProperties
<1> HIDE DEF e
<1>3. e.length # 0
  BY DEF e
<1>4. /\ e.length \in {2, 6, 12} /\ 2 * Len(e.bytes) <= e.length
      /\ e.length # 2 => k + e.length <= end
  BY <1>1, <1>3 DEF WritesLittle
<1>5. e.bytes \in Seq(Int)
  BY <1>1 DEF WritesLittle, Escapes
<1>6. k + e.length <= end + 1
  <2>1. k + 2 <= end + 1
    OBVIOUS
  <2>2. CASE e.length = 2
    BY <2>1, <2>2
  <2>3. CASE e.length # 2
    <3> DEFINE l == e.length
    <3>1. l \in {2, 6, 12} /\ k + l <= end
      BY <1>4, <2>3
    <3> HIDE DEF l
    <3>2. k + l <= end + 1
      BY <1>2, <3>1
    <3> QED BY <3>2 DEF l
  <2> QED BY <2>2, <2>3
<1> QED BY <1>4, <1>5, <1>6 DEF e

LEMMA DecodeExists ==
  ASSUME NEW t \in Seq(Int), NEW end \in 1..Len(t), NEW i \in 1..(end + 1)
  PROVE  \E r : DecodeRun(r, t, i, end)
<1> DEFINE S == i..(end + 1)
           V == Decoded
           F == [p \in S \X [S -> V] |-> DecodeStep(t, p[2], p[1], end)]
           n == end + 1
           rank == [k \in S |-> n - k]
           v == [ok |-> TRUE, out |-> <<>>]
           L(k) == Escape(t, k, end).length
           Goes(k) == k < end /\ t[k] = Backslash /\ L(k) # 0
           Plain(k) == k < end /\ t[k] # Backslash
<1>0. Len(t) \in Nat /\ end \in Nat /\ i \in Nat
  <2>1. Len(t) \in Nat
    BY LenProperties
  <2> QED BY <2>1
<1>1. n \in Nat /\ rank \in [S -> 0..n] /\ \A k \in S : rank[k] = n - k
  BY <1>0
<1>2. [ok |-> TRUE, out |-> <<>>] \in V /\ [ok |-> FALSE, out |-> <<>>] \in V
  <2>1. <<>> \in Seq(Int)
    OBVIOUS
  <2> QED BY <2>1 DEF Decoded
<1>3. \A k \in S : /\ k \in Int
                   /\ k < end => k + 1 \in S /\ t[k] \in Int /\ k \in 1..(end - 1)
  <2>1. ASSUME NEW k \in S, k < end PROVE k \in 1..Len(t) /\ k + 1 \in S /\ k \in 1..(end - 1)
    BY <1>0, <2>1
  <2>2. \A k \in S : k \in Int
    BY <1>0
  <2> QED BY <2>1, <2>2, ElementOfSeq
<1>4. ASSUME NEW k \in S, Goes(k)
      PROVE  L(k) \in Nat \ {0} /\ k + L(k) \in S /\ Escape(t, k, end).bytes \in Seq(Int)
  <2>1. L(k) \in {2, 6, 12} /\ k + L(k) <= end + 1 /\ Escape(t, k, end).bytes \in Seq(Int)
    BY <1>3, <1>4, DecodeGoesOn
  <2> DEFINE l == L(k)
  <2> HIDE DEF l
  <2>2. l \in {2, 6, 12} /\ k + l <= end + 1
    BY <2>1 DEF l
  <2>3. k \in Int /\ i <= k /\ k <= end + 1
    BY <1>0
  <2>4. k + l \in i..(end + 1)
    <3>1. k + l \in Int /\ i <= k + l
      BY <1>0, <2>2, <2>3
    <3> QED BY <1>0, <2>2, <3>1
  <2>5. l \in Nat \ {0}
    BY <2>2
  <2> QED BY <2>1, <2>4, <2>5 DEF l
<1> HIDE DEF S, V, n, rank, L
<1>12. ASSUME NEW k \in S, NEW r
       PROVE  /\ k >= end => DecodeStep(t, r, k, end) = [ok |-> TRUE, out |-> <<>>]
              /\ Plain(k) => DecodeStep(t, r, k, end) = [r[k + 1] EXCEPT !.out = <<t[k]>> \o @]
              /\ k < end /\ t[k] = Backslash /\ L(k) = 0 =>
                   DecodeStep(t, r, k, end) = [ok |-> FALSE, out |-> <<>>]
              /\ Goes(k) => DecodeStep(t, r, k, end) =
                              [r[k + L(k)] EXCEPT !.out = Escape(t, k, end).bytes \o @]
  <2>1. k \in Int /\ end \in Int
    BY <1>0, <1>3
  <2>2. k >= end <=> ~(k < end)
    BY <2>1
  <2> QED BY <2>2, Zenon DEF DecodeStep, L
<1>13. \A k \in S : k >= end \/ Plain(k) \/ Goes(k) \/ (k < end /\ t[k] = Backslash /\ L(k) = 0)
  BY <1>0, <1>3
<1>5. ASSUME NEW k \in S, NEW r \in [S -> V] PROVE DecodeStep(t, r, k, end) \in V
  <2>1. CASE k >= end
    <3>1. DecodeStep(t, r, k, end) = [ok |-> TRUE, out |-> <<>>]
      BY <1>12, <2>1
    <3> QED BY <1>2, <3>1
  <2>2. CASE Plain(k)
    <3>1. r[k + 1] \in Decoded /\ <<t[k]>> \in Seq(Int)
      BY <1>3, <2>2 DEF V
    <3>2. [r[k + 1] EXCEPT !.out = <<t[k]>> \o @] \in Decoded
      BY <3>1, Prefix
    <3>3. DecodeStep(t, r, k, end) = [r[k + 1] EXCEPT !.out = <<t[k]>> \o @]
      BY <1>12, <2>2
    <3> QED BY <3>2, <3>3 DEF V
  <2>3. CASE k < end /\ t[k] = Backslash /\ L(k) = 0
    <3>1. DecodeStep(t, r, k, end) = [ok |-> FALSE, out |-> <<>>]
      BY <1>12, <2>3
    <3> QED BY <1>2, <3>1
  <2>4. CASE Goes(k)
    <3> DEFINE e == Escape(t, k, end)
    <3>1. r[k + L(k)] \in Decoded /\ e.bytes \in Seq(Int)
      BY <1>4, <2>4 DEF V
    <3>2. [r[k + L(k)] EXCEPT !.out = e.bytes \o @] \in Decoded
      BY <3>1, Prefix
    <3>3. DecodeStep(t, r, k, end) = [r[k + L(k)] EXCEPT !.out = e.bytes \o @]
      BY <1>12, <2>4
    <3> QED BY <3>2, <3>3 DEF V
  <2> HIDE DEF Plain, Goes
  <2> QED BY <1>13, <2>1, <2>2, <2>3, <2>4
<1>6. F \in [S \X [S -> V] -> V]
  BY <1>5
<1>7. DependsOnLower(F, rank, S, V)
  <2> SUFFICES ASSUME NEW k \in S, NEW g \in [S -> V], NEW h \in [S -> V],
                      \A y \in S : rank[y] < rank[k] => g[y] = h[y]
               PROVE  DecodeStep(t, g, k, end) = DecodeStep(t, h, k, end)
    BY DEF DependsOnLower
  <2>1. ASSUME NEW y \in S, k < y PROVE g[y] = h[y]
    <3>1. n \in Int
      BY <1>1
    <3>3. y \in Int /\ k \in Int
      BY <1>3
    <3>2. n - y < n - k
      BY <2>1, <3>1, <3>3
    <3> QED BY <1>1, <3>2
  <2>2. CASE k >= end
    <3>1. /\ DecodeStep(t, g, k, end) = [ok |-> TRUE, out |-> <<>>]
          /\ DecodeStep(t, h, k, end) = [ok |-> TRUE, out |-> <<>>]
      BY <1>12, <2>2
    <3> QED BY <3>1
  <2>3. CASE Plain(k)
    <3>1. k + 1 \in S /\ k < k + 1
      BY <1>3, <2>3
    <3>2. g[k + 1] = h[k + 1]
      BY <2>1, <3>1
    <3>3. /\ DecodeStep(t, g, k, end) = [g[k + 1] EXCEPT !.out = <<t[k]>> \o @]
          /\ DecodeStep(t, h, k, end) = [h[k + 1] EXCEPT !.out = <<t[k]>> \o @]
      BY <1>12, <2>3
    <3> QED BY <3>2, <3>3
  <2>4. CASE k < end /\ t[k] = Backslash /\ L(k) = 0
    <3>1. /\ DecodeStep(t, g, k, end) = [ok |-> FALSE, out |-> <<>>]
          /\ DecodeStep(t, h, k, end) = [ok |-> FALSE, out |-> <<>>]
      BY <1>12, <2>4
    <3> QED BY <3>1
  <2>5. CASE Goes(k)
    <3> DEFINE e == Escape(t, k, end)
               l == L(k)
    <3>1. l \in Nat \ {0} /\ k \in Int
      BY <1>3, <1>4, <2>5
    <3> HIDE DEF l
    <3>2. k < k + l
      BY <3>1
    <3>3. g[k + l] = h[k + l]
      BY <1>4, <2>1, <2>5, <3>2 DEF l
    <3>4. /\ DecodeStep(t, g, k, end) = [g[k + l] EXCEPT !.out = e.bytes \o @]
          /\ DecodeStep(t, h, k, end) = [h[k + l] EXCEPT !.out = e.bytes \o @]
      BY <1>12, <2>5 DEF l
    <3> QED BY <3>3, <3>4
  <2> HIDE DEF Plain, Goes
  <2> QED BY <1>13, <2>2, <2>3, <2>4, <2>5
<1>8. v \in V
  BY <1>2
<1> HIDE DEF F, v
<1>9. PICK r : Recursive(r, F, S, V)
  <2>1. n \in Nat /\ rank \in [S -> 0..n]
    BY <1>1
  <2> QED BY <2>1, <1>6, <1>7, <1>8, RecursionExists
<1>10. \A k \in S : F[<<k, r>>] = DecodeStep(t, r, k, end)
  BY <1>9 DEF F, Recursive
<1>11. r = [k \in S |-> DecodeStep(t, r, k, end)]
  BY <1>9, <1>10 DEF Recursive
<1> QED BY <1>11 DEF DecodeRun, S

LEMMA DecodeIsRun ==
  ASSUME NEW t \in Seq(Int), NEW end \in 1..Len(t), NEW i \in 1..(end + 1)
  PROVE  \E r : DecodeRun(r, t, i, end) /\ Decode(t, i, end) = r[i]
<1> DEFINE f == CHOOSE r : DecodeRun(r, t, i, end)
<1>1. DecodeRun(f, t, i, end)
  BY DecodeExists
<1>2. Decode(t, i, end) = f[i]
  BY DEF Decode, DecodeRun, DecodeStep
<1> QED BY <1>1, <1>2

\* The end of a literal is a quote, and nothing is skipped at it.
LEMMA ClosingAtEnd ==
  ASSUME NEW t \in Seq(Int), NEW i \in 1..(Len(t) + 2), NEW c, ClosingRun(c, t, i),
         NEW q \in i..(Len(t) + 2), c[q].at # 0
  PROVE  LET end == c[q].at IN
         /\ end \in i..(Len(t) + 2) /\ q <= end /\ end <= Len(t)
         /\ c[end].skipped = 0
         /\ c[q].skipped \in Nat /\ 2 * c[q].skipped <= end - q
<1> DEFINE end == c[q].at
<1>1. \A k \in i..(Len(t) + 2) : EndsWell(t, c, k)
  BY ClosingBounds
<1>2. Len(t) \in Nat /\ i \in Nat
  <2>1. Len(t) \in Nat
    BY LenProperties
  <2> QED BY <2>1
<1>3. /\ end \in Nat /\ q <= end /\ end <= Len(t) /\ t[end] = Quote
      /\ c[q].skipped \in Nat
  BY <1>1 DEF EndsWell, Closings
<1>4. end \in i..(Len(t) + 2) /\ end + 1 \in i..(Len(t) + 2) /\ end \in q..end /\ q \in Int
  <2>1. q \in Int /\ i <= q
    BY <1>2
  <2> HIDE DEF end
  <2>5. end \in Nat /\ q <= end /\ end <= Len(t)
    BY <1>3
  <2>2. end \in Int /\ i <= end /\ end <= Len(t) + 2 /\ end + 1 <= Len(t) + 2
    <3>1. i <= end
      BY <1>2, <2>1, <2>5
    <3> QED BY <1>2, <2>5, <3>1
  <2>3. end \in i..(Len(t) + 2) /\ end + 1 \in i..(Len(t) + 2)
    BY <1>2, <2>2
  <2>4. end \in q..end
    BY <1>3, <2>1, <2>2
  <2> QED BY <2>1, <2>3, <2>4
<1>5. c[end].skipped = 0
  <2> HIDE DEF end
  <2>1. c[end] = ClosingStep(t, c, end)
    BY <1>4 DEF ClosingRun
  <2>2. c[end] = [at |-> end, skipped |-> 0]
    BY <1>3, <2>1, ClosingStepIs
  <2> QED BY <2>2
<1>6. LeadsTo(t, i, c, q, end) \/ LeadsTo(t, i, c, q, end + 1)
  BY <1>4, ClosingAdvances
<1>7. ~LeadsTo(t, i, c, q, end + 1)
  <2>1. SUFFICES ASSUME c[end + 1].at = end PROVE FALSE
    BY DEF LeadsTo
  <2>2. EndsWell(t, c, end + 1)
    BY <1>1, <1>4
  <2> HIDE DEF end
  <2>3. end # 0 /\ end + 1 <= end
    <3>1. end # 0
      BY DEF end
    <3> QED BY <2>1, <2>2, <3>1 DEF EndsWell
  <2> QED BY <1>3, <2>3
<1>8. 2 * (c[q].skipped - c[end].skipped) <= end - q
  BY <1>6, <1>7 DEF LeadsTo
<1>9. 2 * c[q].skipped <= end - q
  <2> DEFINE s == c[q].skipped
  <2>1. s \in Nat /\ 2 * (s - 0) <= end - q
    BY <1>3, <1>5, <1>8
  <2> HIDE DEF s, end
  <2>2. 2 * s <= end - q
    BY <2>1
  <2> QED BY <2>2 DEF s
<1> QED BY <1>3, <1>4, <1>5, <1>9

LEMMA Budget ==
  ASSUME NEW L \in {2, 6, 12}, NEW B \in Int, NEW R \in Int, NEW sq \in Int, NEW sx \in Int,
         NEW k \in Int, NEW q \in Int, NEW x \in Int, NEW end \in Int,
         2 * B <= L, R + sx <= end - (k + L), 2 * (sq - sx) <= x - q,
         k <= q, x <= k + L + 1
  PROVE  B + R + sq <= end - k
<1>1. 2 * (sq - sx) <= L + 1
  OBVIOUS
<1>2. 2 * (sq - sx) <= L
  <2> DEFINE d == sq - sx
  <2>1. d \in Int /\ 2 * d <= L + 1
    BY <1>1
  <2> HIDE DEF d
  <2>2. CASE L = 2
    BY <2>1, <2>2 DEF d
  <2>3. CASE L = 6
    BY <2>1, <2>3 DEF d
  <2>4. CASE L = 12
    BY <2>1, <2>4 DEF d
  <2> QED BY <2>2, <2>3, <2>4
<1> QED BY <1>2

\* What is written for the text from k on, wherever the search for the end is
\* by then: at k, or one further.
Within(t, i, c, r, end, k) ==
  /\ r[k] \in Decoded
  /\ \A q \in {k, k + 1} :
       q \in i..(Len(t) + 2) /\ c[q].at = end => Len(r[k].out) + c[q].skipped <= end - k

\* What the step at k does.
Steps(t, r, k, end) ==
  /\ k >= end => r[k] = [ok |-> TRUE, out |-> <<>>]
  /\ k < end /\ t[k] # Backslash => r[k] = [r[k + 1] EXCEPT !.out = <<t[k]>> \o @]
  /\ k < end /\ t[k] = Backslash /\ Escape(t, k, end).length = 0 =>
       r[k] = [ok |-> FALSE, out |-> <<>>]
  /\ k < end /\ t[k] = Backslash /\ Escape(t, k, end).length # 0 =>
       r[k] = [r[k + Escape(t, k, end).length] EXCEPT !.out = Escape(t, k, end).bytes \o @]

LEMMA DecodeRunSteps ==
  ASSUME NEW t, NEW r, NEW i \in Int, NEW end \in Int, DecodeRun(r, t, i, end)
  PROVE  \A k \in i..(end + 1) : Steps(t, r, k, end)
<1> SUFFICES ASSUME NEW k \in i..(end + 1) PROVE Steps(t, r, k, end)
  OBVIOUS
<1>1. k >= end <=> ~(k < end)
  OBVIOUS
<1>2. r[k] = DecodeStep(t, r, k, end)
  BY DEF DecodeRun
<1> QED BY <1>1, <1>2, Zenon DEF DecodeStep, Steps

LEMMA DecodedWithin ==
  ASSUME NEW t \in Seq(Int), NEW end \in 1..Len(t), NEW i \in 1..(end + 1),
         NEW c, ClosingRun(c, t, i), NEW r, DecodeRun(r, t, i, end)
  PROVE  \A k \in i..(end + 1) : Within(t, i, c, r, end, k)
<1> DEFINE b == end + 1
           N == Len(t) + 2
           W(k) == Within(t, i, c, r, end, k)
           T == {k \in i..b : W(k)}
<1>0. Len(t) \in Nat /\ end \in Nat /\ i \in Nat /\ end # 0 /\ end <= Len(t) /\ i # 0
      /\ i \in 1..(Len(t) + 2)
  <2>1. Len(t) \in Nat
    BY LenProperties
  <2> QED BY <2>1
<1>1. \A k \in i..N : EndsWell(t, c, k)
  BY <1>0, ClosingBounds
<1>2. \A q \in i..N : c[q].at = end =>
         /\ q \in Int /\ q <= end /\ c[end].skipped = 0
         /\ c[q].skipped \in Nat /\ 2 * c[q].skipped <= end - q
  <2>1. ASSUME NEW q \in i..N, c[q].at = end
        PROVE  /\ q \in Int /\ q <= end /\ c[end].skipped = 0
               /\ c[q].skipped \in Nat /\ 2 * c[q].skipped <= end - q
    <3>1. q \in Int
      BY <1>0
    <3> QED BY <1>0, <2>1, <3>1, ClosingAtEnd
  <2> QED BY <2>1
<1>6. \A k \in i..b : Steps(t, r, k, end)
  <2>1. i \in Int /\ end \in Int
    BY <1>0
  <2> QED BY <2>1, DecodeRunSteps
<1>3. ASSUME NEW k \in i..b, \A j \in (k + 1)..b : j \in T PROVE k \in T
  <2> DEFINE e == Escape(t, k, end)
             Ends(q) == q \in i..N /\ c[q].at = end
  <2>0. k \in Int /\ k >= i /\ k <= end + 1
    BY <1>0
  <2>10. Steps(t, r, k, end)
    BY <1>6
  <2>9. SUFFICES W(k)
    OBVIOUS
  <2>8. \A j \in (k + 1)..b : W(j)
    BY <1>3
  <2> HIDE DEF T, N
  <2>1. CASE k >= end
    <3>1. r[k] = [ok |-> TRUE, out |-> <<>>]
      BY <2>10, <2>1 DEF Steps
    <3>2. <<>> \in Seq(Int) /\ Len(<<>>) = 0
      OBVIOUS
    <3>3. r[k] \in Decoded /\ Len(r[k].out) = 0
      BY <3>1, <3>2 DEF Decoded
    <3>4. ASSUME NEW q \in {k, k + 1}, Ends(q) PROVE Len(r[k].out) + c[q].skipped <= end - k
      <4>1. q <= end /\ c[end].skipped = 0
        BY <1>2, <3>4
      <4>2. q = end /\ k = end
        BY <1>0, <2>0, <2>1, <4>1
      <4> QED BY <1>0, <3>3, <4>1, <4>2
    <3> QED BY <3>3, <3>4 DEF Within, N
  <2>2. CASE k < end /\ t[k] # Backslash
    <3>1. r[k] = [r[k + 1] EXCEPT !.out = <<t[k]>> \o @]
      BY <2>10, <2>2 DEF Steps
    <3>2. k + 1 \in (k + 1)..b /\ k \in 1..Len(t)
      BY <1>0, <2>0, <2>2
    <3>3. W(k + 1)
      BY <2>8, <3>2
    <3>4. <<t[k]>> \in Seq(Int) /\ Len(<<t[k]>>) = 1
      BY <3>2, ElementOfSeq
    <3>5. r[k + 1] \in Decoded /\ Len(r[k + 1].out) \in Nat
      BY <3>3, LenProperties DEF Within, Decoded
    <3>6. r[k] \in Decoded /\ Len(r[k].out) = 1 + Len(r[k + 1].out)
      BY <3>1, <3>4, <3>5, Prefix
    <3>7. ASSUME NEW q \in {k, k + 1}, Ends(q)
          PROVE  Ends(k + 1) /\ c[q].skipped = c[k + 1].skipped
      <4>1. CASE q = k + 1
        BY <3>7, <4>1
      <4>2. CASE q = k
        <5>1. c[k] = ClosingStep(t, c, k) /\ k \in Nat /\ k <= Len(t)
          <6>1. c[k] = ClosingStep(t, c, k)
            BY <3>7, <4>2 DEF ClosingRun, N
          <6> QED BY <3>2, <6>1
        <5>2. t[k] # Quote
          <6>1. SUFFICES ASSUME t[k] = Quote PROVE FALSE
            OBVIOUS
          <6>2. c[k] = [at |-> k, skipped |-> 0]
            BY <5>1, <6>1, ClosingStepIs
          <6>3. k = end
            BY <3>7, <4>2, <6>2
          <6> QED BY <1>0, <2>0, <2>2, <6>3
        <5>3. c[k] = c[k + 1]
          BY <2>2, <5>1, <5>2, ClosingStepIs
        <5>4. k + 1 \in i..N
          BY <1>0, <2>0, <2>2 DEF N
        <5> QED BY <3>7, <4>2, <5>3, <5>4
      <4> QED BY <4>1, <4>2
    <3>8. ASSUME NEW q \in {k, k + 1}, Ends(q) PROVE Len(r[k].out) + c[q].skipped <= end - k
      <4> DEFINE l == Len(r[k + 1].out)
                 s == c[k + 1].skipped
      <4>1. Ends(k + 1) /\ c[q].skipped = s
        BY <3>7, <3>8
      <4>2. l + s <= end - (k + 1)
        BY <3>3, <4>1 DEF Within, N
      <4>3. l \in Nat /\ s \in Nat
        BY <1>2, <3>5, <4>1
      <4> HIDE DEF l, s
      <4>4. (1 + l) + s <= end - k
        BY <1>0, <2>0, <4>2, <4>3
      <4> QED BY <3>6, <4>1, <4>4 DEF l
    <3> QED BY <3>6, <3>8 DEF Within, N
  <2>3. CASE k < end /\ t[k] = Backslash /\ e.length = 0
    <3>1. r[k] = [ok |-> FALSE, out |-> <<>>]
      BY <2>10, <2>3 DEF Steps
    <3>2. <<>> \in Seq(Int) /\ Len(<<>>) = 0
      OBVIOUS
    <3>3. r[k] \in Decoded /\ Len(r[k].out) = 0
      BY <3>1, <3>2 DEF Decoded
    <3>4. ASSUME NEW q \in {k, k + 1}, Ends(q) PROVE Len(r[k].out) + c[q].skipped <= end - k
      <4> DEFINE s == c[q].skipped
      <4>1. s \in Nat /\ 2 * s <= end - q
        BY <1>2, <3>4
      <4> HIDE DEF s
      <4>2. 0 + s <= end - k
        BY <1>0, <2>0, <4>1
      <4> QED BY <3>3, <4>2 DEF s
    <3> QED BY <3>3, <3>4 DEF Within, N
  <2>4. CASE k < end /\ t[k] = Backslash /\ e.length # 0
    <3> DEFINE L == e.length
               B == Len(e.bytes)
    <3>0. k \in 1..(end - 1)
      BY <1>0, <2>0, <2>4
    <3>1. /\ L \in {2, 6, 12} /\ k + L <= end + 1
          /\ e.bytes \in Seq(Int) /\ 2 * B <= L /\ (L # 2 => k + L <= end)
      BY <2>4, <3>0, DecodeGoesOn
    <3>2. r[k] = [r[k + L] EXCEPT !.out = e.bytes \o @]
      BY <2>10, <2>4 DEF Steps
    <3>3. B \in Nat
      BY <3>1, LenProperties
    <3> HIDE DEF L, B
    <3>4. k + L \in (k + 1)..b
      BY <1>0, <2>0, <3>1
    <3>5. W(k + L)
      BY <2>8, <3>4
    <3>6. r[k + L] \in Decoded /\ Len(r[k + L].out) \in Nat
      BY <3>5, LenProperties DEF Within, Decoded
    <3>7. r[k] \in Decoded /\ Len(r[k].out) = B + Len(r[k + L].out)
      BY <3>1, <3>2, <3>6, Prefix DEF B
    <3>8. ASSUME NEW q \in {k, k + 1}, Ends(q) PROVE Len(r[k].out) + c[q].skipped <= end - k
      <4> DEFINE R == Len(r[k + L].out)
                 sq == c[q].skipped
      <4>1. /\ q \in Int /\ q <= end /\ c[end].skipped = 0
            /\ sq \in Nat /\ 2 * sq <= end - q
        BY <1>2, <3>8
      <4>2. CASE k + L <= end
        <5> DEFINE m == k + L
        <5>1. m \in q..end
          <6>1. m \in Int /\ m >= k + 2
            BY <2>0, <3>1
          <6>2. m >= q
            BY <2>0, <4>1, <6>1
          <6> HIDE DEF m
          <6> QED BY <1>0, <4>1, <4>2, <6>1, <6>2 DEF m
        <5>2. LeadsTo(t, i, c, q, m) \/ LeadsTo(t, i, c, q, m + 1)
          <6> HIDE DEF m
          <6> QED BY <1>0, <3>8, <5>1, ClosingAdvances DEF N
        <5>3. PICK x \in {m, m + 1} : LeadsTo(t, i, c, q, x)
          BY <5>2
        <5> DEFINE sx == c[x].skipped
        <5>4. Ends(x) /\ 2 * (sq - sx) <= x - q
          BY <3>8, <5>3 DEF LeadsTo, N
        <5>5. R + sx <= end - m
          BY <3>5, <5>4 DEF Within, N
        <5>6. sx \in Nat /\ x \in Int /\ m \in Int
          BY <1>2, <5>1, <5>4
        <5>7. k <= q /\ x <= k + L + 1
          <6>1. k <= q
            BY <2>0
          <6> HIDE DEF m
          <6>2. x <= m + 1
            BY <5>6
          <6> QED BY <6>1, <6>2 DEF m
        <5>8. B \in Int /\ R \in Int /\ sq \in Int /\ sx \in Int /\ end \in Int
          BY <1>0, <3>3, <3>6, <4>1, <5>6
        <5> HIDE DEF sx, sq, R
        <5>9. B + R + sq <= end - k
          BY <2>0, <3>1, <4>1, <5>4, <5>5, <5>6, <5>7, <5>8, Budget
        <5> QED BY <3>7, <5>9 DEF R, sq
      <4>3. CASE k + L = end + 1
        <5>1. L = 2 /\ k + 1 = end
          BY <1>0, <2>0, <3>1, <4>3
        <5>2. B <= 1
          BY <3>1, <3>3, <5>1
        <5>3. R = 0
          <6>1. k + L \in i..(end + 1) /\ k + L >= end
            BY <1>0, <2>0, <4>3
          <6>2. r[k + L] = [ok |-> TRUE, out |-> <<>>]
            BY <1>6, <6>1 DEF Steps
          <6> QED BY <6>2
        <5>4. q = end
          <6>1. SUFFICES ASSUME q = k PROVE FALSE
            BY <5>1
          <6>2. c[k] = ClosingStep(t, c, k) /\ k \in Nat /\ k <= Len(t)
            <7>1. c[k] = ClosingStep(t, c, k)
              BY <3>8, <6>1 DEF ClosingRun, N
            <7> QED BY <1>0, <3>0, <7>1
          <6>3. c[k] = [c[k + 2] EXCEPT !.skipped = @ + 1]
            BY <2>4, <6>2, ClosingStepIs
          <6>4. k + 2 \in i..N
            BY <1>0, <2>0, <5>1 DEF N
          <6>5. c[k + 2] \in Closings
            BY <1>1, <6>4 DEF EndsWell
          <6>6. c[k + 2].at = end
            BY <3>8, <6>1, <6>3, <6>5, Skip
          <6>7. k + 2 <= end
            BY <1>2, <6>4, <6>6
          <6> QED BY <1>0, <2>0, <5>1, <6>7
        <5>5. sq = 0
          BY <4>1, <5>4
        <5> HIDE DEF sq, R
        <5>6. B + R + sq <= end - k
          BY <1>0, <2>0, <3>3, <5>1, <5>2, <5>3, <5>5
        <5> QED BY <3>7, <5>6 DEF R, sq
      <4>4. k + L <= end \/ k + L = end + 1
        BY <1>0, <2>0, <3>1
      <4> QED BY <4>2, <4>3, <4>4
    <3> QED BY <3>7, <3>8 DEF Within, N
  <2>5. k >= end \/ k < end
    BY <1>0, <2>0
  <2> HIDE DEF W, e
  <2> QED BY <2>1, <2>2, <2>3, <2>4, <2>5
<1>4. i \in Int /\ b \in Int
  BY <1>0
<1> HIDE DEF T, b
<1>5. \A k \in i..b : k \in T
  BY <1>3, <1>4, DownTo
<1> QED BY <1>5 DEF T, b

\* What parse_string writes fits into what it allocated, whatever the text, and
\* wherever in it the string begins (cJSON.c:792-917).
THEOREM ParseStringFits ==
  ASSUME NEW t \in Seq(Int), NEW i \in 1..Len(t)
  PROVE  LET r == ParseString(t, i) IN Len(r.out) < r.room
<1> DEFINE closing == Closing(t, i + 1)
           end == closing.at
           d == Decode(t, i + 1, end)
           r == ParseString(t, i)
<1>0. Len(t) \in Nat /\ i \in Nat /\ i + 1 \in 1..(Len(t) + 2)
  <2>1. Len(t) \in Nat
    BY LenProperties
  <2> QED BY <2>1
<1>1. CASE t[i] # Quote \/ closing.at = 0
  <2>1. r = [ok |-> FALSE, out |-> <<>>, room |-> 1, at |-> i]
    BY <1>1 DEF ParseString
  <2>2. r.out = <<>> /\ r.room = 1
    BY <2>1
  <2> HIDE DEF r
  <2>3. Len(r.out) < r.room
    BY <2>2
  <2> QED BY <2>3 DEF r
<1>2. CASE ~(t[i] # Quote \/ closing.at = 0)
  <2>1. r = [ok |-> d.ok, out |-> d.out, room |-> Allocated(t, i, closing),
             at |-> closing.at + 1]
    BY <1>2 DEF ParseString
  <2>2. PICK c : ClosingRun(c, t, i + 1) /\ closing = c[i + 1]
    BY <1>0, ClosingIsRun
  <2>3. i + 1 \in (i + 1)..(Len(t) + 2) /\ c[i + 1].at # 0
    BY <1>0, <1>2, <2>2
  <2>4. /\ end \in (i + 1)..(Len(t) + 2) /\ i + 1 <= end /\ end <= Len(t)
        /\ c[i + 1].skipped \in Nat
    BY <1>0, <2>2, <2>3, ClosingAtEnd
  <2>5. end \in 1..Len(t) /\ i + 1 \in 1..(end + 1) /\ end \in Int
    <3> HIDE DEF end
    <3>1. end \in Int
      BY <1>0, <2>4
    <3> QED BY <1>0, <2>4, <3>1
  <2> HIDE DEF closing
  <2>6. PICK g : DecodeRun(g, t, i + 1, end) /\ d = g[i + 1]
    <3> HIDE DEF end
    <3> QED BY <2>5, DecodeIsRun
  <2>7. Within(t, i + 1, c, g, end, i + 1)
    <3>1. i + 1 \in (i + 1)..(end + 1)
      BY <1>0, <2>4, <2>5
    <3>2. \A k \in (i + 1)..(end + 1) : Within(t, i + 1, c, g, end, k)
      <4> HIDE DEF end
      <4> QED BY <2>2, <2>5, <2>6, DecodedWithin
    <3> QED BY <3>1, <3>2
  <2> DEFINE s == closing.skipped
             l == Len(d.out)
  <2>8. d \in Decoded /\ l + s <= end - (i + 1)
    BY <2>2, <2>3, <2>6, <2>7 DEF Within
  <2>9. l \in Nat /\ s \in Nat
    BY <2>2, <2>4, <2>8, LenProperties DEF Decoded
  <2>10. r.out = d.out /\ r.room = end - i - s + 1
    BY <2>1 DEF Allocated
  <2> HIDE DEF s, l, d, r, end
  <2>11. l < end - i - s + 1
    BY <1>0, <2>5, <2>8, <2>9
  <2> QED BY <2>10, <2>11 DEF l, r
<1> QED BY <1>1, <1>2

\* The text of the caller's literal is one of bytes.
LEMMA BodyType ==
  ASSUME literal \in Seq(Units)
  PROVE  Body \in Seq(Int) /\ Len(Body) \in Nat \ {0}
<1> DEFINE seqs == [k \in 1..Len(literal) |-> literal[k].text]
<1>1. Len(literal) \in Nat /\ \A k \in 1..Len(literal) : literal[k] \in Units
  BY LenProperties, ElementOfSeq
<1>2. Byte \subseteq Int
  BY DEF Byte
<1>3. \A u \in Units : u.text \in Seq(Int)
  <2>1. ASSUME NEW x \in Seq(Byte) PROVE x \in Seq(Int)
    <3>1. \A k \in 1..Len(x) : x[k] \in Int
      BY <1>2, ElementOfSeq
    <3>2. Len(x) \in Nat /\ x = [k \in 1..Len(x) |-> x[k]]
      BY LenProperties
    <3> QED BY <3>1, <3>2
  <2> QED BY <2>1, LiteralAssumption
<1>4. seqs \in Seq(Seq(Int))
  <2> DEFINE V == Seq(Int)
             n == Len(literal)
  <2>1. n \in Nat /\ \A k \in 1..n : literal[k].text \in V
    BY <1>1, <1>3
  <2> HIDE DEF V, n
  <2>2. [k \in 1..n |-> literal[k].text] \in Seq(V)
    BY <2>1
  <2> QED BY <2>2 DEF V, n
<1> HIDE DEF seqs
<1>5. FlattenSeq(seqs) \in Seq(Int)
  BY <1>4, FlattenType
<1>6. Body = <<Quote>> \o FlattenSeq(seqs)
  BY DEF Body, Joined, seqs
<1>7. <<Quote>> \in Seq(Int) /\ Len(<<Quote>>) = 1
  BY DEF Quote
<1> DEFINE rest == FlattenSeq(seqs)
           q == <<Quote>>
<1>8. rest \in Seq(Int) /\ q \in Seq(Int) /\ Len(q) = 1 /\ Body = q \o rest
  BY <1>5, <1>6, <1>7
<1> HIDE DEF rest, q
<1>9. q \o rest \in Seq(Int) /\ Len(q \o rest) = Len(q) + Len(rest)
  BY <1>8, ConcatProperties
<1>10. Len(rest) \in Nat
  BY <1>8, LenProperties
<1> QED BY <1>8, <1>9, <1>10

\* What the literal and the value are in every state.
OfUnits == literal \in Seq(Units)
OfValues == value \in Values[MaxDepth]

LEMMA UnitsInvariant == Spec => []OfUnits
<1>1. Init => OfUnits
  BY DEF Init, LiteralInit, OfUnits
<1>2. OfUnits /\ [Next]_vars => OfUnits'
  <2> SUFFICES ASSUME OfUnits, [Next]_vars PROVE OfUnits'
    OBVIOUS
  <2>1. CASE LiteralNext
    <3>1. PICK u \in Units : literal' = Append(literal, u)
      BY <2>1 DEF LiteralNext, Spell
    <3> QED BY <3>1 DEF OfUnits
  <2>2. CASE UNCHANGED literal
    BY <2>2 DEF OfUnits
  <2> QED BY <2>1, <2>2 DEF Next, Write, Garble, vars
<1> QED BY <1>1, <1>2, PTL DEF Spec

\* What is written fits, for every literal that callers make of any units
\* (cJSON.c:792-917).
THEOREM LiteralsFit == Spec => []DecodedFits
<1>1. OfUnits => DecodedFits
  <2> SUFFICES ASSUME OfUnits, NEW t \in {Body, Append(Body, Quote)}
               PROVE  LET r == ParseString(t, 1) IN Len(r.out) < r.room
    BY DEF DecodedFits
  <2>1. Body \in Seq(Int) /\ Len(Body) \in Nat \ {0}
    BY BodyType DEF OfUnits
  <2>2. Quote \in Int
    BY DEF Quote
  <2> DEFINE b == Body
             p == Quote
  <2>3. b \in Seq(Int) /\ Len(b) \in Nat \ {0} /\ p \in Int /\ t \in {b, Append(b, p)}
    BY <2>1, <2>2
  <2> HIDE DEF b, p
  <2>4. t \in Seq(Int) /\ Len(t) \in Nat \ {0}
    <3>1. CASE t = b
      BY <2>3, <3>1
    <3>2. CASE t = Append(b, p)
      <4>1. Append(b, p) \in Seq(Int) /\ Len(Append(b, p)) = Len(b) + 1
        BY <2>3, AppendProperties
      <4> QED BY <2>3, <3>2, <4>1
    <3> QED BY <2>3, <3>1, <3>2
  <2>5. 1 \in 1..Len(t)
    BY <2>4
  <2> QED BY <2>4, <2>5, ParseStringFits
<1> QED BY <1>1, UnitsInvariant, PTL
-----------------------------------------------------------------------------
(* What a well-formed part of a literal is decoded to. *)

\* The text s is in t, at q.
FoundAt(t, q, s) == \A j \in 1..Len(s) : t[q + j - 1] = s[j]

LEMMA OneElement ==
  ASSUME NEW m \in Seq(Int), Len(m) = 1
  PROVE  m = <<m[1]>> /\ m[1] \in Int
<1>1. \A k \in 1..1 : m[k] \in Int
  BY ElementOfSeq
<1>2. m[1] \in Int
  BY <1>1
<1>3. PICK x \in Int : x = m[1]
  BY <1>2
<1>4. PICK s : s = <<x>>
  OBVIOUS
<1>5. s \in Seq(Int) /\ Len(s) = 1 /\ s[1] = x
  BY <1>4
<1>6. \A k \in 1..1 : k = 1
  OBVIOUS
<1>7. \A k \in 1..Len(m) : m[k] = s[k]
  BY <1>3, <1>5, <1>6
<1>8. m = s
  BY <1>5, <1>7, SeqEqual
<1> QED BY <1>2, <1>3, <1>4, <1>8

LEMMA TwoElements ==
  ASSUME NEW m \in Seq(Int), Len(m) = 2
  PROVE  /\ m = <<m[1], m[2]>>
         /\ m[1] \in Int /\ m[2] \in Int
<1>1. \A k \in 1..2 : m[k] \in Int
  BY ElementOfSeq
<1>2. m[1] \in Int /\ m[2] \in Int
  BY <1>1
<1>3. PICK x \in Int, y \in Int : x = m[1] /\ y = m[2]
  BY <1>2
<1>4. PICK s : s = <<x, y>>
  OBVIOUS
<1>5. s \in Seq(Int) /\ Len(s) = 2 /\ s[1] = x /\ s[2] = y
  BY <1>4
<1>6. \A k \in 1..2 : k = 1 \/ k = 2
  OBVIOUS
<1>7. \A k \in 1..Len(m) : m[k] = s[k]
  BY <1>3, <1>5, <1>6
<1>8. m = s
  BY <1>5, <1>7, SeqEqual
<1> QED BY <1>2, <1>3, <1>4, <1>8

LEMMA ThreeElements ==
  ASSUME NEW m \in Seq(Int), Len(m) = 3
  PROVE  /\ m = <<m[1], m[2], m[3]>>
         /\ m[1] \in Int /\ m[2] \in Int /\ m[3] \in Int
<1>1. \A k \in 1..3 : m[k] \in Int
  BY ElementOfSeq
<1>2. m[1] \in Int /\ m[2] \in Int /\ m[3] \in Int
  BY <1>1
<1>3. PICK x \in Int, y \in Int, z \in Int : x = m[1] /\ y = m[2] /\ z = m[3]
  BY <1>2
<1>4. PICK s : s = <<x, y, z>>
  OBVIOUS
<1>5. s \in Seq(Int) /\ Len(s) = 3 /\ s[1] = x /\ s[2] = y /\ s[3] = z
  BY <1>4
<1>6. \A k \in 1..3 : k = 1 \/ k = 2 \/ k = 3
  OBVIOUS
<1>7. \A k \in 1..Len(m) : m[k] = s[k]
  BY <1>3, <1>5, <1>6
<1>8. m = s
  BY <1>5, <1>7, SeqEqual
<1> QED BY <1>2, <1>3, <1>4, <1>8

LEMMA FourElements ==
  ASSUME NEW m \in Seq(Int), Len(m) = 4
  PROVE  /\ m = <<m[1], m[2], m[3], m[4]>>
         /\ m[1] \in Int /\ m[2] \in Int /\ m[3] \in Int /\ m[4] \in Int
<1>1. \A k \in 1..4 : m[k] \in Int
  BY ElementOfSeq
<1>2. m[1] \in Int /\ m[2] \in Int /\ m[3] \in Int /\ m[4] \in Int
  BY <1>1
<1>3. PICK x \in Int, y \in Int, z \in Int, w \in Int : x = m[1] /\ y = m[2] /\ z = m[3] /\ w = m[4]
  BY <1>2
<1>4. PICK s : s = <<x, y, z, w>>
  OBVIOUS
<1>5. s \in Seq(Int) /\ Len(s) = 4 /\ s[1] = x /\ s[2] = y /\ s[3] = z /\ s[4] = w
  BY <1>4
<1>6. \A k \in 1..4 : k = 1 \/ k = 2 \/ k = 3 \/ k = 4
  OBVIOUS
<1>7. \A k \in 1..Len(m) : m[k] = s[k]
  BY <1>3, <1>5, <1>6
<1>8. m = s
  BY <1>5, <1>7, SeqEqual
<1> QED BY <1>2, <1>3, <1>4, <1>8

LEMMA Utf8Is ==
  ASSUME NEW cp \in Nat
  PROVE  /\ cp < 128 => Utf8(cp) = <<cp>>
         /\ 128 <= cp /\ cp < 2048 => Utf8(cp) = <<192 + cp \div 64, Continued(cp)>>
         /\ 2048 <= cp /\ cp < 65536 =>
              Utf8(cp) = <<224 + cp \div 4096, Continued(cp \div 64), Continued(cp)>>
         /\ 65536 <= cp =>
              Utf8(cp) = <<240 + cp \div 262144, Continued(cp \div 4096), Continued(cp \div 64),
                           Continued(cp)>>
<1> DEFINE a == 192 + cp \div 64
           b == 224 + cp \div 4096
           c == 240 + cp \div 262144
           x == Continued(cp)
           y == Continued(cp \div 64)
           z == Continued(cp \div 4096)
<1>1. Utf8(cp) = IF cp < 128 THEN <<cp>> ELSE IF cp < 2048 THEN <<a, x>>
                 ELSE IF cp < 65536 THEN <<b, y, x>> ELSE <<c, z, y, x>>
  BY DEF Utf8
<1> HIDE DEF a, b, c, x, y, z
<1>2. /\ cp < 128 => Utf8(cp) = <<cp>>
      /\ 128 <= cp /\ cp < 2048 => Utf8(cp) = <<a, x>>
      /\ 2048 <= cp /\ cp < 65536 => Utf8(cp) = <<b, y, x>>
      /\ 65536 <= cp => Utf8(cp) = <<c, z, y, x>>
  <2>1. cp < 128 => Utf8(cp) = <<cp>>
    BY <1>1
  <2>2. ~(cp < 128) /\ cp < 2048 => Utf8(cp) = <<a, x>>
    BY <1>1
  <2>3. ~(cp < 128) /\ ~(cp < 2048) /\ cp < 65536 => Utf8(cp) = <<b, y, x>>
    BY <1>1
  <2>4. ~(cp < 128) /\ ~(cp < 2048) /\ ~(cp < 65536) => Utf8(cp) = <<c, z, y, x>>
    BY <1>1
  <2>5. /\ 128 <= cp => ~(cp < 128)
        /\ 2048 <= cp => ~(cp < 128) /\ ~(cp < 2048)
        /\ 65536 <= cp => ~(cp < 128) /\ ~(cp < 2048) /\ ~(cp < 65536)
    OBVIOUS
  <2> QED BY <2>1, <2>2, <2>3, <2>4, <2>5
<1> QED BY <1>2 DEF a, b, c, x, y, z

\* The last six bits of a number, and the others.
LEMMA SixBits ==
  ASSUME NEW a \in Int, NEW b \in Nat, b < 64
  PROVE  (a * 64 + b) \div 64 = a /\ (a * 64 + b) % 64 = b
OBVIOUS

LEMMA Divided ==
  ASSUME NEW cp \in Nat
  PROVE  cp \div 4096 = (cp \div 64) \div 64 /\ cp \div 262144 = ((cp \div 64) \div 64) \div 64
OBVIOUS

LEMMA Utf8Two ==
  ASSUME NEW a \in Int, NEW b \in Nat, b < 64, NEW cp \in Nat, 128 <= cp, cp < 2048,
         cp = a * 64 + b
  PROVE  Utf8(cp) = <<192 + a, 128 + b>>
<1>1. cp \div 64 = a /\ cp % 64 = b
  BY SixBits
<1>2. Utf8(cp) = <<192 + cp \div 64, Continued(cp)>>
  BY Utf8Is
<1> QED BY <1>1, <1>2 DEF Continued

LEMMA EncodedTwo ==
  ASSUME NEW cp \in Int, NEW x \in Int, NEW y \in Int, 128 <= y, y <= 191,
         128 <= cp, cp <= 2047, cp = (x - 192) * 64 + (y - 128)
  PROVE  Utf8(cp) = <<x, y>>
<1>1. PICK a \in Int, b \in Nat : x = 192 + a /\ y = 128 + b /\ b < 64
  <2>1. x = 192 + (x - 192) /\ y = 128 + (y - 128) /\ y - 128 \in Nat /\ y - 128 < 64
    OBVIOUS
  <2> QED BY <2>1
<1>2. cp = a * 64 + b /\ cp \in Nat /\ cp < 2048
  BY <1>1
<1> QED BY <1>1, <1>2, Utf8Two

LEMMA EncodedThree ==
  ASSUME NEW cp \in Int, NEW x \in Int, NEW y \in Int, NEW z \in Int,
         128 <= y, y <= 191, 128 <= z, z <= 191, 2048 <= cp, cp <= 65535
  PROVE  cp = (x - 224) * 4096 + (y - 128) * 64 + (z - 128) => Utf8(cp) = <<x, y, z>>
<1>1. PICK a \in Int, b \in Nat, c \in Nat :
        x = 224 + a /\ y = 128 + b /\ z = 128 + c /\ b < 64 /\ c < 64
  <2>1. /\ x = 224 + (x - 224) /\ y = 128 + (y - 128) /\ y - 128 \in Nat /\ y - 128 < 64
        /\ z = 128 + (z - 128) /\ z - 128 \in Nat /\ z - 128 < 64
    OBVIOUS
  <2> QED BY <2>1
<1>2. PICK m \in Int : m = a * 64 + b
  OBVIOUS
<1>3. cp = (x - 224) * 4096 + (y - 128) * 64 + (z - 128) => cp = m * 64 + c
  BY <1>1, <1>2
<1>4. m \div 64 = a /\ m % 64 = b
  BY <1>1, <1>2, SixBits
<1>5. cp = m * 64 + c => cp \div 64 = m /\ cp % 64 = c
  BY <1>1, SixBits
<1>6. cp \in Nat /\ 2048 <= cp /\ cp < 65536
  OBVIOUS
<1>7. cp \div 4096 = (cp \div 64) \div 64
  BY <1>6, Divided
<1>8. Utf8(cp) = <<224 + cp \div 4096, Continued(cp \div 64), Continued(cp)>>
  BY <1>6, Utf8Is
<1>9. cp = m * 64 + c => Utf8(cp) = <<224 + a, 128 + b, 128 + c>>
  BY <1>4, <1>5, <1>7, <1>8 DEF Continued
<1> QED BY <1>1, <1>3, <1>9

LEMMA EncodedFour ==
  ASSUME NEW cp \in Int, NEW x \in Int, NEW y \in Int, NEW z \in Int, NEW w \in Int,
         128 <= y, y <= 191, 128 <= z, z <= 191, 128 <= w, w <= 191, 65536 <= cp
  PROVE  cp = (x - 240) * 262144 + (y - 128) * 4096 + (z - 128) * 64 + (w - 128)
           => Utf8(cp) = <<x, y, z, w>>
<1>1. PICK a \in Int, b \in Nat, c \in Nat, d \in Nat :
        /\ x = 240 + a /\ y = 128 + b /\ z = 128 + c /\ w = 128 + d
        /\ b < 64 /\ c < 64 /\ d < 64
  <2>1. /\ x = 240 + (x - 240) /\ y = 128 + (y - 128) /\ y - 128 \in Nat /\ y - 128 < 64
        /\ z = 128 + (z - 128) /\ z - 128 \in Nat /\ z - 128 < 64
        /\ w = 128 + (w - 128) /\ w - 128 \in Nat /\ w - 128 < 64
    OBVIOUS
  <2> QED BY <2>1
<1>2. PICK m \in Int : m = a * 64 + b
  OBVIOUS
<1>3. PICK n \in Int : n = m * 64 + c
  OBVIOUS
<1>4. cp = (x - 240) * 262144 + (y - 128) * 4096 + (z - 128) * 64 + (w - 128) => cp = n * 64 + d
  BY <1>1, <1>2, <1>3
<1>5. m \div 64 = a /\ m % 64 = b
  BY <1>1, <1>2, SixBits
<1>6. n \div 64 = m /\ n % 64 = c
  BY <1>1, <1>3, SixBits
<1>7. cp = n * 64 + d => cp \div 64 = n /\ cp % 64 = d
  BY <1>1, SixBits
<1>8. cp \in Nat /\ 65536 <= cp
  OBVIOUS
<1>9. cp \div 4096 = (cp \div 64) \div 64 /\ cp \div 262144 = ((cp \div 64) \div 64) \div 64
  BY <1>8, Divided
<1>10. Utf8(cp) = <<240 + cp \div 262144, Continued(cp \div 4096), Continued(cp \div 64),
                    Continued(cp)>>
  BY <1>8, Utf8Is
<1>11. cp = n * 64 + d => Utf8(cp) = <<240 + a, 128 + b, 128 + c, 128 + d>>
  BY <1>5, <1>6, <1>7, <1>9, <1>10 DEF Continued
<1> QED BY <1>1, <1>4, <1>11

\* utf16_literal_to_utf8 writes the encoding of the code point.
LEMMA Utf8Encodes ==
  ASSUME NEW cp \in Int, NEW m \in Seq(Int), Encodes(m, cp)
  PROVE  Utf8(cp) = m
<1>0. \A k \in 2..Len(m) : 128 <= m[k] /\ m[k] <= 191
  BY DEF Encodes
<1>1. CASE Len(m) = 1 /\ 0 <= cp /\ cp <= 127 /\ cp = m[1]
  <2>1. m = <<cp>>
    BY <1>1, OneElement
  <2>2. cp \in Nat /\ cp < 128
    BY <1>1
  <2> QED BY <2>1, <2>2, Utf8Is
<1>2. CASE Len(m) = 2 /\ 128 <= cp /\ cp <= 2047 /\ cp = (m[1] - 192) * 64 + (m[2] - 128)
  <2>1. PICK x \in Int, y \in Int : m = <<x, y>> /\ x = m[1] /\ y = m[2]
    BY <1>2, TwoElements
  <2>2. 128 <= y /\ y <= 191
    BY <1>0, <1>2, <2>1
  <2>3. Utf8(cp) = <<x, y>>
    BY <1>2, <2>1, <2>2, EncodedTwo
  <2> QED BY <2>1, <2>3
<1>3. CASE /\ Len(m) = 3 /\ 2048 <= cp /\ cp <= 65535
           /\ cp = (m[1] - 224) * 4096 + (m[2] - 128) * 64 + (m[3] - 128)
  <2>1. PICK x \in Int, y \in Int, z \in Int : m = <<x, y, z>> /\ x = m[1] /\ y = m[2] /\ z = m[3]
    BY <1>3, ThreeElements
  <2>2. 128 <= y /\ y <= 191 /\ 128 <= z /\ z <= 191
    BY <1>0, <1>3, <2>1
  <2>3. Utf8(cp) = <<x, y, z>>
    BY <1>3, <2>1, <2>2, EncodedThree
  <2> QED BY <2>1, <2>3
<1>4. CASE /\ Len(m) = 4 /\ 65536 <= cp /\ cp <= 1114111
           /\ cp = (m[1] - 240) * 262144 + (m[2] - 128) * 4096 + (m[3] - 128) * 64 + (m[4] - 128)
  <2>1. PICK x \in Int, y \in Int, z \in Int, w \in Int :
          m = <<x, y, z, w>> /\ x = m[1] /\ y = m[2] /\ z = m[3] /\ w = m[4]
    BY <1>4, FourElements
  <2>2. 128 <= y /\ y <= 191 /\ 128 <= z /\ z <= 191 /\ 128 <= w /\ w <= 191
    BY <1>0, <1>4, <2>1
  <2>3. Utf8(cp) = <<x, y, z, w>>
    BY <1>4, <2>1, <2>2, EncodedFour
  <2> QED BY <2>1, <2>3
<1> QED BY <1>1, <1>2, <1>3, <1>4 DEF Encodes

\* A hexadecimal digit is read as the value it is written for.
LEMMA DigitOfByte ==
  ASSUME NEW d \in 0..15, NEW b \in DigitBytes[d]
  PROVE  /\ Digit(b) = d /\ b \in 48..102 /\ b \notin {Quote, Backslash}
         /\ (CHOOSE x \in 0..15 : b \in DigitBytes[x]) = d
<1>1. \A x \in 0..15 : DigitBytes[x] = IF x < 10 THEN {48 + x} ELSE {55 + x, 87 + x}
  BY DEF DigitBytes
<1>2. \A x \in 0..15 : b \in DigitBytes[x] => x = d
  BY <1>1
<1>3. (CHOOSE x \in 0..15 : b \in DigitBytes[x]) = d
  BY <1>2
<1>4. CASE d < 10
  <2>1. b = 48 + d /\ b \in 48..57
    BY <1>1, <1>4
  <2> QED BY <1>3, <2>1 DEF Digit, Quote, Backslash
<1>5. CASE ~(d < 10)
  <2>1. b = 55 + d \/ b = 87 + d
    BY <1>1, <1>5
  <2>2. b = 55 + d => b \in 65..70 /\ b \notin 48..57 /\ b - 55 = d
    BY <1>5
  <2>3. b = 87 + d => b \in 97..102 /\ b \notin 48..57 /\ b \notin 65..70 /\ b - 87 = d
    BY <1>5
  <2>4. b \in 48..102 /\ b \notin {Quote, Backslash}
    BY <2>1, <2>2, <2>3 DEF Quote, Backslash
  <2>5. Digit(b) = d
    BY <2>1, <2>2, <2>3 DEF Digit
  <2> QED BY <1>3, <2>4, <2>5
<1> QED BY <1>4, <1>5

\* Four of them are read as the number they are.
LEMMA HexNumber ==
  ASSUME NEW t, NEW q \in Int, NEW u, NEW i \in Int,
         \A k \in 0..3 : t[q + k] = u[i + k],
         \A k \in 0..3 : \E d \in 0..15 : u[i + k] \in DigitBytes[d]
  PROVE  /\ ParseHex4(t, q) = Number(u, i) /\ Number(u, i) \in Nat /\ Number(u, i) < 65536
         /\ \A k \in 0..3 : t[q + k] \notin {Quote, Backslash}
<1> DEFINE v(k) == CHOOSE d \in 0..15 : u[i + k] \in DigitBytes[d]
<1>1. ASSUME NEW k \in 0..3
      PROVE  v(k) \in 0..15 /\ Digit(t[q + k]) = v(k) /\ t[q + k] \notin {Quote, Backslash}
  <2>1. PICK d \in 0..15 : u[i + k] \in DigitBytes[d]
    OBVIOUS
  <2>2. PICK b : b = u[i + k]
    OBVIOUS
  <2>3. /\ Digit(b) = d /\ b \notin {Quote, Backslash}
        /\ (CHOOSE x \in 0..15 : b \in DigitBytes[x]) = d
    BY <2>1, <2>2, DigitOfByte
  <2> QED BY <2>2, <2>3
<1>2. Number(u, i) = v(0) * 4096 + v(1) * 256 + v(2) * 16 + v(3)
  BY DEF Number
<1> HIDE DEF v
<1>3. 0 \in 0..3 /\ 1 \in 0..3 /\ 2 \in 0..3 /\ 3 \in 0..3
  OBVIOUS
<1>4. PICK a \in 0..15, b \in 0..15, c \in 0..15, d \in 0..15 :
        a = v(0) /\ b = v(1) /\ c = v(2) /\ d = v(3)
  <2>1. v(0) \in 0..15 /\ v(1) \in 0..15 /\ v(2) \in 0..15 /\ v(3) \in 0..15
    BY <1>1, <1>3, Zenon
  <2> QED BY <2>1, Zenon
<1>5. ParseHex4(t, q) = ((a * 16 + b) * 16 + c) * 16 + d
  <2>1. \A k \in 0..3 : Digit(t[q + k]) # 16
    <3> SUFFICES ASSUME NEW k \in 0..3 PROVE Digit(t[q + k]) # 16
      OBVIOUS
    <3>1. PICK e \in 0..15 : Digit(t[q + k]) = e
      BY <1>1, Zenon
    <3> QED BY <3>1
  <2>2. /\ Digit(t[q + 0]) = a /\ Digit(t[q + 1]) = b
        /\ Digit(t[q + 2]) = c /\ Digit(t[q + 3]) = d
    BY <1>1, <1>3, <1>4, Zenon
  <2>3. ParseHex4(t, q) = ((Digit(t[q + 0]) * 16 + Digit(t[q + 1])) * 16 + Digit(t[q + 2])) * 16
                          + Digit(t[q + 3])
    BY <2>1, Zenon DEF ParseHex4
  <2> QED BY <2>2, <2>3, Zenon
<1>6. Number(u, i) = a * 4096 + b * 256 + c * 16 + d
  BY <1>2, <1>4
<1>7. ((a * 16 + b) * 16 + c) * 16 + d = a * 4096 + b * 256 + c * 16 + d
  OBVIOUS
<1>8. ((a * 16 + b) * 16 + c) * 16 + d \in Nat /\ ((a * 16 + b) * 16 + c) * 16 + d < 65536
  <2>1. a \in Nat /\ b \in Nat /\ c \in Nat /\ d \in Nat /\ a < 16 /\ b < 16 /\ c < 16 /\ d < 16
    OBVIOUS
  <2> QED BY <2>1, FourDigits
<1>9. ParseHex4(t, q) = Number(u, i) /\ Number(u, i) \in Nat /\ Number(u, i) < 65536
  BY <1>5, <1>6, <1>7, <1>8
<1> QED BY <1>1, <1>9

\* A \uXXXX of s is one of t, where s is found.
LEMMA HexFound ==
  ASSUME NEW t, NEW q \in Int, NEW s \in Seq(Int), FoundAt(t, q, s),
         NEW p \in {1, 7}, p + 5 <= Len(s), HexAt(s, p)
  PROVE  HexAt(t, q + p - 1) /\ Number(t, q + p + 1) = Number(s, p + 2)
<1>0. Len(s) \in Nat
  BY LenProperties
<1>1. ASSUME NEW k \in 0..5 PROVE t[q + p - 1 + k] = s[p + k]
  <2>1. p + k \in 1..Len(s) /\ q + (p + k) - 1 = q + p - 1 + k
    BY <1>0
  <2> QED BY <2>1 DEF FoundAt
<1>2. t[q + p - 1] = s[p] /\ t[q + p - 1 + 1] = s[p + 1]
  <2>1. q + p - 1 + 0 = q + p - 1 /\ p + 0 = p
    OBVIOUS
  <2> QED BY <1>1, <2>1
<1>3. \A k \in 2..5 : t[q + p - 1 + k] = s[p + k]
  <2>1. \A k \in 2..5 : k \in 0..5
    OBVIOUS
  <2> QED BY <1>1, <2>1
<1>4. HexAt(t, q + p - 1)
  BY <1>2, <1>3, Zenon DEF HexAt
<1>5. \A k \in 0..3 : t[q + p + 1 + k] = s[p + 2 + k]
  <2> SUFFICES ASSUME NEW k \in 0..3 PROVE t[q + p + 1 + k] = s[p + 2 + k]
    OBVIOUS
  <2>1. k + 2 \in 0..5 /\ q + p - 1 + (k + 2) = q + p + 1 + k /\ p + (k + 2) = p + 2 + k
    OBVIOUS
  <2> QED BY <1>1, <2>1
<1>6. Number(t, q + p + 1) = Number(s, p + 2)
  <2>1. 0 \in 0..3 /\ 1 \in 0..3 /\ 2 \in 0..3 /\ 3 \in 0..3
    OBVIOUS
  <2> QED BY <1>5, <2>1, Zenon DEF Number
<1> QED BY <1>4, <1>6

\* What parse_hex4 reads of it, and that no quote or backslash is in it.
LEMMA HexRead ==
  ASSUME NEW t, NEW q \in Int, HexAt(t, q)
  PROVE  /\ t[q] = Backslash /\ t[q + 1] = LetterU
         /\ ParseHex4(t, q + 2) = Number(t, q + 2)
         /\ Number(t, q + 2) \in Nat /\ Number(t, q + 2) < 65536
         /\ \A k \in 2..5 : t[q + k] \notin {Quote, Backslash}
<1>1. \A k \in 0..3 : \E d \in 0..15 : t[q + 2 + k] \in DigitBytes[d]
  <2> SUFFICES ASSUME NEW k \in 0..3 PROVE \E d \in 0..15 : t[q + 2 + k] \in DigitBytes[d]
    OBVIOUS
  <2>1. k + 2 \in 2..5 /\ q + (k + 2) = q + 2 + k
    OBVIOUS
  <2> QED BY <2>1 DEF HexAt
<1>2. PICK i \in Int : i = q + 2
  OBVIOUS
<1>3. /\ ParseHex4(t, i) = Number(t, i) /\ Number(t, i) \in Nat /\ Number(t, i) < 65536
      /\ \A k \in 0..3 : t[i + k] \notin {Quote, Backslash}
  BY <1>1, <1>2, HexNumber
<1>4. \A k \in 2..5 : t[q + k] \notin {Quote, Backslash}
  <2> SUFFICES ASSUME NEW k \in 2..5 PROVE t[q + k] \notin {Quote, Backslash}
    OBVIOUS
  <2>1. k - 2 \in 0..3 /\ i + (k - 2) = q + k
    BY <1>2
  <2> QED BY <1>3, <2>1
<1>5. t[q] = Backslash /\ t[q + 1] = LetterU
  BY DEF HexAt
<1> QED BY <1>2, <1>3, <1>4, <1>5

\* Where a literal ends does not depend on what is skipped before.
LEMMA ClosingSame ==
  ASSUME NEW t \in Seq(Int), NEW i \in 1..(Len(t) + 2), NEW c, ClosingRun(c, t, i),
         NEW k \in i..Len(t)
  PROVE  /\ t[k] \notin {Quote, Backslash} => c[k].at = c[k + 1].at
         /\ t[k] = Backslash => c[k].at = c[k + 2].at
         /\ t[k] = Quote => c[k].at = k
<1>0. Len(t) \in Nat
  BY LenProperties
<1>1. k \in Nat /\ k <= Len(t) /\ k \in i..(Len(t) + 2) /\ k + 2 \in i..(Len(t) + 2)
  BY <1>0
<1>2. c[k] = ClosingStep(t, c, k)
  BY <1>1 DEF ClosingRun
<1>3. c[k + 2] \in Closings
  BY <1>1, ClosingBounds DEF EndsWell
<1>4. t[k] = Backslash => c[k] = [c[k + 2] EXCEPT !.skipped = @ + 1]
  BY <1>1, <1>2, ClosingStepIs
<1>5. t[k] = Backslash => c[k].at = c[k + 2].at
  BY <1>3, <1>4, Skip
<1>6. t[k] \notin {Quote, Backslash} => c[k] = c[k + 1]
  BY <1>1, <1>2, ClosingStepIs
<1>7. t[k] = Quote => c[k] = [at |-> k, skipped |-> 0]
  BY <1>1, <1>2, ClosingStepIs
<1> QED BY <1>5, <1>6, <1>7

LEMMA ClosingHex ==
  ASSUME NEW t \in Seq(Int), NEW i \in 1..(Len(t) + 2), NEW c, ClosingRun(c, t, i),
         NEW q \in i..Len(t), q + 5 <= Len(t), HexAt(t, q)
  PROVE  c[q].at = c[q + 6].at
<1>0. Len(t) \in Nat
  BY LenProperties
<1>1. t[q] = Backslash /\ \A k \in 2..5 : t[q + k] \notin {Quote, Backslash}
  BY <1>0, HexRead
<1>2. \A k \in 2..5 : c[q + k].at = c[q + k + 1].at
  <2> SUFFICES ASSUME NEW k \in 2..5 PROVE c[q + k].at = c[q + k + 1].at
    OBVIOUS
  <2>1. PICK x \in i..Len(t) : x = q + k
    BY <1>0
  <2>2. t[x] \notin {Quote, Backslash}
    BY <1>1, <2>1
  <2>3. c[x].at = c[x + 1].at
    BY <2>2, ClosingSame
  <2> QED BY <2>1, <2>3
<1>3. c[q].at = c[q + 2].at
  BY <1>1, ClosingSame
<1>4. /\ c[q + 2].at = c[q + 3].at /\ c[q + 3].at = c[q + 4].at
      /\ c[q + 4].at = c[q + 5].at /\ c[q + 5].at = c[q + 6].at
  <2>1. /\ c[q + 2].at = c[q + 2 + 1].at /\ c[q + 3].at = c[q + 3 + 1].at
        /\ c[q + 4].at = c[q + 4 + 1].at /\ c[q + 5].at = c[q + 5 + 1].at
    BY <1>2
  <2>2. q + 2 + 1 = q + 3 /\ q + 3 + 1 = q + 4 /\ q + 4 + 1 = q + 5 /\ q + 5 + 1 = q + 6
    BY <1>0
  <2> QED BY <2>1, <2>2
<1> QED BY <1>3, <1>4

\* Nor does it depend on where in a literal the search begins, as long as it is
\* between two units.
LEMMA ClosingUnit ==
  ASSUME NEW t \in Seq(Int), NEW i \in 1..(Len(t) + 2), NEW c, ClosingRun(c, t, i),
         NEW s \in Seq(Int), NEW m, Means(s, m),
         NEW q \in i..Len(t), q + Len(s) <= Len(t) + 1, FoundAt(t, q, s)
  PROVE  c[q].at = c[q + Len(s)].at
<1>0. Len(t) \in Nat /\ Len(s) \in Nat /\ q \in Int
  <2>1. Len(t) \in Nat /\ Len(s) \in Nat
    BY LenProperties
  <2> QED BY <2>1
<1>1. CASE Len(s) = 1 /\ s[1] \notin {Quote, Backslash}
  <2>1. 1 \in 1..Len(s) /\ q + 1 - 1 = q
    BY <1>0, <1>1
  <2>2. t[q] = s[1]
    BY <2>1 DEF FoundAt
  <2> QED BY <1>1, <2>2, ClosingSame
<1>2. CASE Len(s) = 2 /\ s[1] = Backslash
  <2>1. 1 \in 1..Len(s) /\ q + 1 - 1 = q
    BY <1>0, <1>2
  <2>2. t[q] = s[1]
    BY <2>1 DEF FoundAt
  <2> QED BY <1>2, <2>2, ClosingSame
<1>3. CASE Len(s) = 6 /\ HexAt(s, 1)
  <2>1. 1 \in {1, 7} /\ 1 + 5 <= Len(s) /\ q + 1 - 1 = q /\ q + 5 <= Len(t)
    BY <1>0, <1>3
  <2>2. HexAt(t, q)
    BY <1>0, <1>3, <2>1, HexFound
  <2> QED BY <1>3, <2>1, <2>2, ClosingHex
<1>4. CASE Len(s) = 12 /\ HexAt(s, 1) /\ HexAt(s, 7)
  <2>8. q + 12 <= Len(t) + 1
    BY <1>4
  <2>1. /\ 1 \in {1, 7} /\ 1 + 5 <= Len(s) /\ q + 1 - 1 = q /\ q + 5 <= Len(t)
        /\ 7 \in {1, 7} /\ 7 + 5 <= Len(s) /\ q + 7 - 1 = q + 6 /\ q + 6 + 5 <= Len(t)
    <3>1. 1 + 5 <= Len(s) /\ 7 + 5 <= Len(s)
      BY <1>4
    <3>2. q + 1 - 1 = q /\ q + 7 - 1 = q + 6
      BY <1>0
    <3>3. \A n \in Nat : q + 12 <= n + 1 => q + 5 <= n /\ q + 6 + 5 <= n
      BY <1>0
    <3>4. q + 5 <= Len(t) /\ q + 6 + 5 <= Len(t)
      BY <1>0, <2>8, <3>3
    <3> QED BY <3>1, <3>2, <3>4
  <2>7. q + 6 \in i..Len(t) /\ q + 6 + 6 = q + 12
    <3>1. i \in Int /\ i <= q /\ q + 12 <= Len(t) + 1
      BY <1>0, <1>4
    <3> QED BY <1>0, <3>1
  <2>2. HexAt(t, q)
    BY <1>0, <1>4, <2>1, HexFound
  <2>3. HexAt(t, q + 6)
    BY <1>0, <1>4, <2>1, HexFound
  <2>4. c[q].at = c[q + 6].at
    BY <2>1, <2>2, ClosingHex
  <2>5. PICK x \in i..Len(t) : x = q + 6
    BY <2>7
  <2>6. c[x].at = c[x + 6].at
    BY <2>1, <2>3, <2>5, ClosingHex
  <2> QED BY <1>4, <2>4, <2>5, <2>6, <2>7
<1> QED BY <1>1, <1>2, <1>3, <1>4 DEF Means

\* The ten bits of a surrogate.
LEMMA TenBits ==
  ASSUME NEW n \in Nat
  PROVE  /\ 55296 <= n /\ n <= 56319 => n % 1024 = n - 55296
         /\ 56320 <= n /\ n <= 57343 => n % 1024 = n - 56320
OBVIOUS

LEMMA LetterEscape ==
  ASSUME NEW t, NEW q, NEW end, NEW x \in Letters, t[q + 1] = x[1]
  PROVE  Escape(t, q, end) = [length |-> 2, bytes |-> <<x[2]>>]
<1>1. PICK b : b = t[q + 1]
  OBVIOUS
<1>2. /\ DOMAIN Short = {98, 102, 110, 114, 116} /\ Itself = {34, 92, 47}
      /\ Short[98] = 8 /\ Short[102] = 12 /\ Short[110] = 10 /\ Short[114] = 13
      /\ Short[116] = 9
  BY DEF Short, Itself, Quote, Backslash
<1>3. \/ b \in Itself /\ b \notin DOMAIN Short /\ x[2] = b
      \/ b \in DOMAIN Short /\ x[2] = Short[b]
  BY <1>1, <1>2 DEF Letters
<1>4. CASE b \in DOMAIN Short /\ x[2] = Short[b]
  <2>1. Escape(t, q, end) = [length |-> 2, bytes |-> <<Short[b]>>]
    <3>1. b \in DOMAIN Short /\ b \notin Itself /\ b # LetterU
      BY <1>2, <1>4 DEF LetterU
    <3> QED BY <1>1, <3>1, Zenon DEF Escape
  <2> QED BY <1>4, <2>1
<1>5. CASE b \in Itself /\ b \notin DOMAIN Short /\ x[2] = b
  <2>1. Escape(t, q, end) = [length |-> 2, bytes |-> <<b>>]
    <3>1. b # LetterU
      BY <1>2, <1>5 DEF LetterU
    <3> QED BY <1>1, <1>5, <3>1, Zenon DEF Escape
  <2> QED BY <1>5, <2>1
<1> QED BY <1>3, <1>4, <1>5

LEMMA HexIsEscape ==
  ASSUME NEW t, NEW q \in Int, NEW end, HexAt(t, q)
  PROVE  Escape(t, q, end) = Utf16Literal(t, q, end)
<1>1. PICK b : b = t[q + 1]
  OBVIOUS
<1>2. b = LetterU
  BY <1>1, HexRead
<1>3. DOMAIN Short = {98, 102, 110, 114, 116} /\ Itself = {34, 92, 47}
  BY DEF Short, Itself, Quote, Backslash
<1>4. b \notin DOMAIN Short /\ b \notin Itself
  BY <1>2, <1>3 DEF LetterU
<1> QED BY <1>1, <1>2, <1>4, Zenon DEF Escape

LEMMA SingleEscape ==
  ASSUME NEW t, NEW q \in Int, NEW end \in Int, end - q >= 6, HexAt(t, q), NEW m \in Seq(Int),
         Number(t, q + 2) < 55296 \/ Number(t, q + 2) > 57343, Encodes(m, Number(t, q + 2))
  PROVE  Escape(t, q, end) = [length |-> 6, bytes |-> m]
<1>1. PICK n \in Nat : n = Number(t, q + 2)
  BY HexRead
<1>2. ParseHex4(t, q + 2) = n
  BY <1>1, HexRead
<1>3. n < 55296 \/ n > 57343
  BY <1>1
<1>4. ~HighSurrogate(n) /\ ~LowSurrogate(n)
  BY <1>3 DEF HighSurrogate, LowSurrogate
<1>5. Utf8(n) = m
  BY <1>1, Utf8Encodes
<1>6. ~(end - q < 6)
  OBVIOUS
<1>7. Utf16Literal(t, q, end) = [length |-> 6, bytes |-> Utf8(n)]
  BY <1>2, <1>4, <1>6 DEF Utf16Literal
<1> QED BY <1>5, <1>7, HexIsEscape

LEMMA PairIs ==
  ASSUME NEW a \in Nat, NEW b \in Nat,
         55296 <= a, a <= 56319, 56320 <= b, b <= 57343
  PROVE  65536 + (a % 1024) * 1024 + (b % 1024) = 65536 + (a - 55296) * 1024 + (b - 56320)
<1>1. a % 1024 = a - 55296 /\ b % 1024 = b - 56320
  BY TenBits
<1> QED BY <1>1

\* The surrogates a and b are for the code point cp.
IsPair(a, b, cp) ==
  /\ 55296 <= a /\ a <= 56319 /\ 56320 <= b /\ b <= 57343
  /\ cp = 65536 + (a % 1024) * 1024 + (b % 1024)

LEMMA PairEscape ==
  ASSUME NEW t, NEW q \in Int, NEW end \in Int, end - q >= 12, HexAt(t, q), HexAt(t, q + 6),
         NEW m \in Seq(Int), NEW a \in Nat, NEW b \in Nat, NEW cp \in Int,
         a = Number(t, q + 2), b = Number(t, q + 8), IsPair(a, b, cp), Encodes(m, cp)
  PROVE  Escape(t, q, end) = [length |-> 12, bytes |-> m]
<1>1. ParseHex4(t, q + 2) = a
  BY HexRead
<1>2. ParseHex4(t, q + 8) = b /\ t[q + 6] = Backslash /\ t[q + 7] = LetterU
  <2>1. PICK x \in Int : x = q + 6 /\ x + 1 = q + 7 /\ x + 2 = q + 8
    OBVIOUS
  <2> QED BY <2>1, HexRead
<1>3. HighSurrogate(a) /\ ~LowSurrogate(a) /\ LowSurrogate(b)
  BY DEF HighSurrogate, LowSurrogate, IsPair
<1>4. ~(end - q < 6) /\ ~(end - q < 12)
  OBVIOUS
<1>5. Utf16Literal(t, q, end) = [length |-> 12, bytes |-> Utf8(cp)]
  BY <1>1, <1>2, <1>3, <1>4 DEF Utf16Literal, IsPair
<1>6. Utf8(cp) = m
  BY Utf8Encodes
<1> QED BY <1>5, <1>6, HexIsEscape

\* What a unit of more than one byte is decoded to.
LEMMA EscapeOfUnit ==
  ASSUME NEW t, NEW q \in Int, NEW end \in Int, NEW s \in Seq(Int), NEW m \in Seq(Int),
         Means(s, m), Len(s) # 1, FoundAt(t, q, s), q + Len(s) <= end
  PROVE  t[q] = Backslash /\ Escape(t, q, end) = [length |-> Len(s), bytes |-> m]
<1>1. CASE Len(s) = 2 /\ s[1] = Backslash /\ \E x \in Letters : s[2] = x[1] /\ m = <<x[2]>>
  <2>1. PICK x \in Letters : s[2] = x[1] /\ m = <<x[2]>>
    BY <1>1
  <2>2. 1 \in 1..Len(s) /\ 2 \in 1..Len(s) /\ q + 1 - 1 = q /\ q + 2 - 1 = q + 1
    BY <1>1
  <2>3. t[q] = s[1] /\ t[q + 1] = s[2]
    BY <2>2 DEF FoundAt
  <2>4. Escape(t, q, end) = [length |-> 2, bytes |-> <<x[2]>>]
    BY <2>1, <2>3, LetterEscape
  <2> QED BY <1>1, <2>1, <2>3, <2>4
<1>2. CASE /\ Len(s) = 6 /\ HexAt(s, 1)
           /\ Number(s, 3) < 55296 \/ Number(s, 3) > 57343
           /\ Encodes(m, Number(s, 3))
  <2>1. 1 \in {1, 7} /\ 1 + 5 <= Len(s) /\ q + 1 - 1 = q /\ q + 1 + 1 = q + 2 /\ 1 + 2 = 3
    BY <1>2
  <2>2. HexAt(t, q) /\ Number(t, q + 2) = Number(s, 3)
    <3>0. HexAt(s, 1)
      BY <1>2
    <3>1. HexAt(t, q + 1 - 1) /\ Number(t, q + 1 + 1) = Number(s, 1 + 2)
      BY <2>1, <3>0, HexFound
    <3> QED BY <2>1, <3>1
  <2>3. t[q] = Backslash
    BY <2>2, HexRead
  <2>4. end - q >= 6
    BY <1>2
  <2>5. Number(t, q + 2) < 55296 \/ Number(t, q + 2) > 57343
    BY <1>2, <2>2
  <2>6. Encodes(m, Number(t, q + 2))
    BY <1>2, <2>2
  <2>7. Escape(t, q, end) = [length |-> 6, bytes |-> m]
    BY <2>2, <2>4, <2>5, <2>6, SingleEscape
  <2> QED BY <1>2, <2>3, <2>7
<1>3. CASE /\ Len(s) = 12 /\ HexAt(s, 1) /\ HexAt(s, 7)
           /\ 55296 <= Number(s, 3) /\ Number(s, 3) <= 56319
           /\ 56320 <= Number(s, 9) /\ Number(s, 9) <= 57343
           /\ Encodes(m, 65536 + (Number(s, 3) - 55296) * 1024 + (Number(s, 9) - 56320))
  <2>1. /\ 1 \in {1, 7} /\ 1 + 5 <= Len(s) /\ q + 1 - 1 = q /\ q + 1 + 1 = q + 2 /\ 1 + 2 = 3
        /\ 7 \in {1, 7} /\ 7 + 5 <= Len(s) /\ q + 7 - 1 = q + 6 /\ q + 7 + 1 = q + 8 /\ 7 + 2 = 9
        /\ q + 6 \in Int /\ q + 6 + 2 = q + 8
    <3>1. Len(s) = 12
      BY <1>3
    <3> QED BY <3>1
  <2>2. HexAt(t, q) /\ Number(t, q + 2) = Number(s, 3)
    <3>0. HexAt(s, 1)
      BY <1>3
    <3>1. HexAt(t, q + 1 - 1) /\ Number(t, q + 1 + 1) = Number(s, 1 + 2)
      BY <2>1, <3>0, HexFound
    <3> QED BY <2>1, <3>1
  <2>3. HexAt(t, q + 6) /\ Number(t, q + 8) = Number(s, 9)
    <3>0. HexAt(s, 7)
      BY <1>3
    <3>1. HexAt(t, q + 7 - 1) /\ Number(t, q + 7 + 1) = Number(s, 7 + 2)
      BY <2>1, <3>0, HexFound
    <3> QED BY <2>1, <3>1
  <2>4. t[q] = Backslash
    BY <2>2, HexRead
  <2>5. end - q >= 12
    <3>1. Len(s) = 12
      BY <1>3
    <3> QED BY <3>1
  <2>6. PICK a \in Nat : a = Number(t, q + 2)
    BY <2>2, HexRead
  <2>7. PICK b \in Nat : b = Number(t, q + 8)
    <3>1. PICK x \in Int : x = q + 6 /\ x + 2 = q + 8
      BY <2>1
    <3> QED BY <2>3, <3>1, HexRead
  <2>8. 55296 <= a /\ a <= 56319 /\ 56320 <= b /\ b <= 57343
    BY <1>3, <2>2, <2>3, <2>6, <2>7
  <2>9. PICK cp \in Int : cp = 65536 + (a % 1024) * 1024 + (b % 1024)
    OBVIOUS
  <2>10. Encodes(m, cp)
    <3>1. cp = 65536 + (a - 55296) * 1024 + (b - 56320)
      BY <2>8, <2>9, PairIs
    <3>2. Encodes(m, 65536 + (a - 55296) * 1024 + (b - 56320))
      BY <1>3, <2>2, <2>3, <2>6, <2>7
    <3> QED BY <3>1, <3>2
  <2>11. Escape(t, q, end) = [length |-> 12, bytes |-> m]
    <3>1. HexAt(t, q) /\ HexAt(t, q + 6)
      BY <2>2, <2>3
    <3>2. IsPair(a, b, cp)
      BY <2>8, <2>9 DEF IsPair
    <3> QED BY <3>1, <3>2, <2>5, <2>6, <2>7, <2>10, PairEscape
  <2>12. Len(s) = 12
    BY <1>3
  <2> QED BY <2>4, <2>11, <2>12
<1> QED BY <1>1, <1>2, <1>3 DEF Means

\* x goes on with y, before which m is written.
After(x, m, y) == x.ok = y.ok /\ x.out = m \o y.out

LEMMA AfterPrefix ==
  ASSUME NEW y \in Decoded, NEW m \in Seq(Int), NEW x, x = [y EXCEPT !.out = m \o @]
  PROVE  After(x, m, y)
<1>1. x.ok = y.ok /\ x.out = m \o y.out
  BY DEF Decoded
<1> QED BY <1>1 DEF After

LEMMA DecodeUnit ==
  ASSUME NEW t \in Seq(Int), NEW i \in Int, NEW end \in Int, NEW g, DecodeRun(g, t, i, end),
         NEW s \in Seq(Int), NEW m \in Seq(Int), Means(s, m),
         NEW q \in i..end, q + Len(s) <= end, FoundAt(t, q, s), g[q + Len(s)] \in Decoded
  PROVE  After(g[q], m, g[q + Len(s)])
<1>0. Len(s) \in Nat /\ q \in Int /\ q \in i..(end + 1)
  <2>1. Len(s) \in Nat
    BY LenProperties
  <2> QED BY <2>1
<1>1. Steps(t, g, q, end)
  BY <1>0, DecodeRunSteps
<1>2. CASE Len(s) = 1
  <2>1. m = s /\ s[1] \notin {Quote, Backslash}
    BY <1>2 DEF Means
  <2>2. m = <<s[1]>>
    BY <1>2, <2>1, OneElement
  <2>3. t[q] = s[1]
    <3>1. 1 \in 1..Len(s) /\ q + 1 - 1 = q
      BY <1>0, <1>2
    <3> QED BY <3>1 DEF FoundAt
  <2>4. q < end /\ t[q] # Backslash
    BY <1>0, <1>2, <2>1, <2>3
  <2>5. g[q] = [g[q + 1] EXCEPT !.out = <<t[q]>> \o @]
    BY <1>1, <2>4, Zenon DEF Steps
  <2>6. g[q] = [g[q + Len(s)] EXCEPT !.out = m \o @]
    BY <1>2, <2>2, <2>3, <2>5
  <2> QED BY <2>6, AfterPrefix
<1>3. CASE Len(s) # 1
  <2>1. t[q] = Backslash /\ Escape(t, q, end) = [length |-> Len(s), bytes |-> m]
    BY <1>0, <1>3, EscapeOfUnit
  <2>2. Len(s) \in {2, 6, 12}
    BY <1>3 DEF Means
  <2>3. PICK e : e = Escape(t, q, end)
    OBVIOUS
  <2>4. e.length = Len(s) /\ e.bytes = m /\ e.length # 0 /\ q < end
    <3>1. e.length = Len(s) /\ e.bytes = m
      BY <2>1, <2>3
    <3>2. \A l \in {2, 6, 12} : q + l <= end => q < end /\ l # 0
      BY <1>0
    <3> QED BY <2>2, <3>1, <3>2
  <2>5. g[q] = [g[q + e.length] EXCEPT !.out = e.bytes \o @]
    BY <1>1, <2>1, <2>3, <2>4, Zenon DEF Steps
  <2>6. g[q] = [g[q + Len(s)] EXCEPT !.out = m \o @]
    BY <2>4, <2>5
  <2> QED BY <2>6, AfterPrefix
<1> QED BY <1>2, <1>3

LEMMA AfterAfter ==
  ASSUME NEW x, NEW a \in Seq(Int), NEW y, NEW b \in Seq(Int), NEW z \in Decoded,
         After(x, a, y), After(y, b, z)
  PROVE  After(x, a \o b, z)
<1>1. PICK o \in Seq(Int) : o = z.out
  BY DEF Decoded
<1>2. x.ok = z.ok /\ x.out = a \o (b \o o)
  BY <1>1 DEF After
<1>3. (a \o b) \o o = a \o (b \o o)
  BY ConcatAssociative
<1> QED BY <1>1, <1>2, <1>3 DEF After

\* The text of the k-th unit, in the text of all.
LEMMA UnitFound ==
  ASSUME NEW texts \in Seq(Seq(Int)), NEW f, Flattens(f, texts, Int),
         NEW t, FoundAt(t, 2, f[Len(texts)]), NEW k \in 1..Len(texts)
  PROVE  /\ FoundAt(t, 2 + Len(f[k - 1]), texts[k])
         /\ Len(f[k]) = Len(f[k - 1]) + Len(texts[k])
         /\ Len(f[k]) \in Nat /\ Len(f[k - 1]) \in Nat /\ Len(texts[k]) \in Nat
         /\ Len(f[k]) <= Len(f[Len(texts)])
<1>0. Len(texts) \in Nat /\ k \in 0..Len(texts)
  <2>1. Len(texts) \in Nat
    BY LenProperties
  <2> QED BY <2>1
<1>1. Joins(f[k], f[k - 1], texts[k], Int)
  BY FlattenStep
<1>2. PICK all : all = f[Len(texts)]
  OBVIOUS
<1>3. /\ Len(f[k]) \in Nat /\ Len(f[k]) <= Len(all)
      /\ \A i \in 1..Len(f[k]) : all[i] = f[k][i]
  BY <1>0, <1>2, FlattenPrefix
<1>4. PICK a, b, c : a = f[k - 1] /\ b = texts[k] /\ c = f[k]
  OBVIOUS
<1>5. /\ Len(a) \in Nat /\ Len(b) \in Nat /\ Len(c) = Len(a) + Len(b)
      /\ \A j \in 1..Len(b) : c[Len(a) + j] = b[j]
  BY <1>1, <1>4, Zenon DEF Joins
<1>6. Len(all) \in Nat
  <2>1. Len(texts) \in 0..Len(texts)
    BY <1>0
  <2>2. all \in Seq(Int)
    BY <1>2, <2>1, FlattenPrefix
  <2> QED BY <2>2, LenProperties
<1>7. ASSUME NEW j \in 1..Len(b) PROVE t[(2 + Len(a)) + j - 1] = b[j]
  <2>1. PICK x \in Nat : x = Len(a) + j
    BY <1>5
  <2>2. x \in 1..Len(c)
    BY <1>5, <2>1
  <2>3. x \in 1..Len(all)
    <3>1. PICK p \in Nat, r \in Nat : p = Len(c) /\ r = Len(all) /\ p <= r
      BY <1>3, <1>4, <1>6
    <3>2. x \in 1..p
      BY <2>2, <3>1
    <3>3. x \in 1..r
      BY <3>1, <3>2
    <3> QED BY <3>1, <3>3
  <2>4. t[2 + x - 1] = all[x]
    BY <1>2, <2>3 DEF FoundAt
  <2>5. all[x] = c[x] /\ c[x] = b[j]
    BY <1>3, <1>4, <1>5, <2>1, <2>2
  <2>6. 2 + x - 1 = (2 + Len(a)) + j - 1
    BY <1>5, <2>1
  <2> QED BY <2>4, <2>5, <2>6
<1>8. FoundAt(t, 2 + Len(a), b)
  BY <1>7 DEF FoundAt
<1> QED BY <1>2, <1>3, <1>4, <1>5, <1>8

LEMMA MeansLength ==
  ASSUME NEW s, NEW m, Means(s, m)
  PROVE  Len(s) \in {1, 2, 6, 12}
<1>1. Len(s) = 1 \/ Len(s) = 2 \/ Len(s) = 6 \/ Len(s) = 12
  BY DEF Means
<1> QED BY <1>1

\* The units of texts and what each of them means.
WellFormed(texts, means) ==
  /\ texts \in Seq(Seq(Int)) /\ means \in Seq(Seq(Int)) /\ Len(means) = Len(texts)
  /\ \A k \in 1..Len(texts) : Means(texts[k], means[k])

\* The text T is in t between two quotes, of which the second is the last of t.
IsQuoted(t, T) ==
  /\ t \in Seq(Int) /\ Len(T) \in Nat /\ Len(t) = Len(T) + 2
  /\ t[1] = Quote /\ t[Len(t)] = Quote /\ FoundAt(t, 2, T)

\* The text s is in t from q to before r, and t goes on there.
Placed(t, q, s, r) ==
  /\ q \in 2..Len(t) /\ r \in 2..Len(t) /\ r = q + Len(s)
  /\ FoundAt(t, q, s)

LEMMA QuotedLength ==
  ASSUME NEW t, NEW T, IsQuoted(t, T)
  PROVE  /\ t \in Seq(Int) /\ Len(t) \in Nat /\ Len(t) = 2 + Len(T) /\ 2 \in 1..(Len(t) + 2)
         /\ t[Len(t)] = Quote /\ Len(t) \in 2..Len(t) /\ FoundAt(t, 2, T)
<1>1. /\ t \in Seq(Int) /\ Len(T) \in Nat /\ Len(t) = Len(T) + 2 /\ t[Len(t)] = Quote
      /\ FoundAt(t, 2, T)
  BY DEF IsQuoted
<1>2. PICK l \in Nat, e \in Nat : l = Len(T) /\ e = Len(t) /\ e = l + 2
  BY <1>1, LenProperties
<1>3. e = 2 + l /\ 2 \in 1..(e + 2) /\ e \in 2..e
  BY <1>2
<1> QED BY <1>1, <1>2, <1>3

LEMMA UnitPlaced ==
  ASSUME NEW texts, NEW means, WellFormed(texts, means), NEW f, Flattens(f, texts, Int),
         NEW t, IsQuoted(t, f[Len(texts)]), NEW k \in 1..Len(texts)
  PROVE  Placed(t, 2 + Len(f[k - 1]), texts[k], 2 + Len(f[k]))
<1> DEFINE n == Len(texts)
<1>1. texts \in Seq(Seq(Int)) /\ texts[k] \in Seq(Int) /\ Means(texts[k], means[k])
  BY ElementOfSeq DEF WellFormed
<1>2. /\ FoundAt(t, 2 + Len(f[k - 1]), texts[k]) /\ Len(f[k]) = Len(f[k - 1]) + Len(texts[k])
      /\ Len(f[k]) \in Nat /\ Len(f[k - 1]) \in Nat /\ Len(texts[k]) \in Nat
      /\ Len(f[k]) <= Len(f[n])
  <2>1. FoundAt(t, 2, f[Len(texts)])
    BY QuotedLength
  <2> QED BY <1>1, <2>1, UnitFound
<1>3. PICK a \in Nat, b \in Nat, z \in Nat :
        a = Len(f[k - 1]) /\ b = Len(texts[k]) /\ z = Len(f[k]) /\ z = a + b
  BY <1>2
<1>4. PICK l \in Nat, e \in Nat : l = Len(f[n]) /\ e = Len(t) /\ e = 2 + l
  <2>1. Len(t) \in Nat /\ Len(t) = 2 + Len(f[n])
    BY QuotedLength
  <2>2. Len(f[n]) \in Nat
    BY DEF IsQuoted
  <2> QED BY <2>1, <2>2
<1>5. z <= l
  BY <1>2, <1>3, <1>4
<1>6. 2 + a \in 2..e /\ 2 + z \in 2..e /\ 2 + z = (2 + a) + b
  <2>1. z = a + b /\ e = 2 + l
    BY <1>3, <1>4
  <2> QED BY <1>5, <2>1
<1>7. FoundAt(t, 2 + a, texts[k])
  BY <1>2, <1>3
<1>8. Placed(t, 2 + a, texts[k], 2 + z)
  BY <1>3, <1>4, <1>6, <1>7 DEF Placed
<1> QED BY <1>3, <1>8

\* The search goes from unit to unit up to the quote at the end.
LEMMA ClosingOfUnits ==
  ASSUME NEW texts, NEW means, WellFormed(texts, means), NEW f, Flattens(f, texts, Int),
         NEW t, IsQuoted(t, f[Len(texts)])
  PROVE  Closing(t, 2).at = Len(t)
<1> DEFINE n == Len(texts)
           At(k) == 2 + Len(f[k])
<1>1. /\ n \in Nat
      /\ \A k \in 1..n : texts[k] \in Seq(Int) /\ Means(texts[k], means[k])
  BY LenProperties, ElementOfSeq DEF WellFormed
<1>2. /\ t \in Seq(Int) /\ Len(t) \in Nat /\ Len(t) = At(n) /\ t[Len(t)] = Quote
      /\ 2 \in 1..(Len(t) + 2) /\ Len(t) \in 2..Len(t)
  BY QuotedLength
<1>3. PICK c : ClosingRun(c, t, 2) /\ Closing(t, 2) = c[2]
  BY <1>2, ClosingIsRun
<1> DEFINE T == {k \in 0..n : c[2].at = c[At(k)].at}
<1>4. 0 \in T
  <2>1. f[0] = <<>>
    BY DEF Flattens
  <2>2. At(0) = 2
    BY <2>1
  <2> QED BY <1>1, <2>2
<1>5. ASSUME NEW k \in 1..n, k - 1 \in T PROVE k \in T
  <2>1. PICK s, m : s \in Seq(Int) /\ s = texts[k] /\ m = means[k] /\ Means(s, m)
    BY <1>1
  <2>2. PICK q, r : q = At(k - 1) /\ r = At(k)
    OBVIOUS
  <2>3. Placed(t, q, s, r)
    BY <2>1, <2>2, UnitPlaced
  <2>4. q \in 2..Len(t) /\ FoundAt(t, q, s) /\ r = q + Len(s) /\ q + Len(s) <= Len(t) + 1
    <3>1. q \in 2..Len(t) /\ FoundAt(t, q, s) /\ r = q + Len(s) /\ r \in 2..Len(t)
      BY <2>3 DEF Placed
    <3>2. PICK e \in Nat : e = Len(t)
      BY <1>2
    <3>3. r <= e + 1
      <4>1. r \in 2..e
        BY <3>1, <3>2
      <4> QED BY <3>2, <4>1
    <3> QED BY <3>1, <3>2, <3>3
  <2>5. c[q].at = c[q + Len(s)].at
    <3>1. /\ t \in Seq(Int) /\ 2 \in 1..(Len(t) + 2) /\ ClosingRun(c, t, 2)
          /\ s \in Seq(Int) /\ Means(s, m)
      BY <1>2, <1>3, <2>1
    <3> QED BY <2>4, <3>1, ClosingUnit
  <2>6. c[2].at = c[q].at
    BY <1>5, <2>2
  <2>7. k \in 0..n /\ c[2].at = c[r].at
    BY <1>1, <2>4, <2>5, <2>6
  <2> QED BY <2>2, <2>7
<1>6. n \in T
  <2>1. \A k \in 0..n : k \in T
    <3> HIDE DEF T, n
    <3> QED BY <1>1, <1>4, <1>5, UpTo
  <2> QED BY <1>1, <2>1
<1>7. c[Len(t)].at = Len(t)
  <2>1. PICK e \in 2..Len(t) : e = Len(t) /\ t[e] = Quote
    BY <1>2
  <2>2. c[e].at = e
    BY <1>2, <1>3, <2>1, ClosingSame
  <2> QED BY <2>1, <2>2
<1> QED BY <1>2, <1>3, <1>6, <1>7

\* The units are decoded one after the other, up to the quote.
LEMMA DecodeOfUnits ==
  ASSUME NEW texts, NEW means, WellFormed(texts, means), NEW f, Flattens(f, texts, Int),
         NEW h, Flattens(h, means, Int), NEW t, IsQuoted(t, f[Len(texts)])
  PROVE  Decode(t, 2, Len(t)) = [ok |-> TRUE, out |-> h[Len(texts)]]
<1> DEFINE n == Len(texts)
           At(k) == 2 + Len(f[k])
           end == Len(t)
<1>1. /\ n \in Nat /\ means \in Seq(Seq(Int)) /\ Len(means) = n
      /\ \A k \in 1..n : /\ texts[k] \in Seq(Int) /\ means[k] \in Seq(Int)
                         /\ Means(texts[k], means[k])
  <2>1. /\ texts \in Seq(Seq(Int)) /\ means \in Seq(Seq(Int)) /\ Len(means) = n
        /\ \A k \in 1..n : Means(texts[k], means[k])
    BY DEF WellFormed
  <2>2. n \in Nat /\ \A k \in 1..n : texts[k] \in Seq(Int) /\ means[k] \in Seq(Int)
    BY <2>1, LenProperties, ElementOfSeq
  <2> QED BY <2>1, <2>2
<1>2. t \in Seq(Int) /\ end \in Nat /\ end = At(n) /\ end \in 2..end
  BY QuotedLength
<1>3. end \in 1..Len(t) /\ 2 \in 1..(end + 1)
  BY <1>2
<1>4. PICK g : DecodeRun(g, t, 2, end) /\ Decode(t, 2, end) = g[2]
  BY <1>2, <1>3, DecodeIsRun
<1>5. \A q \in 2..(end + 1) : g[q] \in Decoded
  <2>1. PICK c : ClosingRun(c, t, 2)
    BY <1>2, <1>3, ClosingIsRun
  <2> QED BY <1>2, <1>3, <1>4, <2>1, DecodedWithin DEF Within
<1>6. \A k \in 0..n : h[k] \in Seq(Int)
  BY <1>1 DEF Flattens
<1> DEFINE T == {k \in 0..n : After(g[2], h[k], g[At(k)])}
<1>7. 0 \in T
  <2>1. f[0] = <<>> /\ h[0] = <<>>
    BY DEF Flattens
  <2>2. At(0) = 2
    BY <2>1
  <2>3. PICK o \in Seq(Int) : o = g[2].out
    <3>1. 2 \in 2..(end + 1)
      BY <1>2
    <3> QED BY <1>5, <3>1 DEF Decoded
  <2>4. <<>> \o o = o
    BY ConcatEmptySeq
  <2>5. g[2].ok = g[2].ok /\ g[2].out = <<>> \o g[2].out
    BY <2>3, <2>4
  <2>6. After(g[2], <<>>, g[2])
    BY <2>5 DEF After
  <2>7. 0 \in 0..n
    BY <1>1
  <2> QED BY <2>1, <2>2, <2>6, <2>7
<1>8. ASSUME NEW k \in 1..n, k - 1 \in T PROVE k \in T
  <2>1. PICK s \in Seq(Int), m \in Seq(Int) : s = texts[k] /\ m = means[k] /\ Means(s, m)
    BY <1>1
  <2>2. PICK q, r : q = At(k - 1) /\ r = At(k)
    OBVIOUS
  <2>3. Placed(t, q, s, r)
    BY <2>1, <2>2, UnitPlaced
  <2>4. q \in 2..end /\ FoundAt(t, q, s) /\ r = q + Len(s) /\ r <= end /\ r \in 2..(end + 1)
    <3>1. q \in 2..end /\ FoundAt(t, q, s) /\ r = q + Len(s) /\ r \in 2..end
      BY <2>3 DEF Placed
    <3>2. PICK e \in Nat : e = end
      BY <1>2
    <3>3. r \in 2..e
      BY <3>1, <3>2
    <3>4. r <= e /\ r \in 2..(e + 1)
      BY <3>2, <3>3
    <3> QED BY <3>1, <3>2, <3>4
  <2>5. g[r] \in Decoded /\ h[k - 1] \in Seq(Int)
    <3>1. k - 1 \in 0..n
      BY <1>1
    <3> QED BY <1>5, <1>6, <2>4, <3>1
  <2>6. /\ q + Len(s) <= end /\ 2 \in Int /\ q \in 2..end /\ FoundAt(t, q, s)
        /\ g[q + Len(s)] \in Decoded
    BY <2>4, <2>5
  <2>7. After(g[q], m, g[r])
    <3>1. t \in Seq(Int) /\ end \in Int /\ DecodeRun(g, t, 2, end) /\ Means(s, m)
      BY <1>2, <1>4, <2>1
    <3> HIDE DEF end
    <3>2. After(g[q], m, g[q + Len(s)])
      BY <2>6, <3>1, DecodeUnit
    <3> QED BY <2>4, <3>2
  <2>8. After(g[2], h[k - 1], g[q])
    BY <1>8, <2>2
  <2>9. After(g[2], h[k - 1] \o m, g[r])
    BY <2>5, <2>7, <2>8, AfterAfter
  <2>10. h[k] = h[k - 1] \o m
    BY <1>1, <2>1 DEF Flattens
  <2>11. k \in 0..n
    BY <1>1
  <2>12. After(g[2], h[k], g[r])
    BY <2>9, <2>10
  <2> QED BY <2>2, <2>11, <2>12
<1>9. n \in T
  <2>1. \A k \in 0..n : k \in T
    <3> HIDE DEF T, n
    <3> QED BY <1>1, <1>7, <1>8, UpTo
  <2> QED BY <1>1, <2>1
<1>10. g[end] = [ok |-> TRUE, out |-> <<>>]
  <2>1. Steps(t, g, end, end)
    <3>1. end \in 2..(end + 1) /\ 2 \in Int
      BY <1>2
    <3> HIDE DEF end
    <3> QED BY <1>2, <1>4, <3>1, DecodeRunSteps
  <2>2. end >= end
    BY <1>2
  <2> QED BY <2>1, <2>2, Zenon DEF Steps
<1>11. g[2].ok = TRUE /\ g[2].out = h[n]
  <2>1. After(g[2], h[n], g[end])
    BY <1>2, <1>9
  <2>2. h[n] \o <<>> = h[n]
    BY <1>1, <1>6, ConcatEmptySeq
  <2> QED BY <1>10, <2>1, <2>2 DEF After
<1>12. g[2] \in Decoded
  <2>1. 2 \in 2..(end + 1)
    BY <1>2
  <2> QED BY <1>5, <2>1
<1> QED BY <1>4, <1>11, <1>12 DEF Decoded

\* A literal of units that mean something is decoded to what they mean, up to its
\* end.
LEMMA UnitsDecoded ==
  ASSUME NEW texts, NEW means, WellFormed(texts, means), NEW t, IsQuoted(t, FlattenSeq(texts))
  PROVE  LET r == ParseString(t, 1) IN
         r.ok /\ r.out = FlattenSeq(means) /\ r.at = Len(t) + 1
<1>1. texts \in Seq(Seq(Int)) /\ means \in Seq(Seq(Int)) /\ Len(means) = Len(texts)
  BY DEF WellFormed
<1>2. PICK f : Flattens(f, texts, Int) /\ FlattenSeq(texts) = f[Len(texts)]
  BY <1>1, FlattenRun
<1>3. PICK h : Flattens(h, means, Int) /\ FlattenSeq(means) = h[Len(texts)]
  BY <1>1, FlattenRun
<1>4. IsQuoted(t, f[Len(texts)])
  BY <1>2
<1>5. Closing(t, 2).at = Len(t)
  BY <1>2, <1>4, ClosingOfUnits
<1>6. Decode(t, 2, Len(t)) = [ok |-> TRUE, out |-> h[Len(texts)]]
  BY <1>2, <1>3, <1>4, DecodeOfUnits
<1>7. t[1] = Quote /\ Len(t) # 0 /\ 1 + 1 = 2
  <2>1. Len(t) \in 2..Len(t)
    BY <1>4, QuotedLength
  <2>2. t[1] = Quote
    BY DEF IsQuoted
  <2>3. Len(t) \in Nat
    BY <1>4, QuotedLength
  <2> QED BY <2>1, <2>2, <2>3
<1> DEFINE closing == Closing(t, 1 + 1)
           d == Decode(t, 1 + 1, closing.at)
           r == ParseString(t, 1)
<1>8. ~(t[1] # Quote \/ closing.at = 0)
  BY <1>5, <1>7
<1>9. r = [ok |-> d.ok, out |-> d.out, room |-> Allocated(t, 1, closing), at |-> closing.at + 1]
  BY <1>8 DEF ParseString
<1>10. d = [ok |-> TRUE, out |-> h[Len(texts)]] /\ closing.at = Len(t)
  BY <1>5, <1>6, <1>7
<1> HIDE DEF d, closing
<1>11. r.ok = TRUE /\ r.out = h[Len(texts)] /\ r.at = Len(t) + 1
  BY <1>9, <1>10
<1> QED BY <1>3, <1>11

\* A text of bytes between two quotes.
LEMMA QuotedIs ==
  ASSUME NEW T \in Seq(Int)
  PROVE  /\ IsQuoted((<<Quote>> \o T) \o <<Quote>>, T)
         /\ IsQuoted(Append(<<Quote>> \o T, Quote), T)
<1>1. PICK q : q = <<Quote>>
  OBVIOUS
<1>2. q \in Seq(Int) /\ Len(q) = 1 /\ q[1] = Quote
  BY <1>1 DEF Quote
<1>3. PICK b : b = q \o T
  OBVIOUS
<1>4. Joins(b, q, T, Int)
  BY <1>2, <1>3, ConcatJoins
<1>5. b \in Seq(Int)
  BY <1>4, Zenon DEF Joins
<1>6. PICK t : t = b \o q
  OBVIOUS
<1>7. Joins(t, b, q, Int)
  BY <1>2, <1>5, <1>6, ConcatJoins
<1>8. /\ Len(T) \in Nat /\ Len(b) = 1 + Len(T) /\ b[1] = Quote
      /\ \A j \in 1..Len(T) : b[1 + j] = T[j]
  <2>1. /\ Len(T) \in Nat /\ Len(b) = Len(q) + Len(T)
        /\ \A j \in 1..Len(q) : b[j] = q[j]
        /\ \A j \in 1..Len(T) : b[Len(q) + j] = T[j]
    BY <1>4, Zenon DEF Joins
  <2>2. 1 \in 1..1
    OBVIOUS
  <2> QED BY <1>2, <2>1, <2>2
<1>9. /\ t \in Seq(Int) /\ Len(t) = Len(b) + 1 /\ t[Len(b) + 1] = Quote
      /\ \A j \in 1..Len(b) : t[j] = b[j]
  <2>1. /\ t \in Seq(Int) /\ Len(t) = Len(b) + Len(q)
        /\ \A j \in 1..Len(b) : t[j] = b[j]
        /\ \A j \in 1..Len(q) : t[Len(b) + j] = q[j]
    BY <1>7, Zenon DEF Joins
  <2>2. 1 \in 1..1
    OBVIOUS
  <2> QED BY <1>2, <2>1, <2>2
<1>10. PICK l \in Nat : l = Len(T)
  BY <1>8
<1>11. Len(b) = 1 + l /\ Len(t) = l + 2 /\ 1 \in 1..Len(b)
  BY <1>8, <1>9, <1>10
<1>12. t[1] = Quote /\ t[Len(t)] = Quote
  BY <1>8, <1>9, <1>10, <1>11
<1>13. FoundAt(t, 2, T)
  <2> SUFFICES ASSUME NEW j \in 1..l PROVE t[2 + j - 1] = T[j]
    BY <1>10 DEF FoundAt
  <2>1. 1 + j \in 1..Len(b) /\ 2 + j - 1 = 1 + j
    BY <1>11
  <2> QED BY <1>8, <1>9, <1>10, <2>1
<1>14. IsQuoted(t, T)
  BY <1>9, <1>10, <1>11, <1>12, <1>13 DEF IsQuoted
<1>15. Append(b, Quote) = b \o <<Quote>>
  <2>1. Quote \in Int
    BY DEF Quote
  <2> QED BY <1>5, <2>1, AppendIsConcat
<1> QED BY <1>1, <1>3, <1>6, <1>14, <1>15
-----------------------------------------------------------------------------
(* What a string is printed as. *)

\* How many bytes more than one a byte is printed as.
Extra(b) ==
  IF b \in {Quote, Backslash} \cup {Short[x] : x \in DOMAIN Short} THEN 1
  ELSE IF b < 32 THEN 5 ELSE 0

LEMMA ShortBytes ==
  /\ DOMAIN Short = {98, 102, 110, 114, 116}
  /\ Short[98] = 8 /\ Short[102] = 12 /\ Short[110] = 10 /\ Short[114] = 13 /\ Short[116] = 9
  /\ {Short[x] : x \in DOMAIN Short} = {8, 12, 10, 13, 9}
<1>1. DOMAIN Short = {98, 102, 110, 114, 116}
  BY DEF Short
<1>2. Short[98] = 8 /\ Short[102] = 12 /\ Short[110] = 10 /\ Short[114] = 13 /\ Short[116] = 9
  BY DEF Short
<1>3. {Short[x] : x \in DOMAIN Short} = {8, 12, 10, 13, 9}
  BY <1>1, <1>2
<1> QED BY <1>1, <1>2, <1>3

\* What is printed for a byte means that byte.
PrintsAs(s, b) ==
  s \in Seq(Int) /\ Means(s, <<b>>) /\ Len(s) = 1 + Extra(b)

LEMMA LetterPrinted ==
  ASSUME NEW x \in Letters, x[2] \in {Quote, Backslash} \cup {Short[y] : y \in DOMAIN Short}
  PROVE  PrintsAs(<<Backslash, x[1]>>, x[2])
<1>1. x[1] \in Int
  BY DEF Letters
<1>2. PICK s : s = <<Backslash, x[1]>>
  OBVIOUS
<1>3. s \in Seq(Int) /\ Len(s) = 2 /\ s[1] = Backslash /\ s[2] = x[1]
  BY <1>1, <1>2 DEF Backslash
<1>4. Means(s, <<x[2]>>)
  BY <1>3 DEF Means
<1>5. Extra(x[2]) = 1
  BY DEF Extra
<1> QED BY <1>2, <1>3, <1>4, <1>5 DEF PrintsAs

LEMMA PlainPrinted ==
  ASSUME NEW b \in Nat, 32 <= b, b \notin {Quote, Backslash}
  PROVE  PrintsAs(<<b>>, b)
<1>1. PICK s : s = <<b>>
  OBVIOUS
<1>2. s \in Seq(Int) /\ Len(s) = 1 /\ s[1] = b
  BY <1>1
<1>3. Means(s, s)
  BY <1>2 DEF Means
<1>4. Extra(b) = 0
  BY ShortBytes DEF Extra
<1> QED BY <1>1, <1>2, <1>3, <1>4 DEF PrintsAs

LEMMA HexIs ==
  ASSUME NEW d \in 0..15
  PROVE  Hex(d) \in Int /\ Hex(d) \in DigitBytes[d]
<1>1. DigitBytes[d] = IF d < 10 THEN {48 + d} ELSE {55 + d, 87 + d}
  BY DEF DigitBytes
<1> QED BY <1>1 DEF Hex

LEMMA TwoDigits ==
  ASSUME NEW b \in Nat, b < 32
  PROVE  b \div 16 \in 0..15 /\ b % 16 \in 0..15 /\ (b \div 16) * 16 + (b % 16) = b
OBVIOUS

LEMMA ControlPrinted ==
  ASSUME NEW b \in Nat, b < 32, b \notin {Short[y] : y \in DOMAIN Short}
  PROVE  PrintsAs(<<Backslash, LetterU, 48, 48, Hex(b \div 16), Hex(b % 16)>>, b)
<1>1. PICK x \in 0..15, y \in 0..15 : x = b \div 16 /\ y = b % 16 /\ x * 16 + y = b
  <2>1. b \div 16 \in 0..15 /\ b % 16 \in 0..15 /\ (b \div 16) * 16 + (b % 16) = b
    BY TwoDigits
  <2> QED BY <2>1
<1>2. PICK s : s = <<Backslash, LetterU, 48, 48, Hex(x), Hex(y)>>
  OBVIOUS
<1>3. /\ s[1] = Backslash /\ s[2] = LetterU /\ s[3] = 48 /\ s[4] = 48
      /\ s[5] = Hex(x) /\ s[6] = Hex(y) /\ Len(s) = 6
  BY <1>2
<1>4. s \in Seq(Int)
  <2>1. Hex(x) \in Int /\ Hex(y) \in Int /\ Backslash \in Int /\ LetterU \in Int
    BY HexIs DEF Backslash, LetterU
  <2> QED BY <1>2, <2>1
<1>5. /\ s[3] \in DigitBytes[0] /\ s[4] \in DigitBytes[0]
      /\ s[5] \in DigitBytes[x] /\ s[6] \in DigitBytes[y]
  <2>1. 48 \in DigitBytes[0]
    BY DEF DigitBytes
  <2> QED BY <1>3, <2>1, HexIs
<1>6. HexAt(s, 1)
  <2>1. \A k \in 2..5 : k = 2 \/ k = 3 \/ k = 4 \/ k = 5
    OBVIOUS
  <2>2. \A k \in 2..5 : \E d \in 0..15 : s[1 + k] \in DigitBytes[d]
    <3> SUFFICES ASSUME NEW k \in 2..5 PROVE \E d \in 0..15 : s[1 + k] \in DigitBytes[d]
      OBVIOUS
    <3>1. 0 \in 0..15 /\ 1 + 2 = 3 /\ 1 + 3 = 4 /\ 1 + 4 = 5 /\ 1 + 5 = 6
      OBVIOUS
    <3> QED BY <1>5, <2>1, <3>1
  <2>3. s[1] = Backslash /\ s[1 + 1] = LetterU
    BY <1>3
  <2> QED BY <2>2, <2>3, Zenon DEF HexAt
<1>7. Number(s, 3) = b
  <2>1. /\ (CHOOSE d \in 0..15 : s[3] \in DigitBytes[d]) = 0
        /\ (CHOOSE d \in 0..15 : s[4] \in DigitBytes[d]) = 0
        /\ (CHOOSE d \in 0..15 : s[5] \in DigitBytes[d]) = x
        /\ (CHOOSE d \in 0..15 : s[6] \in DigitBytes[d]) = y
    <3>1. 0 \in 0..15
      OBVIOUS
    <3> QED BY <1>5, <3>1, DigitOfByte
  <2>2. 3 + 0 = 3 /\ 3 + 1 = 4 /\ 3 + 2 = 5 /\ 3 + 3 = 6
    OBVIOUS
  <2> DEFINE v(k) == CHOOSE d \in 0..15 : s[3 + k] \in DigitBytes[d]
  <2>3. v(0) = 0 /\ v(1) = 0 /\ v(2) = x /\ v(3) = y
    BY <2>1, <2>2
  <2>4. Number(s, 3) = v(0) * 4096 + v(1) * 256 + v(2) * 16 + v(3)
    BY DEF Number
  <2> HIDE DEF v
  <2>5. Number(s, 3) = 0 * 4096 + 0 * 256 + x * 16 + y
    BY <2>3, <2>4
  <2> QED BY <1>1, <2>5
<1>8. PICK m : m = <<b>>
  OBVIOUS
<1>9. Encodes(m, b)
  <2>1. Len(m) = 1 /\ m[1] = b
    BY <1>8
  <2>2. \A k \in 2..Len(m) : FALSE
    BY <2>1
  <2>3. 0 <= b /\ b <= 127
    OBVIOUS
  <2> QED BY <2>1, <2>2, <2>3 DEF Encodes
<1>10. Means(s, m)
  <2>1. Number(s, 3) < 55296 \/ Number(s, 3) > 57343
    BY <1>7
  <2>2. Encodes(m, Number(s, 3))
    BY <1>7, <1>9
  <2> QED BY <1>3, <1>6, <2>1, <2>2 DEF Means
<1>11. Extra(b) = 5
  <2>1. b \notin {Quote, Backslash}
    BY DEF Quote, Backslash
  <2> QED BY <2>1 DEF Extra
<1> QED BY <1>1, <1>2, <1>3, <1>4, <1>8, <1>10, <1>11 DEF PrintsAs

LEMMA EscapedPrints ==
  ASSUME NEW b \in Nat
  PROVE  PrintsAs(Escaped(b), b)
<1>1. CASE b \in {Quote, Backslash}
  <2>1. PICK x \in Letters : x[1] = b /\ x[2] = b
    <3>1. <<34, 34>> \in Letters /\ <<92, 92>> \in Letters
      BY DEF Letters
    <3>2. b = 34 \/ b = 92
      BY <1>1 DEF Quote, Backslash
    <3> QED BY <3>1, <3>2
  <2>2. Escaped(b) = <<Backslash, b>>
    <3>1. b \in {Quote, Backslash} /\ ~(\E y \in DOMAIN Short : Short[y] = b) /\ ~(b < 32)
      <4>1. b = 34 \/ b = 92
        BY <1>1 DEF Quote, Backslash
      <4>2. b \notin {Short[y] : y \in DOMAIN Short}
        BY <4>1, ShortBytes
      <4> QED BY <1>1, <4>1, <4>2
    <3> QED BY <3>1, Zenon DEF Escaped
  <2> QED BY <1>1, <2>1, <2>2, LetterPrinted
<1>2. CASE b \notin {Quote, Backslash} /\ \E y \in DOMAIN Short : Short[y] = b
  <2>1. PICK l : l = CHOOSE y \in DOMAIN Short : Short[y] = b
    OBVIOUS
  <2>2. l \in DOMAIN Short /\ Short[l] = b
    BY <1>2, <2>1
  <2>3. PICK x \in Letters : x[1] = l /\ x[2] = b
    <3>1. /\ <<98, 8>> \in Letters /\ <<102, 12>> \in Letters /\ <<110, 10>> \in Letters
          /\ <<114, 13>> \in Letters /\ <<116, 9>> \in Letters
      BY DEF Letters
    <3>2. \/ l = 98 /\ b = 8
          \/ l = 102 /\ b = 12
          \/ l = 110 /\ b = 10
          \/ l = 114 /\ b = 13
          \/ l = 116 /\ b = 9
      <4>1. l \in {98, 102, 110, 114, 116}
        BY <2>2, ShortBytes
      <4>2. l = 98 \/ l = 102 \/ l = 110 \/ l = 114 \/ l = 116
        BY <4>1
      <4>3. /\ Short[98] = 8 /\ Short[102] = 12 /\ Short[110] = 10
            /\ Short[114] = 13 /\ Short[116] = 9
        BY ShortBytes, Zenon
      <4> QED BY <2>2, <4>2, <4>3
    <3> QED BY <3>1, <3>2
  <2>4. Escaped(b) = <<Backslash, l>>
    BY <1>2, <2>1, Zenon DEF Escaped
  <2>5. x[2] \in {Short[y] : y \in DOMAIN Short}
    BY <2>2, <2>3
  <2> QED BY <2>3, <2>4, <2>5, LetterPrinted
<1>3. CASE b \notin {Quote, Backslash} /\ ~(\E y \in DOMAIN Short : Short[y] = b) /\ b < 32
  <2>1. Escaped(b) = <<Backslash, LetterU, 48, 48, Hex(b \div 16), Hex(b % 16)>>
    BY <1>3, Zenon DEF Escaped
  <2>2. b \notin {Short[y] : y \in DOMAIN Short}
    BY <1>3
  <2> QED BY <1>3, <2>1, <2>2, ControlPrinted
<1>4. CASE b \notin {Quote, Backslash} /\ ~(\E y \in DOMAIN Short : Short[y] = b) /\ ~(b < 32)
  <2>1. Escaped(b) = <<b>>
    BY <1>4, Zenon DEF Escaped
  <2>2. 32 <= b
    BY <1>4
  <2> QED BY <1>4, <2>1, <2>2, PlainPrinted
<1> QED BY <1>1, <1>2, <1>3, <1>4

\* How many bytes are counted after each byte of s.
Counted(n, b) ==
  IF b \in {Quote, Backslash} \cup {Short[x] : x \in DOMAIN Short} THEN n + 1
  ELSE IF b < 32 THEN n + 5 ELSE n

LEMMA CountedIs ==
  ASSUME NEW n \in Nat, NEW b \in Nat
  PROVE  Extra(b) \in Nat /\ Counted(n, b) = n + Extra(b) /\ Counted(n, b) \in Nat
<1>1. Extra(b) \in Nat /\ Counted(n, b) = n + Extra(b)
  BY DEF Counted, Extra
<1> QED BY <1>1

LEMMA EscapeRun ==
  ASSUME NEW s \in Seq(Nat)
  PROVE  \E r : /\ IsRun(r, Len(s), Nat, 0)
                /\ \A k \in 1..Len(s) : r[k] = r[k - 1] + Extra(s[k])
                /\ EscapeCharacters(s) = r[Len(s)]
<1> DEFINE F == [p \in Nat \X Nat |-> Counted(p[1], p[2])]
           G(g) == [x \in SUBSET DOMAIN s |->
                      IF x = {} THEN 0 ELSE Counted(g[x \ {Max(x)}], s[Max(x)])]
           iter == CHOOSE g : g = G(g)
<1>1. Len(s) \in Nat /\ DOMAIN s = 1..Len(s)
  BY LenProperties
<1>2. \A v \in Nat, e \in Nat : Counted(v, e) \in Nat /\ F[<<v, e>>] = Counted(v, e)
  BY CountedIs
<1>3. F \in [Nat \X Nat -> Nat]
  BY <1>2
<1> HIDE DEF F
<1>4. PICK it : LeftFold(it, Nat, 0, s, F)
  BY <1>1, <1>3, FoldLeftExists
<1>5. it = G(it)
  <2>1. it \in [SUBSET DOMAIN s -> Nat]
    BY <1>4 DEF LeftFold
  <2>2. ASSUME NEW x \in SUBSET DOMAIN s, x # {}
        PROVE  F[<<it[x \ {Max(x)}], s[Max(x)]>>] = Counted(it[x \ {Max(x)}], s[Max(x)])
    <3>1. Max(x) \in 1..Len(s)
      BY <1>1, <2>2, MaxOf
    <3>2. s[Max(x)] \in Nat /\ it[x \ {Max(x)}] \in Nat
      BY <1>1, <2>1, <3>1, ElementOfSeq
    <3> QED BY <1>2, <3>2
  <2> QED BY <1>4, <2>2 DEF LeftFold
<1>6. iter = G(iter)
  BY <1>5
<1>7. EscapeCharacters(s) = iter[DOMAIN s]
  BY DEF FoldLeft, MapThenFoldSet, EscapeCharacters, Counted
<1> HIDE DEF iter
<1>8. iter[{}] = 0
  BY <1>6
<1> HIDE DEF G
<1>9. ASSUME NEW k \in 1..Len(s)
      PROVE  iter[1..k] = Counted(iter[(1..k) \ {k}], s[k])
  <2>1. k \in Nat \ {0} /\ k \in 1..k /\ \A j \in 1..k : j \in 1..Len(s)
    BY <1>1
  <2>2. 1..k \in SUBSET DOMAIN s /\ 1..k # {}
    BY <1>1, <2>1, Zenon
  <2>3. Max(1..k) = k
    BY <2>1, MaxUpTo
  <2> DEFINE x == 1..k
  <2> HIDE DEF x
  <2>4. iter[x] = Counted(iter[x \ {Max(x)}], s[Max(x)])
    BY <1>6, <2>2 DEF G, x
  <2> QED BY <2>3, <2>4 DEF x
<1>10. ASSUME NEW k \in 1..Len(s), iter[(1..k) \ {k}] \in Nat
       PROVE  iter[1..k] = iter[(1..k) \ {k}] + Extra(s[k]) /\ iter[1..k] \in Nat
  <2>1. s[k] \in Nat
    BY <1>1, ElementOfSeq
  <2> DEFINE v == iter[(1..k) \ {k}]
             e == s[k]
  <2>2. iter[1..k] = Counted(v, e)
    BY <1>9
  <2>3. v \in Nat /\ e \in Nat
    BY <1>10, <2>1
  <2> HIDE DEF v, e
  <2>4. Counted(v, e) = v + Extra(e) /\ Counted(v, e) \in Nat
    BY <1>2, <2>3, CountedIs
  <2> QED BY <2>2, <2>4 DEF v, e
<1>11. 0 \in Nat /\ StaysIn(iter, Len(s), Nat)
  BY <1>10 DEF StaysIn
<1> DEFINE r == RunOf(iter, Len(s))
<1>12. /\ IsRun(r, Len(s), Nat, 0)
       /\ FollowsRun(iter, r, Len(s))
       /\ r[Len(s)] = iter[1..Len(s)]
  <2> DEFINE W == Nat
             b == 0
  <2>1. b \in W /\ iter[{}] = b /\ StaysIn(iter, Len(s), W)
    BY <1>8, <1>11
  <2> HIDE DEF W, b
  <2>2. /\ IsRun(r, Len(s), W, b)
        /\ FollowsRun(iter, r, Len(s))
        /\ r[Len(s)] = iter[1..Len(s)]
    BY <1>1, <2>1, RunOfFold
  <2> QED BY <2>2 DEF W, b
<1> HIDE DEF r
<1>13. ASSUME NEW k \in 1..Len(s) PROVE r[k] = r[k - 1] + Extra(s[k])
  <2>1. k - 1 \in 0..Len(s)
    BY <1>1
  <2> QED BY <1>10, <1>12, <2>1 DEF FollowsRun, IsRun
<1> QED BY <1>1, <1>7, <1>12, <1>13

\* What is printed for each byte of s, and what each piece of it means.
PrintedBytes(s) == [k \in 1..Len(s) |-> Escaped(s[k])]
Singles(s) == [k \in 1..Len(s) |-> <<s[k]>>]

LEMMA PrintedWellFormed ==
  ASSUME NEW s \in Seq(Nat)
  PROVE  /\ WellFormed(PrintedBytes(s), Singles(s))
         /\ Len(PrintedBytes(s)) = Len(s) /\ Len(s) \in Nat
         /\ \A k \in 1..Len(s) : Len(PrintedBytes(s)[k]) = 1 + Extra(s[k])
<1>1. Len(s) \in Nat /\ \A k \in 1..Len(s) : s[k] \in Nat
  BY LenProperties, ElementOfSeq
<1>2. \A k \in 1..Len(s) : PrintsAs(Escaped(s[k]), s[k])
  BY <1>1, EscapedPrints
<1>3. PICK n \in Nat : n = Len(s)
  BY <1>1
<1>4. \A k \in 1..n : Escaped(s[k]) \in Seq(Int) /\ <<s[k]>> \in Seq(Int)
  <2>1. \A k \in 1..n : Escaped(s[k]) \in Seq(Int)
    BY <1>2, <1>3 DEF PrintsAs
  <2>2. ASSUME NEW k \in 1..n PROVE <<s[k]>> \in Seq(Int)
    <3>1. s[k] \in Int
      BY <1>1, <1>3
    <3> QED BY <3>1
  <2> QED BY <2>1, <2>2
<1>5. PICK texts, means : texts = PrintedBytes(s) /\ means = Singles(s)
  OBVIOUS
<1>6. /\ texts = [k \in 1..n |-> Escaped(s[k])]
      /\ means = [k \in 1..n |-> <<s[k]>>]
  BY <1>3, <1>5 DEF PrintedBytes, Singles
<1>7. texts \in [1..n -> Seq(Int)] /\ means \in [1..n -> Seq(Int)]
  BY <1>4, <1>6, Zenon
<1>8. /\ texts \in Seq(Seq(Int)) /\ Len(texts) = n
      /\ means \in Seq(Seq(Int)) /\ Len(means) = n
  <2> DEFINE V == Seq(Int)
  <2>1. texts \in [1..n -> V] /\ means \in [1..n -> V]
    BY <1>7
  <2> HIDE DEF V
  <2>2. texts \in Seq(V) /\ Len(texts) = n /\ means \in Seq(V) /\ Len(means) = n
    BY <1>3, <2>1, IsSequence
  <2> QED BY <2>2 DEF V
<1>9. \A k \in 1..n : Means(texts[k], means[k]) /\ Len(texts[k]) = 1 + Extra(s[k])
  BY <1>2, <1>3, <1>6 DEF PrintsAs
<1> QED BY <1>1, <1>3, <1>5, <1>8, <1>9 DEF WellFormed

\* One byte of each piece come to the string itself.
LEMMA SinglesJoin ==
  ASSUME NEW s \in Seq(Nat)
  PROVE  FlattenSeq(Singles(s)) = s
<1>1. PICK n \in Nat : n = Len(s) /\ \A k \in 1..n : s[k] \in Nat
  BY LenProperties, ElementOfSeq
<1>2. PICK q : q = Singles(s)
  OBVIOUS
<1>3. q = [k \in 1..n |-> <<s[k]>>]
  BY <1>1, <1>2 DEF Singles
<1>4. q \in Seq(Seq(Nat)) /\ Len(q) = n /\ \A k \in 1..n : q[k] = <<s[k]>>
  <2>1. \A k \in 1..n : <<s[k]>> \in Seq(Nat)
    BY <1>1
  <2>2. q \in [1..n -> Seq(Nat)]
    BY <1>3, <2>1, Zenon
  <2>3. q \in Seq(Seq(Nat)) /\ Len(q) = n
    <3> DEFINE V == Seq(Nat)
    <3>1. q \in [1..n -> V]
      BY <2>2
    <3> HIDE DEF V
    <3>2. q \in Seq(V) /\ Len(q) = n
      BY <1>1, <3>1, IsSequence
    <3> QED BY <3>2 DEF V
  <2> QED BY <1>3, <2>3
<1>5. PICK h : Flattens(h, q, Nat) /\ FlattenSeq(q) = h[n]
  BY <1>4, FlattenRun
<1> DEFINE T == {k \in 0..n : Len(h[k]) = k}
<1>6. \A k \in 1..n : Joins(h[k], h[k - 1], q[k], Nat)
  BY <1>4, <1>5, FlattenStep
<1>7. \A k \in 1..n : /\ Len(h[k - 1]) \in Nat /\ Len(h[k]) = Len(h[k - 1]) + 1
                      /\ h[k][Len(h[k - 1]) + 1] = s[k]
  <2> SUFFICES ASSUME NEW k \in 1..n
               PROVE  /\ Len(h[k - 1]) \in Nat /\ Len(h[k]) = Len(h[k - 1]) + 1
                      /\ h[k][Len(h[k - 1]) + 1] = s[k]
    OBVIOUS
  <2>1. Len(q[k]) = 1 /\ q[k][1] = s[k] /\ 1 \in 1..1
    <3>1. q[k] = <<s[k]>>
      BY <1>4
    <3> QED BY <3>1
  <2>2. /\ Len(h[k - 1]) \in Nat /\ Len(h[k]) = Len(h[k - 1]) + Len(q[k])
        /\ \A j \in 1..Len(q[k]) : h[k][Len(h[k - 1]) + j] = q[k][j]
    BY <1>6, Zenon DEF Joins
  <2> QED BY <2>1, <2>2
<1>8. 0 \in T
  <2>1. h[0] = <<>>
    BY <1>5, Zenon DEF Flattens
  <2> QED BY <1>1, <2>1
<1>9. \A k \in 1..n : k - 1 \in T => k \in T
  BY <1>1, <1>7
<1>10. \A k \in 0..n : k \in T
  <2> HIDE DEF T
  <2> QED BY <1>8, <1>9, UpTo
<1>11. \A k \in 0..n : /\ Len(h[k]) = k /\ Len(h[k]) <= Len(h[n]) /\ h[k] \in Seq(Nat)
                       /\ \A i \in 1..Len(h[k]) : h[n][i] = h[k][i]
  <2>1. \A k \in 0..n : /\ Len(h[k]) <= Len(h[n]) /\ h[k] \in Seq(Nat)
                        /\ \A i \in 1..Len(h[k]) : h[n][i] = h[k][i]
    BY <1>4, <1>5, FlattenPrefix
  <2> QED BY <1>10, <2>1
<1>12. ASSUME NEW k \in 1..n PROVE h[n][k] = s[k]
  <2>1. k \in 0..n /\ k - 1 \in 0..n /\ k \in 1..k /\ (k - 1) + 1 = k
    BY <1>1
  <2>2. h[k][k] = s[k]
    BY <1>7, <1>11, <2>1
  <2> QED BY <1>11, <2>1, <2>2
<1>13. n \in 0..n
  BY <1>1
<1>14. h[n] \in Seq(Nat) /\ Len(h[n]) = Len(s)
  BY <1>1, <1>11, <1>13
<1>15. h[n] = s
  BY <1>1, <1>12, <1>14, SeqEqual
<1> QED BY <1>2, <1>5, <1>15

\* As many bytes are printed between the quotes as were counted.
LEMMA PrintedLength ==
  ASSUME NEW s \in Seq(Nat)
  PROVE  /\ FlattenSeq(PrintedBytes(s)) \in Seq(Int) /\ EscapeCharacters(s) \in Nat
         /\ Len(FlattenSeq(PrintedBytes(s))) = Len(s) + EscapeCharacters(s)
<1>1. PICK n \in Nat : n = Len(s)
  BY LenProperties
<1>2. PICK q : q = PrintedBytes(s)
  OBVIOUS
<1>3. /\ q \in Seq(Seq(Int)) /\ Len(q) = n
      /\ \A k \in 1..n : Len(q[k]) = 1 + Extra(s[k])
  BY <1>1, <1>2, PrintedWellFormed DEF WellFormed
<1>4. PICK f : Flattens(f, q, Int) /\ FlattenSeq(q) = f[n]
  BY <1>3, FlattenRun
<1>5. PICK r : /\ IsRun(r, n, Nat, 0)
               /\ \A k \in 1..n : r[k] = r[k - 1] + Extra(s[k])
               /\ EscapeCharacters(s) = r[n]
  BY <1>1, EscapeRun
<1>6. r[0] = 0 /\ \A k \in 0..n : r[k] \in Nat
  BY <1>5 DEF IsRun
<1> DEFINE T == {k \in 0..n : Len(f[k]) = k + r[k]}
<1>7. 0 \in T
  <2>1. f[0] = <<>>
    BY <1>4, Zenon DEF Flattens
  <2>2. r[0] = 0 /\ 0 \in 0..n
    BY <1>6
  <2> QED BY <2>1, <2>2
<1>8. ASSUME NEW k \in 1..n, k - 1 \in T PROVE k \in T
  <2>1. Joins(f[k], f[k - 1], q[k], Int)
    BY <1>3, <1>4, FlattenStep
  <2>2. Len(f[k]) = Len(f[k - 1]) + Len(q[k])
    BY <2>1, Zenon DEF Joins
  <2>3. PICK x \in Int : x = Extra(s[k]) /\ r[k] = r[k - 1] + x
    <3>1. s[k] \in Nat
      BY <1>1, ElementOfSeq
    <3>2. Extra(s[k]) \in Int
      <4> DEFINE b == s[k]
      <4>1. b \in Nat
        BY <3>1
      <4> HIDE DEF b
      <4>2. Extra(b) \in Int
        BY <4>1, CountedIs
      <4> QED BY <4>2 DEF b
    <3> QED BY <1>5, <3>2
  <2>4. k - 1 \in 0..n /\ k \in 0..n
    BY <1>1
  <2>5. Len(f[k - 1]) = (k - 1) + r[k - 1] /\ r[k - 1] \in Nat
    BY <1>6, <1>8, <2>4
  <2>6. Len(q[k]) = 1 + x
    BY <1>3, <2>3
  <2>7. Len(f[k]) = k + r[k]
    <3>1. PICK u \in Nat, v \in Nat : u = Len(f[k - 1]) /\ v = r[k - 1]
      BY <2>5
    <3>2. u = (k - 1) + v /\ Len(f[k]) = u + (1 + x) /\ r[k] = v + x
      BY <2>2, <2>3, <2>5, <2>6, <3>1
    <3> QED BY <3>2
  <2> QED BY <2>4, <2>7
<1>9. n \in T
  <2>1. \A k \in 0..n : k \in T
    <3> HIDE DEF T
    <3> QED BY <1>7, <1>8, UpTo
  <2>2. n \in 0..n
    BY <1>1
  <2> QED BY <2>1, <2>2
<1>10. f[n] \in Seq(Int)
  <2>1. n \in 0..n
    BY <1>1
  <2> QED BY <1>3, <1>4, <2>1 DEF Flattens
<1>11. r[n] \in Nat
  <2>1. n \in 0..n
    BY <1>1
  <2> QED BY <1>6, <2>1
<1> QED BY <1>1, <1>2, <1>4, <1>5, <1>9, <1>10, <1>11

\* A string is printed in the length that was counted for it, and its text is
\* decoded to it, up to the end.  The bytes of a C string are 1 to 255; nothing is
\* assumed of them but that they are not negative (cJSON.c:792-917, 922-1041).
THEOREM PrintedStringsReadBack ==
  ASSUME NEW s \in Seq(Nat)
  PROVE  LET p == PrintString(s)
             r == ParseString(p.text, 1) IN
         /\ Len(p.text) = p.length
         /\ r.ok /\ r.out = s /\ r.at = Len(p.text) + 1
<1>1. PICK T : T = FlattenSeq(PrintedBytes(s))
  OBVIOUS
<1>2. /\ T \in Seq(Int) /\ Len(T) = Len(s) + EscapeCharacters(s)
      /\ Len(s) \in Nat /\ EscapeCharacters(s) \in Nat
  BY <1>1, PrintedLength, LenProperties
<1>3. PICK t : t = (<<Quote>> \o T) \o <<Quote>>
  OBVIOUS
<1>4. IsQuoted(t, T)
  BY <1>2, <1>3, QuotedIs
<1>5. PrintString(s) = [text |-> t, length |-> Len(s) + EscapeCharacters(s) + 2]
  BY <1>1, <1>3 DEF PrintString, PrintedBytes
<1>6. PrintString(s).text = t /\ PrintString(s).length = Len(s) + EscapeCharacters(s) + 2
  BY <1>5
<1>7. LET r == ParseString(t, 1) IN
      r.ok /\ r.out = FlattenSeq(Singles(s)) /\ r.at = Len(t) + 1
  <2>1. WellFormed(PrintedBytes(s), Singles(s)) /\ IsQuoted(t, FlattenSeq(PrintedBytes(s)))
    BY <1>1, <1>4, PrintedWellFormed
  <2> QED BY <2>1, UnitsDecoded
<1>8. Len(t) = Len(T) + 2
  BY <1>4 DEF IsQuoted
<1>9. Len(t) = PrintString(s).length
  BY <1>2, <1>6, <1>8
<1> QED BY <1>6, <1>7, <1>9, SinglesJoin

LEMMA BytesOf ==
  ASSUME NEW v \in Seq(Byte)
  PROVE  v \in Seq(Int) /\ v \in Seq(Nat)
<1>1. Byte \subseteq Int /\ Byte \subseteq Nat
  BY DEF Byte
<1>2. Len(v) \in Nat /\ v = [k \in 1..Len(v) |-> v[k]] /\ \A k \in 1..Len(v) : v[k] \in Byte
  BY LenProperties, ElementOfSeq
<1>3. PICK n \in Nat : n = Len(v)
  BY <1>2
<1>4. v \in [1..n -> Int] /\ v \in [1..n -> Nat]
  BY <1>1, <1>2, <1>3, Zenon
<1> QED BY <1>3, <1>4, IsSequence

\* The caller's units, with what each of them is expected to mean.
LEMMA CallersUnits ==
  ASSUME literal \in Seq(Units),
         \A k \in 1..Len(literal) : Means(literal[k].text, literal[k].means)
  PROVE  LET texts == [k \in 1..Len(literal) |-> literal[k].text]
             means == [k \in 1..Len(literal) |-> literal[k].means] IN
         WellFormed(texts, means) /\ means \in Seq(Seq(Byte))
<1>1. PICK n \in Nat : n = Len(literal)
  BY LenProperties
<1>2. \A k \in 1..n : literal[k] \in Units
  BY <1>1, ElementOfSeq
<1>3. \A k \in 1..n : literal[k].text \in Seq(Byte) /\ literal[k].means \in Seq(Byte)
  BY <1>2, LiteralAssumption
<1>4. \A k \in 1..n : literal[k].text \in Seq(Int) /\ literal[k].means \in Seq(Int)
  BY <1>3, BytesOf
<1>5. PICK texts, means : /\ texts = [k \in 1..n |-> literal[k].text]
                          /\ means = [k \in 1..n |-> literal[k].means]
  OBVIOUS
<1> DEFINE V == Seq(Int)
           W == Seq(Byte)
<1>6. texts \in [1..n -> V] /\ means \in [1..n -> V] /\ means \in [1..n -> W]
  BY <1>3, <1>4, <1>5, Zenon
<1> HIDE DEF V, W
<1>7. /\ texts \in Seq(V) /\ Len(texts) = n
      /\ means \in Seq(V) /\ Len(means) = n /\ means \in Seq(W)
  BY <1>1, <1>6, IsSequence
<1>8. \A k \in 1..n : Means(texts[k], means[k])
  BY <1>1, <1>5, Zenon
<1> QED BY <1>1, <1>5, <1>7, <1>8 DEF WellFormed, V, W

\* Whatever units a caller makes a literal of: if each means what it is expected
\* to, the literal is decoded to what they mean together, up to its end, and what
\* they mean is printed in the length counted for it and decoded to itself
\* (cJSON.c:669-789, 922-1041).
THEOREM StringsAreDecoded == Spec => []StringsDecoded
<1>1. OfUnits => StringsDecoded
  <2> SUFFICES ASSUME OfUnits,
                      \A k \in 1..Len(literal) : Means(literal[k].text, literal[k].means)
               PROVE  StringsDecoded
    BY DEF StringsDecoded
  <2>1. PICK texts, means :
          /\ texts = [k \in 1..Len(literal) |-> literal[k].text]
          /\ means = [k \in 1..Len(literal) |-> literal[k].means]
    OBVIOUS
  <2>2. WellFormed(texts, means) /\ means \in Seq(Seq(Byte))
    BY <2>1, CallersUnits DEF OfUnits
  <2>3. PICK T, m : T = FlattenSeq(texts) /\ m = FlattenSeq(means)
    OBVIOUS
  <2>4. T \in Seq(Int) /\ m \in Seq(Byte) /\ m \in Seq(Nat)
    <3>1. T \in Seq(Int)
      BY <2>2, <2>3, FlattenType DEF WellFormed
    <3>2. m \in Seq(Byte)
      BY <2>2, <2>3, FlattenType
    <3> QED BY <3>1, <3>2, BytesOf
  <2>5. PICK t : t = Append(Body, Quote)
    OBVIOUS
  <2>6. Body = <<Quote>> \o T
    BY <2>1, <2>3 DEF Body, Joined
  <2>7. IsQuoted(t, T)
    BY <2>4, <2>5, <2>6, QuotedIs
  <2>8. LET r == ParseString(t, 1) IN r.ok /\ r.out = m /\ r.at = Len(t) + 1
    BY <2>2, <2>3, <2>7, UnitsDecoded
  <2>9. LET p == PrintString(m)
            r == ParseString(p.text, 1) IN
        Len(p.text) = p.length /\ r.ok /\ r.out = m /\ r.at = Len(p.text) + 1
    BY <2>4, PrintedStringsReadBack
  <2>10. Joined(LAMBDA u : u.means) = m
    BY <2>1, <2>3 DEF Joined
  <2> QED BY <2>5, <2>8, <2>9, <2>10 DEF StringsDecoded
<1> QED BY <1>1, UnitsInvariant, PTL
-----------------------------------------------------------------------------
(* The buffer that is printed into. *)

\* A buffer that was not refused yet.
Usable(p) ==
  /\ p \in Buffer /\ p.ok /\ p.held
  /\ p.length <= INT_MAX

LEMMA NewSizeBounds ==
  ASSUME NEW wanted \in Nat \ {0}
  PROVE  /\ NewSize(wanted) \in Nat /\ NewSize(wanted) <= INT_MAX
         /\ NewSize(wanted) = 0 <=> wanted > INT_MAX
         /\ NewSize(wanted) # 0 => NewSize(wanted) >= wanted
<1>1. INT_MAX \in Nat \ {0}
  BY IntAssumption
<1>2. /\ INT_MAX \div 2 \in Nat
      /\ 2 * (INT_MAX \div 2) <= INT_MAX
      /\ INT_MAX \div 2 <= INT_MAX
  BY <1>1
<1>3. CASE wanted <= INT_MAX \div 2
  BY <1>1, <1>2, <1>3 DEF NewSize
<1>4. CASE wanted > INT_MAX \div 2
  BY <1>1, <1>2, <1>4 DEF NewSize
<1> QED
  BY <1>2, <1>3, <1>4

\* The size grows with what is wanted, until it would be too large.
LEMMA NewSizeGrows ==
  ASSUME NEW a \in Nat \ {0}, NEW b \in Nat \ {0}, a <= b, b <= INT_MAX
  PROVE  NewSize(a) <= NewSize(b)
<1>1. INT_MAX \in Nat \ {0}
  BY IntAssumption
<1>2. /\ INT_MAX \div 2 \in Nat
      /\ 2 * (INT_MAX \div 2) <= INT_MAX
  BY <1>1
<1>3. PICK half \in Nat : half = INT_MAX \div 2 /\ 2 * half <= INT_MAX
  BY <1>2
<1>4. /\ NewSize(a) = IF a <= half THEN 2 * a ELSE INT_MAX
      /\ NewSize(b) = IF b <= half THEN 2 * b ELSE INT_MAX
  BY <1>1, <1>3 DEF NewSize
<1> QED BY <1>1, <1>3, <1>4

\* What a buffer cannot get: more than it has when it is the caller's, more than
\* INT_MAX, or what takes a reallocation that fails.
Lacks(p, wanted) ==
  /\ wanted > p.length
  /\ p.noalloc \/ wanted > INT_MAX \/ NewSize(wanted) > p.memory

\* The buffer after a reallocation that failed.
Gone(p) == [Refused(Deallocated(p)) EXCEPT !.length = 0]

LEMMA ReallocatedIs ==
  ASSUME NEW p, NEW size
  PROVE  Reallocated(p, size) =
           IF size <= p.memory THEN [p EXCEPT !.length = size] ELSE Gone(p)
BY DEF Reallocated, Gone

\* What ensure does, by what is wanted.
LEMMA EnsureCases ==
  ASSUME NEW p, NEW ask \in Nat, p.held, p.length \in Nat, p.offset \in Nat,
         p.noalloc \in BOOLEAN, p.memory \in Nat, p.length <= INT_MAX,
         p.length > 0 => p.offset < p.length
  PROVE  LET wanted == ask + p.offset + 1 IN
         \/ wanted <= p.length /\ Ensure(p, ask) = p
         \/ Lacks(p, wanted) /\ Ensure(p, ask) = Refused(p)
         \/ Lacks(p, wanted) /\ ~p.noalloc /\ Ensure(p, ask) = Gone(p)
         \/ /\ wanted > p.length /\ ~p.noalloc
            /\ Ensure(p, ask) = [p EXCEPT !.length = NewSize(wanted)]
            /\ NewSize(wanted) \in Nat /\ NewSize(wanted) <= INT_MAX
            /\ NewSize(wanted) <= p.memory /\ wanted <= NewSize(wanted)
<1>1. INT_MAX \in Nat \ {0}
  BY IntAssumption
<1>2. PICK wanted \in Nat \ {0} : wanted = ask + p.offset + 1
  OBVIOUS
<1>3. PICK size \in Nat : size = NewSize(wanted)
  BY NewSizeBounds
<1>4. /\ size <= INT_MAX
      /\ size = 0 <=> wanted > INT_MAX
      /\ size # 0 => size >= wanted
  BY <1>3, NewSizeBounds
<1>5. Ensure(p, ask) =
        IF ask > INT_MAX THEN Refused(p)
        ELSE IF wanted <= p.length THEN p
        ELSE IF p.noalloc \/ size = 0 THEN Refused(p)
        ELSE IF size <= p.memory THEN [p EXCEPT !.length = size] ELSE Gone(p)
  <2>1. ~(~p.held \/ (p.length > 0 /\ p.offset >= p.length))
    OBVIOUS
  <2> QED BY <1>2, <1>3, <2>1, ReallocatedIs, Zenon DEF Ensure
<1>6. ask > INT_MAX => wanted > INT_MAX /\ wanted > p.length
  BY <1>1, <1>2
<1>7. Lacks(p, wanted) <=> wanted > p.length
                           /\ (p.noalloc \/ wanted > INT_MAX \/ size > p.memory)
  BY <1>3 DEF Lacks
<1>8. CASE ask > INT_MAX
  BY <1>2, <1>5, <1>6, <1>7, <1>8
<1>9. CASE ~(ask > INT_MAX) /\ wanted <= p.length
  BY <1>2, <1>5, <1>9
<1>10. CASE ~(ask > INT_MAX) /\ ~(wanted <= p.length) /\ (p.noalloc \/ size = 0)
  <2>1. Ensure(p, ask) = Refused(p)
    BY <1>5, <1>10, Zenon
  <2>2. Lacks(p, wanted)
    BY <1>4, <1>7, <1>10
  <2> QED BY <1>2, <2>1, <2>2
<1>11. CASE ~(ask > INT_MAX) /\ ~(wanted <= p.length) /\ ~(p.noalloc \/ size = 0)
            /\ ~(size <= p.memory)
  <2>1. Ensure(p, ask) = Gone(p)
    BY <1>5, <1>11, Zenon
  <2>2. Lacks(p, wanted)
    BY <1>7, <1>11
  <2> QED BY <1>2, <1>11, <2>1, <2>2
<1>12. CASE ~(ask > INT_MAX) /\ ~(wanted <= p.length) /\ ~(p.noalloc \/ size = 0)
            /\ size <= p.memory
  <2>1. Ensure(p, ask) = [p EXCEPT !.length = size]
    BY <1>5, <1>12, Zenon
  <2> QED BY <1>2, <1>3, <1>4, <1>12, <2>1
<1> QED BY <1>8, <1>9, <1>10, <1>11, <1>12

\* A request that ensure grants leaves room for what was asked for and one byte
\* more behind the offset; what is in the buffer stays, nothing grows beyond
\* INT_MAX, and a caller's buffer does not grow (cJSON.c:463-541).
THEOREM EnsureMakesRoom ==
  ASSUME NEW p, Usable(p), p.length > 0 => p.offset < p.length,
         NEW needed \in Nat, Ensure(p, needed).ok
  PROVE  LET q == Ensure(p, needed) IN
         /\ Usable(q)
         /\ q.offset + needed + 1 <= q.length
         /\ q.offset = p.offset /\ p.length <= q.length
         /\ p.noalloc => q.length = p.length
<1>1. /\ p.length \in Nat /\ p.offset \in Nat /\ p.noalloc \in BOOLEAN /\ p.ok /\ p.held
      /\ p.memory \in Nat /\ p.length <= INT_MAX /\ INT_MAX \in Nat \ {0}
  BY IntAssumption DEF Usable, Buffer
<1>2. ~Refused(p).ok /\ ~Gone(p).ok
  BY <1>1 DEF Refused, Gone, Deallocated, Usable, Buffer
<1>3. PICK wanted \in Nat \ {0} : wanted = needed + p.offset + 1
  BY <1>1
<1>4. CASE wanted <= p.length /\ Ensure(p, needed) = p
  BY <1>1, <1>3, <1>4
<1>5. ASSUME NEW size \in Nat, wanted > p.length, ~p.noalloc,
             Ensure(p, needed) = [p EXCEPT !.length = size], size <= INT_MAX, wanted <= size
      PROVE  LET q == Ensure(p, needed) IN
             /\ Usable(q)
             /\ q.offset + needed + 1 <= q.length
             /\ q.offset = p.offset /\ p.length <= q.length
             /\ p.noalloc => q.length = p.length
  <2>1. PICK q : q = [p EXCEPT !.length = size]
    OBVIOUS
  <2>2. /\ q \in Buffer /\ q.ok /\ q.held /\ q.length = size
        /\ q.offset = p.offset /\ q.noalloc = p.noalloc
    BY <1>1, <2>1 DEF Usable, Buffer
  <2> QED
    BY <1>1, <1>3, <1>5, <2>1, <2>2 DEF Usable
<1> QED
  BY <1>1, <1>2, <1>3, <1>4, <1>5, EnsureCases

\* A buffer that cJSON may reallocate is refused only what INT_MAX cannot hold,
\* or what takes a reallocation that fails; and then it was freed (cJSON.c:471-531).
THEOREM EnsureRefusesOnlyTooLarge ==
  ASSUME NEW p, Usable(p), ~p.noalloc, p.length > p.offset, NEW needed \in Nat,
         ~Ensure(p, needed).ok
  PROVE  \/ needed + p.offset + 1 > INT_MAX
         \/ /\ NewSize(needed + p.offset + 1) > p.memory
            /\ ~Ensure(p, needed).held /\ Ensure(p, needed).freed = p.freed + 1
<1>1. /\ p.length \in Nat /\ p.offset \in Nat /\ p.noalloc \in BOOLEAN /\ p.ok /\ p.held
      /\ p.memory \in Nat /\ p.length <= INT_MAX /\ INT_MAX \in Nat \ {0}
  BY IntAssumption DEF Usable, Buffer
<1>2. PICK wanted \in Nat \ {0} : wanted = needed + p.offset + 1
  BY <1>1
<1>3. PICK size \in Nat : size = NewSize(wanted) /\ (size = 0 <=> wanted > INT_MAX)
  BY <1>2, NewSizeBounds
<1>4. ~Gone(p).held /\ Gone(p).freed = p.freed + 1
  BY <1>1 DEF Refused, Gone, Deallocated, Usable, Buffer
<1>5. [p EXCEPT !.length = size].ok
  BY <1>1 DEF Usable, Buffer
<1>6. ~(needed > INT_MAX /\ wanted <= INT_MAX) /\ (p.length > 0 => ~(p.offset >= p.length))
  BY <1>1, <1>2
<1>7. Ensure(p, needed) =
        IF needed > INT_MAX THEN Refused(p)
        ELSE IF wanted <= p.length THEN p
        ELSE IF size = 0 THEN Refused(p)
        ELSE IF size <= p.memory THEN [p EXCEPT !.length = size] ELSE Gone(p)
  BY <1>1, <1>2, <1>3, <1>6, ReallocatedIs, Zenon DEF Ensure
<1>8. CASE needed > INT_MAX \/ size = 0
  BY <1>1, <1>2, <1>3, <1>6, <1>8
<1>9. CASE ~(needed > INT_MAX) /\ size # 0 /\ wanted <= p.length
  BY <1>1, <1>7, <1>9
<1>10. CASE ~(needed > INT_MAX) /\ size # 0 /\ ~(wanted <= p.length) /\ size <= p.memory
  BY <1>5, <1>7, <1>10
<1>11. CASE ~(needed > INT_MAX) /\ size # 0 /\ ~(wanted <= p.length) /\ ~(size <= p.memory)
  <2>1. Ensure(p, needed) = Gone(p)
    BY <1>7, <1>11, Zenon
  <2>2. NewSize(wanted) > p.memory
    BY <1>1, <1>3, <1>11
  <2> QED BY <1>2, <1>4, <2>1, <2>2
<1> QED
  BY <1>8, <1>9, <1>10, <1>11
-----------------------------------------------------------------------------
(* The values that a caller prints: what Values is at each level. *)

ValuesStep(f, n) ==
  {Item(a, <<>>) : a \in Atoms} \cup
  IF n = 0 THEN {}
  ELSE {v \in [type : {"array", "object"}, of : Seq(f[n - 1])] :
          v.type = "object" => Named(v.of)}

LEMMA ValuesStepSame ==
  ASSUME NEW f, NEW g, NEW n \in Nat, n # 0 => f[n - 1] = g[n - 1]
  PROVE  ValuesStep(f, n) = ValuesStep(g, n)
<1>1. CASE n = 0
  BY <1>1 DEF ValuesStep
<1>2. CASE n # 0
  BY <1>2 DEF ValuesStep
<1> QED BY <1>1, <1>2

\* The function that Values is.
LEMMA ValuesLevels ==
  \A n \in 0..MaxDepth : Values[n] = ValuesStep(Values, n)
<1> DEFINE T == {m \in 0..MaxDepth : \E f : f = [k \in 0..m |-> ValuesStep(f, k)]}
<1>1. MaxDepth \in Nat
  BY ValueAssumption
<1>2. 0 \in T
  <2>1. PICK f : f = [k \in 0..0 |-> ValuesStep(<<>>, 0)]
    OBVIOUS
  <2>2. \A k \in 0..0 : k = 0
    OBVIOUS
  <2>3. ValuesStep(f, 0) = ValuesStep(<<>>, 0)
    BY ValuesStepSame
  <2>4. f = [k \in 0..0 |-> ValuesStep(f, k)]
    BY <2>1, <2>2, <2>3
  <2> QED BY <1>1, <2>4
<1>3. ASSUME NEW m \in 1..MaxDepth, m - 1 \in T PROVE m \in T
  <2>1. PICK f : f = [k \in 0..(m - 1) |-> ValuesStep(f, k)]
    BY <1>3
  <2>2. PICK g : g = [k \in 0..m |-> IF k = m THEN ValuesStep(f, m) ELSE f[k]]
    OBVIOUS
  <2>3. /\ m \in 0..m /\ m \in Nat /\ m # 0
        /\ \A k \in 0..m : k # m => k \in 0..(m - 1)
        /\ \A k \in 0..(m - 1) : /\ k \in 0..m /\ k # m /\ k \in Nat
                                 /\ k # 0 => k - 1 \in 0..(m - 1)
    OBVIOUS
  <2>4. \A k \in 0..(m - 1) : g[k] = f[k]
    BY <2>2, <2>3
  <2>5. ASSUME NEW k \in 0..m PROVE g[k] = ValuesStep(g, k)
    <3>1. CASE k = m
      <4>1. m - 1 \in 0..(m - 1)
        OBVIOUS
      <4>2. ValuesStep(f, m) = ValuesStep(g, m)
        BY <2>3, <2>4, <4>1, ValuesStepSame
      <4>3. g[m] = ValuesStep(f, m)
        BY <2>2, <2>3
      <4> QED BY <3>1, <4>2, <4>3
    <3>2. CASE k # m
      <4>1. k \in 0..(m - 1) /\ k \in Nat /\ (k # 0 => k - 1 \in 0..(m - 1))
        BY <2>3, <3>2
      <4>2. f[k] = ValuesStep(f, k)
        BY <2>1, <4>1
      <4>3. ValuesStep(f, k) = ValuesStep(g, k)
        BY <2>4, <4>1, ValuesStepSame
      <4> QED BY <2>4, <4>1, <4>2, <4>3
    <3> QED BY <3>1, <3>2
  <2>6. g = [k \in 0..m |-> ValuesStep(g, k)]
    BY <2>2, <2>5
  <2>7. m \in 0..MaxDepth
    BY <1>1
  <2> QED BY <2>6, <2>7
<1>4. \A m \in 0..MaxDepth : m \in T
  <2> HIDE DEF T
  <2> QED BY <1>1, <1>2, <1>3, UpTo
<1>5. MaxDepth \in 0..MaxDepth
  BY <1>1
<1>6. \E f : f = [n \in 0..MaxDepth |-> ValuesStep(f, n)]
  BY <1>4, <1>5
<1>7. Values = [n \in 0..MaxDepth |-> ValuesStep(Values, n)]
  BY <1>6 DEF Values, ValuesStep
<1> QED BY <1>7

\* What a value is, and what is in it.
LEMMA ValueIs ==
  ASSUME NEW n \in 0..MaxDepth, NEW v \in Values[n]
  PROVE  \/ v.type \in Atoms /\ v.of = <<>> /\ v = Item(v.type, <<>>)
         \/ /\ n # 0 /\ n - 1 \in 0..MaxDepth /\ v.type \in {"array", "object"}
            /\ v.type \notin Atoms /\ v = Item(v.type, v.of)
            /\ v.of \in Seq(Values[n - 1])
            /\ v.type = "object" => Named(v.of)
<1>1. MaxDepth \in Nat /\ "array" \notin Atoms /\ "object" \notin Atoms
  BY ValueAssumption
<1>2. v \in ValuesStep(Values, n)
  BY ValuesLevels
<1>3. CASE v \in {Item(a, <<>>) : a \in Atoms}
  BY <1>3 DEF Item
<1>4. CASE n # 0 /\ v \in [type : {"array", "object"}, of : Seq(Values[n - 1])]
           /\ (v.type = "object" => Named(v.of))
  <2>1. n - 1 \in 0..MaxDepth
    BY <1>1, <1>4
  <2> QED BY <1>1, <1>4, <2>1 DEF Item
<1> QED BY <1>2, <1>3, <1>4 DEF ValuesStep
-----------------------------------------------------------------------------
(* How long a text is. *)

LEMMA WidthRun ==
  ASSUME NEW s \in Seq(Characters)
  PROVE  \E r : /\ IsRun(r, Len(s), Nat, 0)
                /\ \A k \in 1..Len(s) : r[k] = r[k - 1] + Width[s[k]]
                /\ WidthOf(s) = r[Len(s)]
<1> DEFINE F == [p \in Nat \X Characters |-> p[1] + Width[p[2]]]
           G(g) == [x \in SUBSET DOMAIN s |->
                      IF x = {} THEN 0 ELSE g[x \ {Max(x)}] + Width[s[Max(x)]]]
           iter == CHOOSE g : g = G(g)
<1>1. Len(s) \in Nat /\ DOMAIN s = 1..Len(s)
  BY LenProperties
<1>2. \A c \in Characters : Width[c] \in Nat
  BY WidthAssumption
<1>3. F \in [Nat \X Characters -> Nat]
  BY <1>2
<1>4. \A v \in Nat, e \in Characters : F[<<v, e>>] = v + Width[e]
  OBVIOUS
<1> HIDE DEF F
<1>5. PICK it : LeftFold(it, Nat, 0, s, F)
  BY <1>1, <1>3, FoldLeftExists
<1>6. it = G(it)
  <2>1. it \in [SUBSET DOMAIN s -> Nat]
    BY <1>5 DEF LeftFold
  <2>2. ASSUME NEW x \in SUBSET DOMAIN s, x # {}
        PROVE  F[<<it[x \ {Max(x)}], s[Max(x)]>>] = it[x \ {Max(x)}] + Width[s[Max(x)]]
    <3>1. Max(x) \in 1..Len(s)
      BY <1>1, <2>2, MaxOf
    <3>2. s[Max(x)] \in Characters /\ it[x \ {Max(x)}] \in Nat
      BY <1>1, <2>1, <3>1, ElementOfSeq
    <3> QED BY <1>4, <3>2
  <2> QED BY <1>5, <2>2 DEF LeftFold
<1>7. iter = G(iter)
  BY <1>6
<1>8. WidthOf(s) = iter[DOMAIN s]
  BY DEF FoldLeft, MapThenFoldSet, WidthOf
<1> HIDE DEF iter
<1>9. iter[{}] = 0
  BY <1>7
<1> HIDE DEF G
<1>10. ASSUME NEW k \in 1..Len(s)
      PROVE  iter[1..k] = iter[(1..k) \ {k}] + Width[s[k]]
  <2>1. k \in Nat \ {0} /\ k \in 1..k /\ \A j \in 1..k : j \in 1..Len(s)
    BY <1>1
  <2>2. 1..k \in SUBSET DOMAIN s /\ 1..k # {}
    BY <1>1, <2>1, Zenon
  <2>3. Max(1..k) = k
    BY <2>1, MaxUpTo
  <2> DEFINE x == 1..k
  <2> HIDE DEF x
  <2>4. iter[x] = iter[x \ {Max(x)}] + Width[s[Max(x)]]
    BY <1>7, <2>2 DEF G, x
  <2> QED BY <2>3, <2>4 DEF x
<1>11. ASSUME NEW k \in 1..Len(s), iter[(1..k) \ {k}] \in Nat
       PROVE  iter[1..k] \in Nat
  <2>1. Width[s[k]] \in Nat
    BY <1>1, <1>2, ElementOfSeq
  <2>2. PICK a \in Nat, w \in Nat : a = iter[(1..k) \ {k}] /\ w = Width[s[k]]
    BY <1>11, <2>1
  <2>3. iter[1..k] = a + w
    BY <1>10, <2>2
  <2> QED BY <2>2, <2>3
<1>12. 0 \in Nat /\ StaysIn(iter, Len(s), Nat)
  BY <1>11 DEF StaysIn
<1> DEFINE r == RunOf(iter, Len(s))
<1>13. /\ IsRun(r, Len(s), Nat, 0)
       /\ FollowsRun(iter, r, Len(s))
       /\ r[Len(s)] = iter[1..Len(s)]
  <2> DEFINE W == Nat
             b == 0
  <2>1. b \in W /\ iter[{}] = b /\ StaysIn(iter, Len(s), W)
    BY <1>9, <1>12
  <2> HIDE DEF W, b
  <2>2. /\ IsRun(r, Len(s), W, b)
        /\ FollowsRun(iter, r, Len(s))
        /\ r[Len(s)] = iter[1..Len(s)]
    BY <1>1, <2>1, RunOfFold
  <2> QED BY <2>2 DEF W, b
<1> HIDE DEF r
<1>14. ASSUME NEW k \in 1..Len(s) PROVE r[k] = r[k - 1] + Width[s[k]]
  BY <1>10, <1>13 DEF FollowsRun
<1> QED BY <1>1, <1>8, <1>13, <1>14

\* A run of widths of a text; there is only one.
Widths(r, s) ==
  /\ IsRun(r, Len(s), Nat, 0)
  /\ \A k \in 1..Len(s) : r[k] = r[k - 1] + Width[s[k]]

LEMMA WidthsIs ==
  ASSUME NEW s \in Seq(Characters)
  PROVE  WidthOf(s) \in Nat /\ \E r : Widths(r, s) /\ WidthOf(s) = r[Len(s)]
<1>1. PICK r : Widths(r, s) /\ WidthOf(s) = r[Len(s)]
  BY WidthRun DEF Widths
<1>2. Len(s) \in 0..Len(s)
  <2>1. Len(s) \in Nat
    BY LenProperties
  <2> QED BY <2>1
<1>3. WidthOf(s) \in Nat
  BY <1>1, <1>2 DEF Widths, IsRun
<1> QED BY <1>1, <1>3

\* Two texts are as long as both of them.
LEMMA WidthOfConcat ==
  ASSUME NEW a \in Seq(Characters), NEW b \in Seq(Characters)
  PROVE  /\ a \o b \in Seq(Characters)
         /\ WidthOf(a \o b) = WidthOf(a) + WidthOf(b)
         /\ WidthOf(a) \in Nat /\ WidthOf(b) \in Nat
<1>1. PICK c : c = a \o b
  OBVIOUS
<1>2. Joins(c, a, b, Characters)
  BY <1>1, ConcatJoins
<1>3. PICK m \in Nat, n \in Nat : m = Len(a) /\ n = Len(b)
  BY LenProperties
<1>4. /\ c \in Seq(Characters) /\ Len(c) = m + n
      /\ \A i \in 1..m : c[i] = a[i]
      /\ \A j \in 1..n : c[m + j] = b[j]
  BY <1>2, <1>3, Zenon DEF Joins
<1>51. PICK p : Widths(p, a) /\ WidthOf(a) = p[m]
  BY <1>3, WidthsIs
<1>52. PICK q : Widths(q, b) /\ WidthOf(b) = q[n]
  BY <1>3, WidthsIs
<1>53. PICK r : Widths(r, c) /\ WidthOf(c) = r[m + n]
  BY <1>4, WidthsIs
<1>6. /\ p \in [0..m -> Nat] /\ p[0] = 0 /\ \A k \in 1..m : p[k] = p[k - 1] + Width[a[k]]
      /\ q \in [0..n -> Nat] /\ q[0] = 0 /\ \A k \in 1..n : q[k] = q[k - 1] + Width[b[k]]
      /\ r \in [0..(m + n) -> Nat] /\ r[0] = 0
      /\ \A k \in 1..(m + n) : r[k] = r[k - 1] + Width[c[k]]
  BY <1>3, <1>4, <1>51, <1>52, <1>53 DEF Widths, IsRun
<1>7. \A k \in 0..m : r[k] = p[k]
  <2> DEFINE T == {k \in 0..m : r[k] = p[k]}
  <2>1. 0 \in T
    BY <1>6
  <2>2. ASSUME NEW k \in 1..m, k - 1 \in T PROVE k \in T
    <3>1. k \in 1..(m + n) /\ k \in 0..m
      OBVIOUS
    <3>2. r[k] = r[k - 1] + Width[c[k]] /\ p[k] = p[k - 1] + Width[a[k]] /\ c[k] = a[k]
      BY <1>4, <1>6, <3>1
    <3> QED BY <2>2, <3>1, <3>2
  <2> HIDE DEF T
  <2>3. \A k \in 0..m : k \in T
    BY <2>1, <2>2, UpTo
  <2> QED BY <2>3 DEF T
<1>8. \A k \in 0..n : r[m + k] = p[m] + q[k]
  <2> DEFINE T == {k \in 0..n : r[m + k] = p[m] + q[k]}
  <2>1. 0 \in T
    <3>1. p[m] \in Nat /\ m \in 0..m
      BY <1>6
    <3>2. r[m + 0] = p[m] + q[0]
      BY <1>6, <1>7, <3>1
    <3> QED BY <3>2
  <2>2. ASSUME NEW k \in 1..n, k - 1 \in T PROVE k \in T
    <3>1. m + k \in 1..(m + n) /\ k \in 0..n /\ (m + k) - 1 = m + (k - 1) /\ m \in 0..m
          /\ k - 1 \in 0..n
      OBVIOUS
    <3>2. r[m + k] = r[m + (k - 1)] + Width[c[m + k]] /\ c[m + k] = b[k]
      BY <1>4, <1>6, <3>1
    <3>3. q[k] = q[k - 1] + Width[b[k]] /\ r[m + (k - 1)] = p[m] + q[k - 1]
      BY <1>6, <2>2
    <3>4. b[k] \in Characters
      BY <1>3, ElementOfSeq
    <3>5. p[m] \in Nat /\ q[k - 1] \in Nat /\ Width[b[k]] \in Nat
      BY <1>6, <3>1, <3>4, WidthAssumption
    <3>6. r[m + k] = p[m] + q[k]
      <4>1. PICK x \in Nat, y \in Nat, w \in Nat : x = p[m] /\ y = q[k - 1] /\ w = Width[b[k]]
        BY <3>5
      <4>2. r[m + k] = (x + y) + w /\ q[k] = y + w
        BY <3>2, <3>3, <4>1
      <4>3. (x + y) + w = x + (y + w)
        BY <4>1
      <4> QED BY <4>1, <4>2, <4>3
    <3> QED BY <3>1, <3>6
  <2> HIDE DEF T
  <2>3. \A k \in 0..n : k \in T
    BY <2>1, <2>2, UpTo
  <2> QED BY <2>3 DEF T
<1>9. n \in 0..n
  OBVIOUS
<1>10. WidthOf(c) = WidthOf(a) + WidthOf(b)
  BY <1>51, <1>52, <1>53, <1>8, <1>9
<1> QED BY <1>1, <1>4, <1>10, WidthsIs

\* What is neither an atom nor a string is one byte.
Signs == Punctuation \cup White

LEMMA WidthOfSigns ==
  ASSUME NEW s \in Seq(Signs)
  PROVE  s \in Seq(Characters) /\ WidthOf(s) = Len(s) /\ Len(s) \in Nat
<1>1. Signs \subseteq Characters /\ \A c \in Signs : Width[c] = 1
  BY WidthAssumption DEF Signs, Characters
<1>2. PICK n \in Nat : n = Len(s) /\ \A k \in 1..n : s[k] \in Signs
  BY LenProperties, ElementOfSeq
<1>3. s \in Seq(Characters)
  <2>1. s \in [1..n -> Signs]
    BY <1>2, LenProperties
  <2>2. s \in [1..n -> Characters]
    BY <1>1, <1>2, <2>1
  <2> QED BY <2>2, IsSequence
<1>4. PICK r : Widths(r, s) /\ WidthOf(s) = r[n]
  BY <1>2, <1>3, WidthsIs
<1>5. r[0] = 0 /\ \A k \in 1..n : r[k] = r[k - 1] + 1
  <2>1. r[0] = 0 /\ \A k \in 1..n : r[k] = r[k - 1] + Width[s[k]]
    BY <1>2, <1>4 DEF Widths, IsRun
  <2> QED BY <1>1, <1>2, <2>1
<1> DEFINE T == {k \in 0..n : r[k] = k}
<1>6. 0 \in T
  BY <1>5
<1>7. \A k \in 1..n : k - 1 \in T => k \in T
  BY <1>5
<1>8. n \in T
  <2>1. \A k \in 0..n : k \in T
    <3> HIDE DEF T
    <3> QED BY <1>6, <1>7, UpTo
  <2>2. n \in 0..n
    OBVIOUS
  <2> QED BY <2>1, <2>2
<1> QED BY <1>2, <1>3, <1>4, <1>8

LEMMA WidthOfOne ==
  ASSUME NEW c \in Characters
  PROVE  <<c>> \in Seq(Characters) /\ WidthOf(<<c>>) = Width[c] /\ Width[c] \in Nat
<1>1. PICK s : s = <<c>>
  OBVIOUS
<1>2. s \in Seq(Characters) /\ Len(s) = 1 /\ s[1] = c
  BY <1>1
<1>3. PICK r : Widths(r, s) /\ WidthOf(s) = r[1]
  BY <1>2, WidthsIs
<1>4. 1 \in 1..1 /\ 1 - 1 = 0
  OBVIOUS
<1>5. r[0] = 0 /\ r[1] = r[0] + Width[c]
  BY <1>2, <1>3, <1>4 DEF Widths, IsRun
<1>6. Width[c] \in Nat
  BY WidthAssumption
<1> QED BY <1>1, <1>2, <1>3, <1>5, <1>6

-----------------------------------------------------------------------------
(* What is asked for before something is printed. *)

PieceType == [ask : Nat, chars : Seq(Characters), nul : BOOLEAN]

\* Room for the characters and the NUL, if there is one, and not for more than
\* the characters and a NUL.
Enough(x) ==
  /\ WidthOf(x.chars) + (IF x.nul THEN 1 ELSE 0) <= x.ask
  /\ x.ask <= WidthOf(x.chars) + 1
Fair == {x \in PieceType : Enough(x)}

\* The last piece ends with a NUL.
Terminated(s) == s \in Seq(Fair) /\ Len(s) \in Nat \ {0} /\ s[Len(s)].nul

LEMMA PieceIs ==
  ASSUME NEW ask \in Nat, NEW chars \in Seq(Characters), NEW nul \in BOOLEAN,
         Enough([ask |-> ask, chars |-> chars, nul |-> nul])
  PROVE  /\ Piece(ask, chars, nul) \in Seq(Fair) /\ Len(Piece(ask, chars, nul)) = 1
         /\ nul => Terminated(Piece(ask, chars, nul))
<1>1. PICK x \in Fair : x = [ask |-> ask, chars |-> chars, nul |-> nul]
  BY DEF Fair, PieceType
<1>2. PICK s : s = <<x>>
  OBVIOUS
<1>3. s \in Seq(Fair) /\ Len(s) = 1 /\ s[1] = x
  BY <1>2
<1>4. x.nul = nul
  BY <1>1
<1> QED BY <1>1, <1>2, <1>3, <1>4 DEF Piece, Terminated

LEMMA SignPiece ==
  ASSUME NEW ask \in Nat, NEW chars \in Seq(Signs), NEW nul \in BOOLEAN,
         Len(chars) <= ask, ask <= Len(chars) + 1, nul => ask = Len(chars) + 1
  PROVE  /\ Piece(ask, chars, nul) \in Seq(Fair) /\ Len(Piece(ask, chars, nul)) = 1
         /\ nul => Terminated(Piece(ask, chars, nul))
<1>1. chars \in Seq(Characters) /\ WidthOf(chars) = Len(chars) /\ Len(chars) \in Nat
  BY WidthOfSigns
<1>2. Enough([ask |-> ask, chars |-> chars, nul |-> nul])
  BY <1>1 DEF Enough
<1> QED BY <1>1, <1>2, PieceIs

LEMMA AtomPrints ==
  ASSUME NEW a \in Atoms
  PROVE  Terminated(PrintAtom(a))
<1>1. <<a>> \in Seq(Characters) /\ WidthOf(<<a>>) = Width[a] /\ Width[a] \in Nat
  BY WidthOfOne DEF Characters
<1>2. PICK w \in Nat, s \in Seq(Characters) : w = Width[a] /\ s = <<a>> /\ WidthOf(s) = w
  BY <1>1
<1>3. PICK q \in Nat : q = w + 1
  OBVIOUS
<1>4. PICK b \in BOOLEAN : b
  OBVIOUS
<1>5. Enough([ask |-> q, chars |-> s, nul |-> b])
  BY <1>2, <1>3 DEF Enough
<1>6. Terminated(Piece(q, s, b)) /\ b = TRUE
  BY <1>4, <1>5, PieceIs
<1> QED BY <1>2, <1>3, <1>6 DEF PrintAtom

\* Pieces after pieces.
LEMMA PiecesJoin ==
  ASSUME NEW s \in Seq(Fair), NEW u \in Seq(Fair)
  PROVE  /\ s \o u \in Seq(Fair)
         /\ Terminated(u) => Terminated(s \o u)
<1>1. PICK c : c = s \o u
  OBVIOUS
<1>2. Joins(c, s, u, Fair)
  BY <1>1, ConcatJoins
<1>3. /\ c \in Seq(Fair) /\ Len(s) \in Nat /\ Len(u) \in Nat /\ Len(c) = Len(s) + Len(u)
      /\ \A j \in 1..Len(u) : c[Len(s) + j] = u[j]
  BY <1>2, Zenon DEF Joins
<1>4. ASSUME Terminated(u) PROVE Terminated(c)
  <2>1. Len(u) \in Nat \ {0} /\ u[Len(u)].nul
    BY <1>4 DEF Terminated
  <2>2. Len(u) \in 1..Len(u)
    BY <2>1
  <2>3. c[Len(c)] = u[Len(u)]
    BY <1>3, <2>2
  <2>4. Len(c) \in Nat \ {0}
    BY <1>3, <2>1
  <2> QED BY <1>3, <2>1, <2>3, <2>4 DEF Terminated
<1> QED BY <1>1, <1>3, <1>4

\* A list of elements, each in some pieces.
LEMMA PiecesOfList ==
  ASSUME NEW n \in Nat, NEW p, p = [k \in 1..n |-> p[k]], \A k \in 1..n : p[k] \in Seq(Fair)
  PROVE  FlattenSeq(p) \in Seq(Fair)
<1> DEFINE V == Seq(Fair)
<1>1. p \in [1..n -> V]
  OBVIOUS
<1> HIDE DEF V
<1>2. p \in Seq(V)
  BY <1>1, IsSequence
<1> QED BY <1>2, FlattenType DEF V

LEMMA IfPieces ==
  ASSUME NEW c \in BOOLEAN, NEW E, NEW s, c => s \in Seq(E)
  PROVE  If(c, s) \in Seq(E)
<1>1. CASE c
  BY <1>1 DEF If
<1>2. CASE ~c
  BY <1>2 DEF If
<1> QED BY <1>1, <1>2

\* Texts of signs.
LEMMA OneSign ==
  ASSUME NEW c \in Signs
  PROVE  <<c>> \in Seq(Signs) /\ Len(<<c>>) = 1
OBVIOUS

LEMMA SignsConcat ==
  ASSUME NEW a \in Seq(Signs), NEW b \in Seq(Signs)
  PROVE  a \o b \in Seq(Signs) /\ Len(a \o b) \in Nat
BY ConcatProperties, LenProperties

LEMMA SignsAre ==
  /\ "[" \in Signs /\ "]" \in Signs /\ "{" \in Signs /\ "}" \in Signs
  /\ "," \in Signs /\ ":" \in Signs /\ " " \in Signs /\ "\n" \in Signs /\ "\t" \in Signs
BY DEF Signs, Punctuation, White

\* A sign, and another one if the text is formatted.
LEMMA SignAndBlank ==
  ASSUME NEW c \in Signs, NEW d \in Signs, NEW format \in BOOLEAN
  PROVE  <<c>> \o If(format, <<d>>) \in Seq(Signs) /\ Len(<<c>> \o If(format, <<d>>)) \in Nat
<1>1. <<c>> \in Seq(Signs) /\ <<d>> \in Seq(Signs)
  BY OneSign
<1>2. If(format, <<d>>) \in Seq(Signs)
  BY <1>1, IfPieces
<1> QED BY <1>1, <1>2, SignsConcat

\* The pieces that are printed after texts of signs, with a NUL and without one.
LEMMA EndPiece ==
  ASSUME NEW s \in Seq(Signs)
  PROVE  Terminated(Piece(Len(s) + 1, s, TRUE)) /\ Piece(Len(s) + 1, s, TRUE) \in Seq(Fair)
<1>1. PICK q \in Nat : q = Len(s) + 1
  BY LenProperties
<1>2. PICK b \in BOOLEAN : b
  OBVIOUS
<1>3. Len(s) \in Nat /\ Len(s) <= q /\ q <= Len(s) + 1
  BY <1>1, LenProperties
<1>4. Piece(q, s, b) \in Seq(Fair) /\ Terminated(Piece(q, s, b)) /\ b = TRUE
  BY <1>1, <1>2, <1>3, SignPiece
<1> QED BY <1>1, <1>4

LEMMA OpenPiece ==
  ASSUME NEW s \in Seq(Signs), NEW q \in {Len(s), Len(s) + 1}
  PROVE  Piece(q, s, FALSE) \in Seq(Fair)
<1>1. PICK b \in BOOLEAN : b = FALSE
  OBVIOUS
<1>2. q \in Nat /\ Len(s) <= q /\ q <= Len(s) + 1
  BY LenProperties
<1>3. Piece(q, s, b) \in Seq(Fair)
  BY <1>1, <1>2, SignPiece
<1> QED BY <1>1, <1>3

\* Inner prints what is in v.
InnerPrints(v, Inner) ==
  \A k \in 1..Len(v.of), depth \in Nat : Terminated(Inner[v.of[k]][depth])

\* What print_array asks for.
ArrayComma(format) == <<",">> \o If(format, <<" ">>)
ArrayElement(v, format, depth, Inner, k) ==
  Inner[v.of[k]][depth + 1]
  \o If(k < Len(v.of), Piece(Len(ArrayComma(format)) + 1, ArrayComma(format), TRUE))

LEMMA ArrayPieces ==
  ASSUME NEW v, Len(v.of) \in Nat, NEW format \in BOOLEAN, NEW depth \in Nat, NEW Inner,
         InnerPrints(v, Inner)
  PROVE  LET comma == ArrayComma(format)
             elements == [k \in 1..Len(v.of) |-> ArrayElement(v, format, depth, Inner, k)] IN
         /\ PrintArray(v, format, depth, Inner)
            = (Piece(1, <<"[">>, FALSE) \o FlattenSeq(elements)) \o Piece(2, <<"]">>, TRUE)
         /\ Piece(1, <<"[">>, FALSE) \in Seq(Fair) /\ Terminated(Piece(2, <<"]">>, TRUE))
         /\ comma \in Seq(Signs) /\ Piece(Len(comma) + 1, comma, TRUE) \in Seq(Fair)
         /\ \A k \in 1..Len(v.of) : ArrayElement(v, format, depth, Inner, k) \in Seq(Fair)
         /\ FlattenSeq(elements) \in Seq(Fair)
<1> DEFINE n == Len(v.of)
           Comma == ArrayComma(format)
           Element(k) == ArrayElement(v, format, depth, Inner, k)
           elements == [k \in 1..n |-> Element(k)]
           open == Piece(1, <<"[">>, FALSE)
           close == Piece(2, <<"]">>, TRUE)
<1>0. "[" \in Signs /\ "]" \in Signs /\ "," \in Signs /\ " " \in Signs
  BY SignsAre
<1>1. open \in Seq(Fair)
  <2>1. PICK s : s = <<"[">>
    OBVIOUS
  <2>2. s \in Seq(Signs) /\ Len(s) = 1
    BY <1>0, <2>1, OneSign
  <2>3. Piece(1, s, FALSE) \in Seq(Fair)
    BY <2>2, OpenPiece
  <2> QED BY <2>1, <2>3
<1>2. Terminated(close)
  <2>1. PICK s : s = <<"]">>
    OBVIOUS
  <2>2. s \in Seq(Signs) /\ Len(s) = 1
    BY <1>0, <2>1, OneSign
  <2>3. Terminated(Piece(Len(s) + 1, s, TRUE))
    BY <2>2, EndPiece
  <2>4. Len(s) + 1 = 2
    BY <2>2
  <2> QED BY <2>1, <2>3, <2>4
<1>3. Comma \in Seq(Signs) /\ Piece(Len(Comma) + 1, Comma, TRUE) \in Seq(Fair)
  <2>1. Comma \in Seq(Signs)
    BY <1>0, SignAndBlank DEF ArrayComma
  <2> HIDE DEF Comma
  <2> QED BY <2>1, EndPiece
<1> HIDE DEF Comma, open, close
<1>4. ASSUME NEW k \in 1..n PROVE Element(k) \in Seq(Fair)
  <2>1. Inner[v.of[k]][depth + 1] \in Seq(Fair)
    <3>1. k \in 1..Len(v.of) /\ depth + 1 \in Nat
      OBVIOUS
    <3>2. Terminated(Inner[v.of[k]][depth + 1])
      BY <3>1, Zenon DEF InnerPrints
    <3> QED BY <3>2, Zenon DEF Terminated
  <2>2. If(k < n, Piece(Len(Comma) + 1, Comma, TRUE)) \in Seq(Fair)
    <3>1. (k < n) \in BOOLEAN
      OBVIOUS
    <3> QED BY <1>3, <3>1, IfPieces
  <2> QED BY <2>1, <2>2, PiecesJoin DEF ArrayElement, Comma
<1>5. FlattenSeq(elements) \in Seq(Fair)
  <2>1. \A k \in 1..n : elements[k] \in Seq(Fair)
    BY <1>4
  <2>2. elements = [k \in 1..n |-> elements[k]]
    OBVIOUS
  <2> HIDE DEF elements
  <2> QED BY <2>1, <2>2, PiecesOfList
<1>6. PrintArray(v, format, depth, Inner) = (open \o FlattenSeq(elements)) \o close
  BY DEF PrintArray, ArrayElement, ArrayComma, open, close
<1>7. \A k \in 1..n : Element(k) \in Seq(Fair)
  BY <1>4
<1> HIDE DEF Element, elements
<1>8. /\ PrintArray(v, format, depth, Inner) = (open \o FlattenSeq(elements)) \o close
      /\ open \in Seq(Fair) /\ Terminated(close)
      /\ Comma \in Seq(Signs) /\ Piece(Len(Comma) + 1, Comma, TRUE) \in Seq(Fair)
      /\ \A k \in 1..n : Element(k) \in Seq(Fair)
      /\ FlattenSeq(elements) \in Seq(Fair)
  BY <1>1, <1>2, <1>3, <1>5, <1>6, <1>7
<1> QED BY <1>8 DEF open, close, Comma, Element, elements

LEMMA ArrayPrints ==
  ASSUME NEW v, Len(v.of) \in Nat, NEW format \in BOOLEAN, NEW depth \in Nat, NEW Inner,
         InnerPrints(v, Inner)
  PROVE  Terminated(PrintArray(v, format, depth, Inner))
<1> DEFINE open == Piece(1, <<"[">>, FALSE)
           list == FlattenSeq([k \in 1..Len(v.of) |-> ArrayElement(v, format, depth, Inner, k)])
           close == Piece(2, <<"]">>, TRUE)
<1>1. /\ PrintArray(v, format, depth, Inner) = (open \o list) \o close
      /\ open \in Seq(Fair) /\ list \in Seq(Fair) /\ Terminated(close)
  BY ArrayPieces, Zenon
<1> HIDE DEF open, list, close
<1>2. open \o list \in Seq(Fair) /\ close \in Seq(Fair)
  BY <1>1, PiecesJoin DEF Terminated
<1>3. Terminated((open \o list) \o close)
  BY <1>1, <1>2, PiecesJoin
<1> QED BY <1>1, <1>3

LEMMA TabsAre ==
  ASSUME NEW n \in Nat
  PROVE  Tabs(n) \in Seq(Signs) /\ Len(Tabs(n)) = n
<1>1. PICK q : q = Tabs(n)
  OBVIOUS
<1>2. q \in [1..n -> Signs]
  BY <1>1, SignsAre DEF Tabs
<1> QED BY <1>1, <1>2, IsSequence

LEMMA HalfOf ==
  ASSUME NEW l \in Nat, l % 2 = 0
  PROVE  l \div 2 \in Nat /\ 2 * (l \div 2) = l
OBVIOUS

\* What print_object asks for.
ObjectLine(chars, format) == chars \o If(format, <<"\n">>)
ObjectColon(format) == <<":">> \o If(format, <<"\t">>)
ObjectComma(v, format, k) == ObjectLine(If(2 * k < Len(v.of), <<",">>), format)
ObjectIndent(format, depth) == If(format, Piece(depth + 1, Tabs(depth + 1), FALSE))
ObjectMember(v, format, depth, Inner, k) ==
  ((((ObjectIndent(format, depth) \o PrintAtom(v.of[2 * k - 1].type))
     \o Piece(Len(ObjectColon(format)), ObjectColon(format), FALSE))
    \o Inner[v.of[2 * k]][depth + 1])
   \o Piece(Len(ObjectComma(v, format, k)) + 1, ObjectComma(v, format, k), TRUE))
ObjectOpen(format) ==
  Piece(Len(ObjectLine(<<"{">>, format)) + 1, ObjectLine(<<"{">>, format), FALSE)
ObjectShut(format, depth) == If(format, Tabs(depth)) \o <<"}">>
ObjectClose(format, depth) ==
  Piece(IF format THEN depth + 2 ELSE 2, ObjectShut(format, depth), TRUE)

\* The places of the members of an object.
LEMMA MembersAre ==
  ASSUME NEW v, Len(v.of) \in Nat, Named(v.of)
  PROVE  LET n == Len(v.of) \div 2 IN
         /\ n \in Nat /\ 2 * n = Len(v.of)
         /\ \A k \in 1..n : /\ 2 * k - 1 \in 1..Len(v.of) /\ 2 * k \in 1..Len(v.of)
                            /\ v.of[2 * k - 1].type \in Strings
<1> DEFINE n == Len(v.of) \div 2
<1>1. PICK l \in Nat : l = Len(v.of)
  OBVIOUS
<1>2. l % 2 = 0 /\ \A k \in 1..n : v.of[2 * k - 1].type \in Strings
  BY <1>1 DEF Named
<1>3. n \in Nat /\ 2 * n = l
  BY <1>1, <1>2, HalfOf
<1> HIDE DEF n
<1>4. \A k \in 1..n : 2 * k - 1 >= 1 /\ 2 * k - 1 <= l /\ 2 * k >= 1 /\ 2 * k <= l
  BY <1>3
<1>5. \A k \in 1..n : 2 * k - 1 \in 1..l /\ 2 * k \in 1..l
  BY <1>3, <1>4
<1>6. /\ n \in Nat /\ 2 * n = Len(v.of)
      /\ \A k \in 1..n : /\ 2 * k - 1 \in 1..Len(v.of) /\ 2 * k \in 1..Len(v.of)
                         /\ v.of[2 * k - 1].type \in Strings
  BY <1>1, <1>2, <1>3, <1>5
<1> QED BY <1>6 DEF n

\* The pieces of a member.
LEMMA MemberPieces ==
  ASSUME NEW v, Len(v.of) \in Nat, Named(v.of), NEW format \in BOOLEAN, NEW depth \in Nat,
         NEW Inner, InnerPrints(v, Inner), NEW k \in 1..(Len(v.of) \div 2)
  PROVE  LET colon == Piece(Len(ObjectColon(format)), ObjectColon(format), FALSE)
             Comma == ObjectComma(v, format, k)
             comma == Piece(Len(Comma) + 1, Comma, TRUE) IN
         /\ ObjectIndent(format, depth) \in Seq(Fair)
         /\ PrintAtom(v.of[2 * k - 1].type) \in Seq(Fair)
         /\ ObjectColon(format) \in Seq(Signs) /\ colon \in Seq(Fair)
         /\ Inner[v.of[2 * k]][depth + 1] \in Seq(Fair)
         /\ Comma \in Seq(Signs) /\ comma \in Seq(Fair)
         /\ ObjectMember(v, format, depth, Inner, k) \in Seq(Fair)
<1> DEFINE indent == ObjectIndent(format, depth)
           Colon == ObjectColon(format)
           colon == Piece(Len(Colon), Colon, FALSE)
           Comma == ObjectComma(v, format, k)
           comma == Piece(Len(Comma) + 1, Comma, TRUE)
           name == PrintAtom(v.of[2 * k - 1].type)
           inner == Inner[v.of[2 * k]][depth + 1]
<1>0. "," \in Signs /\ ":" \in Signs /\ "\n" \in Signs /\ "\t" \in Signs
  BY SignsAre
<1>1. /\ 2 * k \in 1..Len(v.of) /\ v.of[2 * k - 1].type \in Strings
  BY MembersAre
<1>2. Colon \in Seq(Signs) /\ colon \in Seq(Fair)
  <2>1. Colon \in Seq(Signs)
    BY <1>0, SignAndBlank DEF ObjectColon
  <2> HIDE DEF Colon
  <2> QED BY <2>1, OpenPiece
<1>3. indent \in Seq(Fair)
  <2>1. PICK d \in Nat : d = depth + 1
    OBVIOUS
  <2>2. Piece(d, Tabs(d), FALSE) \in Seq(Fair)
    BY TabsAre, OpenPiece
  <2> QED BY <2>1, <2>2, IfPieces DEF ObjectIndent
<1>4. Comma \in Seq(Signs) /\ comma \in Seq(Fair)
  <2>1. (2 * k < Len(v.of)) \in BOOLEAN
    OBVIOUS
  <2>2. <<",">> \in Seq(Signs) /\ <<"\n">> \in Seq(Signs)
    BY <1>0, OneSign
  <2>3. If(2 * k < Len(v.of), <<",">>) \in Seq(Signs)
    BY <2>1, <2>2, IfPieces
  <2>4. If(format, <<"\n">>) \in Seq(Signs)
    BY <2>2, IfPieces
  <2>5. Comma \in Seq(Signs)
    BY <2>3, <2>4, SignsConcat DEF ObjectComma, ObjectLine
  <2> HIDE DEF Comma
  <2> QED BY <2>5, EndPiece
<1>5. name \in Seq(Fair)
  <2>1. v.of[2 * k - 1].type \in Atoms
    BY <1>1, WidthAssumption
  <2> QED BY <2>1, AtomPrints DEF Terminated
<1>6. inner \in Seq(Fair)
  <2>1. depth + 1 \in Nat
    OBVIOUS
  <2>2. Terminated(Inner[v.of[2 * k]][depth + 1])
    BY <1>1, <2>1, Zenon DEF InnerPrints
  <2> QED BY <2>2, Zenon DEF Terminated
<1> HIDE DEF indent, colon, comma, name, inner
<1>7. (((indent \o name) \o colon) \o inner) \o comma \in Seq(Fair)
  <2>1. indent \o name \in Seq(Fair)
    BY <1>3, <1>5, PiecesJoin
  <2>2. (indent \o name) \o colon \in Seq(Fair)
    BY <1>2, <2>1, PiecesJoin
  <2>3. ((indent \o name) \o colon) \o inner \in Seq(Fair)
    BY <1>6, <2>2, PiecesJoin
  <2> QED BY <1>4, <2>3, PiecesJoin
<1> QED BY <1>2, <1>3, <1>4, <1>5, <1>6, <1>7
        DEF indent, colon, comma, name, inner, ObjectMember

LEMMA ObjectPieces ==
  ASSUME NEW v, Len(v.of) \in Nat, Named(v.of), NEW format \in BOOLEAN, NEW depth \in Nat,
         NEW Inner, InnerPrints(v, Inner)
  PROVE  LET members == [k \in 1..(Len(v.of) \div 2) |-> ObjectMember(v, format, depth, Inner, k)] IN
         /\ PrintObject(v, format, depth, Inner)
            = (ObjectOpen(format) \o FlattenSeq(members)) \o ObjectClose(format, depth)
         /\ ObjectOpen(format) \in Seq(Fair) /\ Terminated(ObjectClose(format, depth))
         /\ ObjectLine(<<"{">>, format) \in Seq(Signs)
         /\ ObjectShut(format, depth) \in Seq(Signs)
         /\ FlattenSeq(members) \in Seq(Fair)
<1> DEFINE n == Len(v.of) \div 2
           members == [k \in 1..n |-> ObjectMember(v, format, depth, Inner, k)]
           Open == ObjectLine(<<"{">>, format)
           open == ObjectOpen(format)
           Shut == ObjectShut(format, depth)
           close == ObjectClose(format, depth)
<1>0. "{" \in Signs /\ "}" \in Signs /\ "\n" \in Signs
  BY SignsAre
<1>2. Open \in Seq(Signs) /\ open \in Seq(Fair)
  <2>1. Open \in Seq(Signs)
    BY <1>0, SignAndBlank DEF ObjectLine
  <2>2. open = Piece(Len(Open) + 1, Open, FALSE)
    BY DEF ObjectOpen
  <2> HIDE DEF Open, open
  <2> QED BY <2>1, <2>2, OpenPiece
<1>3. Shut \in Seq(Signs) /\ Terminated(close)
  <2>1. Tabs(depth) \in Seq(Signs) /\ Len(Tabs(depth)) = depth
    BY TabsAre
  <2>2. <<"}">> \in Seq(Signs) /\ Len(<<"}">>) = 1
    BY <1>0, OneSign
  <2>3. PICK a \in Seq(Signs), b \in Seq(Signs) :
          a = If(format, Tabs(depth)) /\ b = <<"}">>
    BY <2>1, <2>2, IfPieces
  <2>8. PICK c : c = a \o b
    OBVIOUS
  <2>4. Len(a) = IF format THEN depth ELSE 0
    BY <2>1, <2>3 DEF If
  <2>5. c \in Seq(Signs) /\ Len(c) = Len(a) + 1
    BY <2>2, <2>3, <2>8, ConcatProperties
  <2>6. Terminated(Piece(Len(c) + 1, c, TRUE))
    BY <2>5, EndPiece
  <2>7. Len(c) + 1 = IF format THEN depth + 2 ELSE 2
    BY <2>4, <2>5
  <2>9. c = Shut
    BY <2>3, <2>8 DEF ObjectShut
  <2> QED BY <2>5, <2>6, <2>7, <2>9 DEF ObjectClose
<1>4. FlattenSeq(members) \in Seq(Fair)
  <2>0. n \in Nat
    BY MembersAre
  <2>1. \A k \in 1..n : members[k] \in Seq(Fair)
    BY MemberPieces
  <2>2. members = [k \in 1..n |-> members[k]]
    OBVIOUS
  <2> HIDE DEF members, n
  <2> QED BY <2>0, <2>1, <2>2, PiecesOfList
<1>5. PrintObject(v, format, depth, Inner) = (open \o FlattenSeq(members)) \o close
  BY DEF PrintObject, ObjectOpen, ObjectClose, ObjectShut, ObjectMember, ObjectIndent,
         ObjectComma, ObjectColon, ObjectLine
<1> QED BY <1>2, <1>3, <1>4, <1>5

LEMMA ObjectPrints ==
  ASSUME NEW v, Len(v.of) \in Nat, Named(v.of), NEW format \in BOOLEAN, NEW depth \in Nat,
         NEW Inner, InnerPrints(v, Inner)
  PROVE  Terminated(PrintObject(v, format, depth, Inner))
<1> DEFINE open == ObjectOpen(format)
           list == FlattenSeq([k \in 1..(Len(v.of) \div 2) |->
                                ObjectMember(v, format, depth, Inner, k)])
           close == ObjectClose(format, depth)
<1>1. /\ PrintObject(v, format, depth, Inner) = (open \o list) \o close
      /\ open \in Seq(Fair) /\ list \in Seq(Fair) /\ Terminated(close)
  BY ObjectPieces, Zenon
<1> HIDE DEF open, list, close
<1>2. open \o list \in Seq(Fair) /\ close \in Seq(Fair)
  BY <1>1, PiecesJoin DEF Terminated
<1>3. Terminated((open \o list) \o close)
  BY <1>1, <1>2, PiecesJoin
<1> QED BY <1>1, <1>3
-----------------------------------------------------------------------------
(* The pieces put into the buffer. *)

PrintState ==
  [length : Nat, offset : Nat, noalloc : BOOLEAN, ok : BOOLEAN,
   memory : Nat, held : BOOLEAN, freed : Nat,
   chars : Seq(Characters), within : BOOLEAN]

\* How much of the text there can be room for, with a NUL and one byte more.
Room(p) == IF p.noalloc THEN p.length ELSE p.memory

\* Every byte is within the buffer, which is held until it is freed, once.
Sound(p) ==
  /\ p \in PrintState /\ p.within
  /\ p.length <= INT_MAX /\ (p.length > 0 => p.offset < p.length)
  /\ p.length <= Room(p)
  /\ p.noalloc \/ p.ok => p.held
  /\ p.freed = IF p.held THEN 0 ELSE 1

\* What printing never changes.
Kept(q, p) == q.noalloc = p.noalloc /\ q.memory = p.memory

\* What ensure says when printing goes on, and what is then in the buffer.
LEMMA EnsureIs ==
  ASSUME NEW p, Sound(p), p.ok, NEW ask \in Nat
  PROVE  \/ /\ Lacks(p, ask + p.offset + 1)
            /\ \/ Ensure(p, ask) = Refused(p)
               \/ ~p.noalloc /\ Ensure(p, ask) = Gone(p)
         \/ \E m \in Nat : /\ Ensure(p, ask) = [p EXCEPT !.length = m]
                           /\ ask + p.offset + 1 <= m /\ m <= INT_MAX
                           /\ p.length <= m /\ (p.noalloc => m = p.length)
                           /\ m <= (IF p.noalloc THEN p.length ELSE p.memory)
<1>1. /\ p.length \in Nat /\ p.offset \in Nat /\ p.noalloc \in BOOLEAN /\ INT_MAX \in Nat \ {0}
      /\ p.length <= INT_MAX /\ (p.length > 0 => p.offset < p.length)
      /\ p.memory \in Nat /\ p.held
      /\ p.length <= (IF p.noalloc THEN p.length ELSE p.memory)
  BY IntAssumption DEF Sound, PrintState, Room
<1>2. PICK wanted \in Nat : wanted = ask + p.offset + 1
  BY <1>1
<1>3. p = [p EXCEPT !.length = p.length]
  BY DEF Sound, PrintState
<1>4. CASE wanted <= p.length /\ Ensure(p, ask) = p
  <2>1. Ensure(p, ask) = [p EXCEPT !.length = p.length]
    BY <1>3, <1>4, Zenon
  <2>2. /\ ask + p.offset + 1 <= p.length /\ p.length <= p.length
        /\ p.noalloc => p.length = p.length
    BY <1>1, <1>2, <1>4
  <2> QED BY <1>1, <2>1, <2>2, Zenon
<1>5. CASE Lacks(p, wanted) /\ (Ensure(p, ask) = Refused(p)
                              \/ (~p.noalloc /\ Ensure(p, ask) = Gone(p)))
  BY <1>2, <1>5, Zenon
<1>6. ASSUME NEW size \in Nat, wanted > p.length, ~p.noalloc,
             Ensure(p, ask) = [p EXCEPT !.length = size],
             size <= INT_MAX, size <= p.memory, wanted <= size
      PROVE  \E m \in Nat : /\ Ensure(p, ask) = [p EXCEPT !.length = m]
                            /\ ask + p.offset + 1 <= m /\ m <= INT_MAX
                            /\ p.length <= m /\ (p.noalloc => m = p.length)
                            /\ m <= (IF p.noalloc THEN p.length ELSE p.memory)
  <2>1. p.length <= size
    BY <1>1, <1>6
  <2> QED BY <1>2, <1>6, <2>1
<1>7. \/ wanted <= p.length /\ Ensure(p, ask) = p
      \/ Lacks(p, wanted) /\ Ensure(p, ask) = Refused(p)
      \/ Lacks(p, wanted) /\ ~p.noalloc /\ Ensure(p, ask) = Gone(p)
      \/ /\ wanted > p.length /\ ~p.noalloc
         /\ Ensure(p, ask) = [p EXCEPT !.length = NewSize(wanted)]
         /\ NewSize(wanted) \in Nat /\ NewSize(wanted) <= INT_MAX
         /\ NewSize(wanted) <= p.memory /\ wanted <= NewSize(wanted)
  BY <1>1, <1>2, EnsureCases, Zenon
<1>8. CASE /\ wanted > p.length /\ ~p.noalloc
           /\ Ensure(p, ask) = [p EXCEPT !.length = NewSize(wanted)]
           /\ NewSize(wanted) \in Nat /\ NewSize(wanted) <= INT_MAX
           /\ NewSize(wanted) <= p.memory /\ wanted <= NewSize(wanted)
  <2>1. PICK size : size = NewSize(wanted)
    OBVIOUS
  <2>2. /\ size \in Nat /\ Ensure(p, ask) = [p EXCEPT !.length = size]
        /\ size <= INT_MAX /\ size <= p.memory /\ wanted <= size
    BY <1>8, <2>1, Zenon
  <2> QED BY <1>6, <1>8, <2>2
<1> QED BY <1>4, <1>5, <1>7, <1>8, Zenon

\* Printing stops when it was refused.
LEMMA PutRefused ==
  ASSUME NEW p, Sound(p)
  PROVE  Sound(Refused(p)) /\ ~Refused(p).ok /\ Kept(Refused(p), p)
<1>1. PICK q : q = Refused(p)
  OBVIOUS
<1>2. /\ q \in PrintState /\ ~q.ok /\ q.length = p.length /\ q.offset = p.offset
      /\ q.noalloc = p.noalloc /\ q.within = p.within /\ q.memory = p.memory
      /\ q.held = p.held /\ q.freed = p.freed
  BY <1>1 DEF Sound, PrintState, Refused
<1>3. Sound(q)
  BY <1>2 DEF Sound, Room
<1> QED BY <1>1, <1>2, <1>3 DEF Kept

LEMMA PutGone ==
  ASSUME NEW p, Sound(p), p.ok, ~p.noalloc
  PROVE  Sound(Gone(p)) /\ ~Gone(p).ok /\ Kept(Gone(p), p)
<1>1. PICK q : q = Gone(p)
  OBVIOUS
<1>2. p.held /\ p.freed = 0
  BY DEF Sound
<1>3. /\ q \in PrintState /\ ~q.ok /\ q.length = 0 /\ q.offset = p.offset
      /\ q.noalloc = p.noalloc /\ q.within = p.within /\ q.memory = p.memory
      /\ ~q.held /\ q.freed = 1
  <2>1. PICK d : d = [p EXCEPT !.held = FALSE, !.freed = 1]
    OBVIOUS
  <2>2. d \in PrintState /\ q = [Refused(d) EXCEPT !.length = 0]
    <3>1. Deallocated(p) = [p EXCEPT !.held = FALSE, !.freed = p.freed + 1]
      BY <1>2, Zenon DEF Deallocated
    <3>2. p.freed + 1 = 1
      BY <1>2
    <3>3. Deallocated(p) = d
      BY <2>1, <3>1, <3>2, Zenon
    <3>4. q = [Refused(d) EXCEPT !.length = 0]
      BY <1>1, <3>3, Zenon DEF Gone
    <3> QED BY <2>1, <3>4 DEF Sound, PrintState
  <2>3. /\ ~d.held /\ d.freed = 1 /\ d.offset = p.offset /\ d.noalloc = p.noalloc
        /\ d.within = p.within /\ d.memory = p.memory
    BY <2>1 DEF Sound, PrintState
  <2> QED BY <2>2, <2>3 DEF PrintState, Refused
<1>4. q.memory \in Nat /\ INT_MAX \in Nat
  BY <1>3, IntAssumption DEF PrintState
<1>5. Sound(q)
  BY <1>3, <1>4 DEF Sound, Room
<1> QED BY <1>1, <1>3, <1>5 DEF Kept

\* One more piece is printed within the buffer, if there is room for it.
Grown(q, p, x) ==
  /\ q.ok /\ p.ok /\ x.ask + p.offset + 1 <= q.length
  /\ p.length <= q.length /\ (p.noalloc => q.length = p.length)
  /\ q.offset = p.offset + WidthOf(x.chars) /\ q.chars = p.chars \o x.chars

LEMMA PutIs ==
  ASSUME NEW p, Sound(p), NEW x \in Fair
  PROVE  LET q == Put(p, x) IN
         /\ Sound(q) /\ Kept(q, p)
         /\ \/ Grown(q, p, x)
            \/ ~q.ok /\ (p.ok => Lacks(p, x.ask + p.offset + 1))
<1>1. /\ x.ask \in Nat /\ x.chars \in Seq(Characters) /\ x.nul \in BOOLEAN
      /\ WidthOf(x.chars) \in Nat
      /\ WidthOf(x.chars) + (IF x.nul THEN 1 ELSE 0) <= x.ask
  BY WidthsIs DEF Fair, PieceType, Enough
<1>2. CASE ~p.ok
  <2>1. Put(p, x) = p
    BY <1>2, Zenon DEF Put
  <2> QED BY <1>2, <2>1 DEF Kept
<1>3. CASE /\ p.ok /\ Lacks(p, x.ask + p.offset + 1)
           /\ (Ensure(p, x.ask) = Refused(p) \/ (~p.noalloc /\ Ensure(p, x.ask) = Gone(p)))
  <2>1. /\ Sound(Ensure(p, x.ask)) /\ ~Ensure(p, x.ask).ok /\ Kept(Ensure(p, x.ask), p)
    BY <1>3, PutRefused, PutGone, Zenon
  <2>2. Put(p, x) = Ensure(p, x.ask)
    BY <1>3, <2>1, Zenon DEF Put
  <2> QED BY <1>3, <2>1, <2>2, Zenon
<1>4. ASSUME p.ok,
             NEW m \in Nat, Ensure(p, x.ask) = [p EXCEPT !.length = m],
             x.ask + p.offset + 1 <= m, m <= INT_MAX, p.length <= m,
             p.noalloc => m = p.length, m <= (IF p.noalloc THEN p.length ELSE p.memory)
      PROVE  LET q == Put(p, x) IN Sound(q) /\ Kept(q, p) /\ Grown(q, p, x)
  <2>1. PICK e : e = Ensure(p, x.ask)
    OBVIOUS
  <2>2. /\ e \in PrintState /\ e.ok /\ e.length = m /\ e.offset = p.offset
        /\ e.noalloc = p.noalloc /\ e.within /\ e.chars = p.chars /\ p.offset \in Nat
        /\ p.length \in Nat /\ p.noalloc \in BOOLEAN
        /\ e.memory = p.memory /\ e.held /\ e.freed = 0
    BY <1>4, <2>1 DEF Sound, PrintState
  <2>3. PICK w \in Nat : w = WidthOf(x.chars)
    BY <1>1
  <2>4. PICK end \in Nat : end = e.offset + w
    BY <2>2
  <2>5. end + (IF x.nul THEN 1 ELSE 0) <= e.length /\ end < m
    <3>1. PICK z \in Nat : z = IF x.nul THEN 1 ELSE 0
      OBVIOUS
    <3>2. PICK a \in Nat : a = x.ask
      BY <1>1
    <3>3. PICK o \in Nat : o = p.offset
      BY <2>2
    <3>4. w + z <= a /\ a + o + 1 <= m /\ end = o + w
      BY <1>1, <1>4, <2>2, <2>3, <2>4, <3>1, <3>2, <3>3
    <3>5. end + z <= m /\ end < m
      BY <3>4
    <3> QED BY <2>2, <3>1, <3>5
  <2>6. PICK chars \in Seq(Characters) : chars = e.chars \o x.chars
    BY <1>1, <2>2, ConcatProperties DEF PrintState
  <2>7. PICK t \in BOOLEAN :
          t = (e.within /\ end + (IF x.nul THEN 1 ELSE 0) <= e.length)
    OBVIOUS
  <2>8. t
    BY <2>2, <2>5, <2>7
  <2>9. PICK q : q = [e EXCEPT !.offset = end, !.chars = chars, !.within = t]
    OBVIOUS
  <2>10. Put(p, x) = q
    BY <1>4, <2>1, <2>2, <2>3, <2>4, <2>6, <2>7, <2>9, Zenon DEF Put
  <2>11. /\ q \in PrintState /\ q.ok /\ q.length = m /\ q.offset = end
         /\ q.noalloc = p.noalloc /\ q.within = t /\ q.chars = chars
         /\ q.memory = p.memory /\ q.held /\ q.freed = 0
    BY <2>2, <2>9 DEF PrintState
  <2>12. Sound(q)
    BY <1>4, <2>2, <2>5, <2>8, <2>11 DEF Sound, Room
  <2>13. Kept(q, p)
    BY <2>11 DEF Kept
  <2>14. Grown(q, p, x)
    BY <1>4, <2>2, <2>3, <2>4, <2>6, <2>11 DEF Grown
  <2> QED BY <2>10, <2>12, <2>13, <2>14, Zenon
<1>5. CASE p.ok
  <2>1. CASE /\ Lacks(p, x.ask + p.offset + 1)
             /\ (Ensure(p, x.ask) = Refused(p) \/ (~p.noalloc /\ Ensure(p, x.ask) = Gone(p)))
    BY <1>3, <1>5, <2>1, Zenon
  <2>2. CASE \E m \in Nat : /\ Ensure(p, x.ask) = [p EXCEPT !.length = m]
                           /\ x.ask + p.offset + 1 <= m /\ m <= INT_MAX
                           /\ p.length <= m /\ (p.noalloc => m = p.length)
                           /\ m <= (IF p.noalloc THEN p.length ELSE p.memory)
    BY <1>4, <1>5, <2>2, Zenon
  <2> QED BY <1>1, <1>5, <2>1, <2>2, EnsureIs, Zenon
<1> QED BY <1>2, <1>5, Zenon

\* What is printed after each piece.
Prints(r, p, s) ==
  /\ r[0] = p
  /\ \A k \in 0..Len(s) : Sound(r[k]) /\ Kept(r[k], p)
  /\ \A k \in 1..Len(s) : r[k] = Put(r[k - 1], s[k])

LEMMA PutRun ==
  ASSUME NEW p, Sound(p), NEW s \in Seq(Fair)
  PROVE  \E r : Prints(r, p, s) /\ FoldLeft(Put, p, s) = r[Len(s)]
<1> DEFINE V == {q \in PrintState : Sound(q) /\ Kept(q, p)}
           F == [a \in V \X Fair |-> Put(a[1], a[2])]
           G(g) == [x \in SUBSET DOMAIN s |->
                      IF x = {} THEN p ELSE Put(g[x \ {Max(x)}], s[Max(x)])]
           iter == CHOOSE g : g = G(g)
<1>1. Len(s) \in Nat /\ DOMAIN s = 1..Len(s)
  BY LenProperties
<1>2. \A q \in V, x \in Fair : Put(q, x) \in V
  <2>1. \A q : Sound(q) => q \in PrintState
    BY DEF Sound
  <2>2. ASSUME NEW q \in V, NEW x \in Fair PROVE Put(q, x) \in V
    <3>1. Sound(q) /\ Kept(q, p)
      OBVIOUS
    <3>2. PICK e : e = Put(q, x)
      OBVIOUS
    <3>3. Sound(e) /\ Kept(e, q)
      BY <3>1, <3>2, PutIs
    <3>4. Kept(e, p)
      BY <3>1, <3>3 DEF Kept
    <3> QED BY <2>1, <3>2, <3>3, <3>4
  <2> QED BY <2>2, Zenon
<1>3. F \in [V \X Fair -> V]
  <2>1. \A a \in V \X Fair : a[1] \in V /\ a[2] \in Fair
    OBVIOUS
  <2> HIDE DEF V
  <2>2. \A a \in V \X Fair : Put(a[1], a[2]) \in V
    BY <1>2, <2>1
  <2> QED BY <2>2
<1>4. \A q \in V, x \in Fair : F[<<q, x>>] = Put(q, x)
  <2> HIDE DEF V
  <2> QED OBVIOUS
<1>5. p \in V
  BY DEF Sound, Kept
<1> HIDE DEF F
<1>6. PICK it : LeftFold(it, V, p, s, F)
  <2> HIDE DEF V
  <2> QED BY <1>1, <1>3, <1>5, FoldLeftExists
<1> HIDE DEF V
<1>7. it = G(it)
  <2>1. it \in [SUBSET DOMAIN s -> V]
    BY <1>6 DEF LeftFold
  <2>2. ASSUME NEW x \in SUBSET DOMAIN s, x # {}
        PROVE  F[<<it[x \ {Max(x)}], s[Max(x)]>>] = Put(it[x \ {Max(x)}], s[Max(x)])
    <3>1. Max(x) \in 1..Len(s)
      BY <1>1, <2>2, MaxOf
    <3>2. s[Max(x)] \in Fair /\ it[x \ {Max(x)}] \in V
      BY <1>1, <2>1, <3>1, ElementOfSeq
    <3> QED BY <1>4, <3>2
  <2> QED BY <1>6, <2>2 DEF LeftFold
<1>8. iter = G(iter)
  BY <1>7
<1>9. FoldLeft(Put, p, s) = iter[DOMAIN s]
  BY DEF FoldLeft, MapThenFoldSet
<1> HIDE DEF iter
<1>10. iter[{}] = p
  BY <1>8
<1> HIDE DEF G
<1>11. ASSUME NEW k \in 1..Len(s)
       PROVE  iter[1..k] = Put(iter[(1..k) \ {k}], s[k])
  <2>1. k \in Nat \ {0} /\ k \in 1..k /\ \A j \in 1..k : j \in 1..Len(s)
    BY <1>1
  <2>2. 1..k \in SUBSET DOMAIN s /\ 1..k # {}
    BY <1>1, <2>1, Zenon
  <2>3. Max(1..k) = k
    BY <2>1, MaxUpTo
  <2> DEFINE x == 1..k
  <2> HIDE DEF x
  <2>4. iter[x] = Put(iter[x \ {Max(x)}], s[Max(x)])
    BY <1>8, <2>2 DEF G, x
  <2> QED BY <2>3, <2>4 DEF x
<1>12. ASSUME NEW k \in 1..Len(s), iter[(1..k) \ {k}] \in V
       PROVE  iter[1..k] \in V
  <2>1. s[k] \in Fair
    BY <1>1, ElementOfSeq
  <2> QED BY <1>2, <1>11, <1>12, <2>1
<1>13. StaysIn(iter, Len(s), V)
  BY <1>12 DEF StaysIn
<1> DEFINE r == RunOf(iter, Len(s))
<1>14. /\ IsRun(r, Len(s), V, p)
       /\ FollowsRun(iter, r, Len(s))
       /\ r[Len(s)] = iter[1..Len(s)]
  BY <1>1, <1>5, <1>10, <1>13, RunOfFold
<1> HIDE DEF r
<1>15. r[0] = p /\ \A k \in 0..Len(s) : r[k] \in V
  BY <1>14 DEF IsRun
<1>16. \A k \in 0..Len(s) : Sound(r[k]) /\ Kept(r[k], p)
  BY <1>15, Zenon DEF V
<1>17. \A k \in 1..Len(s) : r[k] = Put(r[k - 1], s[k])
  BY <1>11, <1>14, Zenon DEF FollowsRun
<1>18. FoldLeft(Put, p, s) = r[Len(s)]
  BY <1>1, <1>9, <1>14
<1> QED BY <1>15, <1>16, <1>17, <1>18 DEF Prints

\* What the text is after each piece, and how long.
Grows(f, o, s, n) ==
  /\ f \in [0..n -> Seq(Characters)] /\ f[0] = <<>> /\ TextOf(s) = f[n]
  /\ o \in [0..n -> Nat] /\ o[0] = 0 /\ WidthOf(TextOf(s)) = o[n]
  /\ \A k \in 1..n : /\ f[k] = f[k - 1] \o s[k].chars
                     /\ o[k] = o[k - 1] + WidthOf(s[k].chars)

LEMMA TextWidths ==
  ASSUME NEW s \in Seq(Fair), NEW n \in Nat, n = Len(s)
  PROVE  \E f, o : Grows(f, o, s, n)
<1> DEFINE V == Seq(Characters)
<1>1. PICK c : c = [k \in 1..Len(s) |-> s[k].chars]
  OBVIOUS
<1>2. c \in [1..n -> V] /\ \A k \in 1..n : c[k] = s[k].chars
  <2>1. \A k \in 1..n : s[k].chars \in Seq(Characters)
    <3> TAKE k \in 1..n
    <3>1. s[k] \in Fair
      BY ElementOfSeq
    <3> QED BY <3>1 DEF Fair, PieceType
  <2> QED BY <1>1, <2>1
<1>3. c \in Seq(V) /\ Len(c) = n
  <2> HIDE DEF V
  <2> QED BY <1>2, IsSequence
<1>4. PICK f : Flattens(f, c, Characters) /\ FlattenSeq(c) = f[n]
  BY <1>3, FlattenRun
<1>5. /\ f \in [0..n -> V] /\ f[0] = <<>>
      /\ \A k \in 1..n : f[k] = f[k - 1] \o c[k]
  BY <1>3, <1>4, Zenon DEF Flattens
<1>6. PICK o : o = [k \in 0..n |-> WidthOf(f[k])]
  OBVIOUS
<1>7. o \in [0..n -> Nat]
  <2>1. \A k \in 0..n : WidthOf(f[k]) \in Nat
    BY <1>5, WidthsIs
  <2> QED BY <1>6, <2>1
<1>8. o[0] = 0
  <2>1. <<>> \in Seq(Signs) /\ Len(<<>>) = 0
    OBVIOUS
  <2>2. WidthOf(<<>>) = 0
    BY <2>1, WidthOfSigns
  <2>3. 0 \in 0..n
    OBVIOUS
  <2>4. o[0] = WidthOf(f[0])
    BY <1>6, <2>3
  <2> QED BY <1>5, <2>2, <2>4
<1>9. ASSUME NEW k \in 1..n PROVE o[k] = o[k - 1] + WidthOf(s[k].chars)
  <2>1. k \in 0..n /\ k - 1 \in 0..n
    OBVIOUS
  <2>2. f[k - 1] \in Seq(Characters) /\ c[k] \in Seq(Characters)
    BY <1>2, <1>5, <2>1
  <2>3. WidthOf(f[k - 1] \o c[k]) = WidthOf(f[k - 1]) + WidthOf(c[k])
    BY <2>2, WidthOfConcat
  <2>4. f[k] = f[k - 1] \o c[k] /\ c[k] = s[k].chars
    BY <1>2, <1>5
  <2>5. o[k] = WidthOf(f[k]) /\ o[k - 1] = WidthOf(f[k - 1])
    BY <1>6, <2>1
  <2> QED BY <2>3, <2>4, <2>5
<1>10. WidthOf(TextOf(s)) = o[n]
  <2>1. n \in 0..n
    OBVIOUS
  <2> QED BY <1>1, <1>4, <1>6, <2>1 DEF TextOf
<1>11. TextOf(s) = f[n]
  BY <1>1, <1>4 DEF TextOf
<1>12. \A k \in 1..n : f[k] = f[k - 1] \o s[k].chars
  BY <1>2, <1>5
<1>13. \A k \in 1..n : /\ f[k] = f[k - 1] \o s[k].chars
                       /\ o[k] = o[k - 1] + WidthOf(s[k].chars)
  BY <1>9, <1>12, Zenon
<1>14. Grows(f, o, s, n)
  BY <1>5, <1>7, <1>8, <1>10, <1>11, <1>13, Zenon DEF Grows
<1> QED BY <1>14

\* More is refused when less was.
LEMMA LacksGrows ==
  ASSUME NEW p, NEW q, p.length \in Nat, q.length \in Nat, p.length <= q.length,
         p.memory \in Nat, Kept(q, p),
         NEW a \in Nat, NEW b \in Nat, a <= b, Lacks(q, a)
  PROVE  Lacks(p, b)
<1>1. INT_MAX \in Nat \ {0}
  BY IntAssumption
<1>2. a > q.length /\ (p.noalloc \/ a > INT_MAX \/ NewSize(a) > p.memory)
  BY DEF Lacks, Kept
<1>3. b > p.length /\ a # 0 /\ b # 0
  BY <1>2
<1>4. CASE p.noalloc \/ b > INT_MAX
  BY <1>3, <1>4 DEF Lacks
<1>5. CASE ~p.noalloc /\ ~(b > INT_MAX)
  <2>1. NewSize(a) > p.memory /\ b <= INT_MAX
    BY <1>1, <1>2, <1>5
  <2>2. NewSize(a) <= NewSize(b)
    BY <1>3, <2>1, NewSizeGrows
  <2>3. NewSize(a) \in Nat /\ NewSize(b) \in Nat
    BY <1>3, NewSizeBounds
  <2> QED BY <1>3, <2>1, <2>2, <2>3 DEF Lacks
<1> QED BY <1>4, <1>5

\* What is printed is within the buffer, and all of it is unless there cannot be
\* room for the whole text.
LEMMA PiecesFit ==
  ASSUME NEW p, Sound(p), p.ok, p.offset = 0, p.chars = <<>>, NEW s, Terminated(s)
  PROVE  LET q == FoldLeft(Put, p, s)
             needed == WidthOf(TextOf(s)) + 2 IN
         /\ Sound(q) /\ Kept(q, p)
         /\ q.ok => needed <= Room(p) /\ q.chars = TextOf(s)
         /\ ~q.ok => Lacks(p, needed)
<1>1. s \in Seq(Fair) /\ s[Len(s)].nul
  BY DEF Terminated
<1>2. PICK n \in Nat : n = Len(s) /\ n # 0
  BY DEF Terminated
<1>3. PICK r : Prints(r, p, s) /\ FoldLeft(Put, p, s) = r[n]
  BY <1>1, <1>2, PutRun
<1>40. PICK f, o : Grows(f, o, s, n)
  BY <1>1, <1>2, TextWidths
<1>4. /\ o \in [0..n -> Nat] /\ o[0] = 0 /\ WidthOf(TextOf(s)) = o[n]
      /\ \A k \in 1..n : o[k] = o[k - 1] + WidthOf(s[k].chars)
  BY <1>40, Zenon DEF Grows
<1>41. /\ f[0] = <<>> /\ TextOf(s) = f[n]
       /\ \A k \in 1..n : f[k] = f[k - 1] \o s[k].chars
  BY <1>40, Zenon DEF Grows
<1>5. p.length \in Nat /\ p.memory \in Nat /\ p.noalloc \in BOOLEAN
  BY DEF Sound, PrintState
<1>6. r[0] = p /\ \A k \in 0..n : Sound(r[k]) /\ Kept(r[k], p)
  BY <1>2, <1>3 DEF Prints
<1>60. ASSUME NEW k \in 0..n PROVE r[k].length \in Nat /\ r[k].ok \in BOOLEAN
  BY <1>6 DEF Sound, PrintState
<1>7. ASSUME NEW k \in 1..n
      PROVE  /\ s[k].ask \in Nat /\ WidthOf(s[k].chars) \in Nat
             /\ s[k].ask <= WidthOf(s[k].chars) + 1
             /\ s[k].nul => WidthOf(s[k].chars) + 1 <= s[k].ask
             /\ \/ Grown(r[k], r[k - 1], s[k])
                \/ ~r[k].ok /\ (r[k - 1].ok => Lacks(r[k - 1], s[k].ask + r[k - 1].offset + 1))
  <2>1. s[k] \in Fair
    BY <1>1, <1>2, ElementOfSeq
  <2>2. s[k].ask \in Nat /\ s[k].chars \in Seq(Characters) /\ Enough(s[k])
    BY <2>1 DEF Fair, PieceType
  <2>3. WidthOf(s[k].chars) \in Nat
    BY <2>2, WidthsIs
  <2>4. k - 1 \in 0..n
    OBVIOUS
  <2>5. Sound(r[k - 1])
    BY <1>6, <2>4
  <2>6. r[k] = Put(r[k - 1], s[k])
    BY <1>2, <1>3, Zenon DEF Prints
  <2>7. \/ Grown(r[k], r[k - 1], s[k])
        \/ ~r[k].ok /\ (r[k - 1].ok => Lacks(r[k - 1], s[k].ask + r[k - 1].offset + 1))
    BY <2>1, <2>5, <2>6, PutIs, Zenon
  <2>8. /\ s[k].ask <= WidthOf(s[k].chars) + 1
        /\ s[k].nul => WidthOf(s[k].chars) + 1 <= s[k].ask
    BY <2>2, <2>3 DEF Enough
  <2> QED BY <2>2, <2>3, <2>7, <2>8
<1>70. ASSUME NEW k \in 1..n, r[k].ok
       PROVE  /\ r[k - 1].ok /\ s[k].ask + r[k - 1].offset + 1 <= r[k].length
              /\ r[k].offset = r[k - 1].offset + WidthOf(s[k].chars)
              /\ r[k].chars = r[k - 1].chars \o s[k].chars
              /\ r[k - 1].length <= r[k].length
              /\ r[k - 1].noalloc => r[k].length = r[k - 1].length
  BY <1>7, <1>70, Zenon DEF Grown
<1>8. \A k \in 1..n : k - 1 \in 0..n /\ k \in 0..n /\ o[k - 1] \in Nat /\ o[k] \in Nat
  BY <1>4
<1>9. ASSUME NEW k \in 0..n PROVE r[k].ok => r[k].offset = o[k]
  <2> DEFINE T == {j \in 0..n : r[j].ok => r[j].offset = o[j]}
  <2>1. 0 \in T
    BY <1>4, <1>6
  <2>2. ASSUME NEW j \in 1..n, j - 1 \in T PROVE j \in T
    <3> SUFFICES ASSUME r[j].ok PROVE r[j].offset = o[j]
      BY <1>8
    <3>1. r[j - 1].ok /\ r[j].offset = r[j - 1].offset + WidthOf(s[j].chars)
      BY <1>70, Zenon
    <3>2. r[j - 1].offset = o[j - 1]
      BY <2>2, <3>1
    <3>3. o[j] = o[j - 1] + WidthOf(s[j].chars)
      BY <1>4
    <3> QED BY <3>1, <3>2, <3>3
  <2> HIDE DEF T
  <2>3. \A j \in 0..n : j \in T
    BY <2>1, <2>2, UpTo
  <2> QED BY <2>3 DEF T
<1>91. ASSUME NEW k \in 0..n PROVE r[k].ok => r[k].chars = f[k]
  <2> DEFINE T == {j \in 0..n : r[j].ok => r[j].chars = f[j]}
  <2>1. 0 \in T
    BY <1>41, <1>6
  <2>2. ASSUME NEW j \in 1..n, j - 1 \in T PROVE j \in T
    <3> SUFFICES ASSUME r[j].ok PROVE r[j].chars = f[j]
      BY <1>8
    <3>1. r[j - 1].ok /\ r[j].chars = r[j - 1].chars \o s[j].chars
      BY <1>70, Zenon
    <3>2. r[j - 1].chars = f[j - 1]
      BY <2>2, <3>1
    <3>3. f[j] = f[j - 1] \o s[j].chars
      BY <1>41
    <3> QED BY <3>1, <3>2, <3>3
  <2> HIDE DEF T
  <2>3. \A j \in 0..n : j \in T
    BY <2>1, <2>2, UpTo
  <2> QED BY <2>3 DEF T
<1>92. ASSUME NEW k \in 0..n
       PROVE  r[k].ok => p.length <= r[k].length /\ (p.noalloc => r[k].length = p.length)
  <2> DEFINE T == {j \in 0..n : r[j].ok => /\ p.length <= r[j].length
                                           /\ p.noalloc => r[j].length = p.length}
  <2>1. 0 \in T
    BY <1>5, <1>6
  <2>2. ASSUME NEW j \in 1..n, j - 1 \in T PROVE j \in T
    <3> SUFFICES ASSUME r[j].ok
                 PROVE  p.length <= r[j].length /\ (p.noalloc => r[j].length = p.length)
      BY <1>8
    <3>1. /\ r[j - 1].ok /\ r[j - 1].length <= r[j].length
          /\ r[j - 1].noalloc => r[j].length = r[j - 1].length
      BY <1>70, Zenon
    <3>2. p.length <= r[j - 1].length /\ (p.noalloc => r[j - 1].length = p.length)
      BY <2>2, <3>1
    <3>3. r[j - 1].noalloc = p.noalloc /\ r[j].length \in Nat /\ r[j - 1].length \in Nat
      BY <1>6, <1>8, <1>60 DEF Kept
    <3> QED BY <1>5, <3>1, <3>2, <3>3
  <2> HIDE DEF T
  <2>3. \A j \in 0..n : j \in T
    BY <2>1, <2>2, UpTo
  <2> QED BY <2>3 DEF T
<1>10. n \in 1..n /\ n \in 0..n
  BY <1>2
<1>11. ASSUME r[n].ok PROVE o[n] + 2 <= Room(p)
  <2>1. /\ r[n - 1].ok /\ s[n].ask + r[n - 1].offset + 1 <= r[n].length
        /\ WidthOf(s[n].chars) + 1 <= s[n].ask
        /\ WidthOf(s[n].chars) \in Nat /\ s[n].ask \in Nat
    BY <1>1, <1>2, <1>7, <1>70, <1>10, <1>11
  <2>2. r[n - 1].offset = o[n - 1] /\ o[n] = o[n - 1] + WidthOf(s[n].chars)
        /\ o[n - 1] \in Nat
    BY <1>4, <1>8, <1>9, <1>10, <2>1
  <2>3. PICK w \in Nat : w = WidthOf(s[n].chars)
    BY <2>1
  <2>4. PICK a \in Nat, b \in Nat : a = s[n].ask /\ b = o[n - 1]
    BY <2>1, <2>2
  <2>5. PICK m \in Nat : m = r[n].length
    BY <1>10, <1>60
  <2>6. a + b + 1 <= m /\ w + 1 <= a /\ o[n] = b + w
    BY <2>1, <2>2, <2>3, <2>4, <2>5
  <2>7. m <= Room(p)
    <3>1. m <= Room(r[n]) /\ Kept(r[n], p) /\ (p.noalloc => m = p.length)
      BY <1>6, <1>10, <1>11, <1>92, <2>5 DEF Sound
    <3> QED BY <1>5, <3>1 DEF Room, Kept
  <2>8. Room(p) \in Nat
    BY <1>5 DEF Room
  <2> QED BY <2>6, <2>7, <2>8
<1>12. ASSUME ~Lacks(p, o[n] + 2) PROVE r[n].ok
  <2>1. \A k \in 0..n : o[k] <= o[n]
    <3> DEFINE T == {j \in 0..n : o[n - j] <= o[n]}
    <3>1. 0 \in T
      BY <1>4
    <3>2. ASSUME NEW j \in 1..n, j - 1 \in T PROVE j \in T
      <4>1. PICK i \in 1..n : i = n - (j - 1) /\ i - 1 = n - j
        OBVIOUS
      <4>2. o[i] <= o[n] /\ o[i] = o[i - 1] + WidthOf(s[i].chars)
            /\ o[i - 1] \in Nat /\ WidthOf(s[i].chars) \in Nat
        BY <1>4, <1>7, <1>8, <3>2, <4>1
      <4>3. o[i - 1] <= o[n]
        BY <1>4, <4>2
      <4> QED BY <4>1, <4>3
    <3> HIDE DEF T
    <3>3. \A j \in 0..n : j \in T
      BY <3>1, <3>2, UpTo
    <3>4. ASSUME NEW k \in 0..n PROVE o[k] <= o[n]
      <4>1. n - k \in 0..n /\ n - (n - k) = k
        OBVIOUS
      <4> QED BY <3>3, <4>1 DEF T
    <3> QED BY <3>4
  <2> DEFINE T == {j \in 0..n : r[j].ok}
  <2>2. 0 \in T
    BY <1>6
  <2>3. ASSUME NEW j \in 1..n, j - 1 \in T PROVE j \in T
    <3>1. r[j - 1].ok /\ r[j - 1].offset = o[j - 1]
      BY <1>8, <1>9, <2>3
    <3>2. PICK w \in Nat, a \in Nat, b \in Nat :
            w = WidthOf(s[j].chars) /\ a = s[j].ask /\ b = o[j - 1]
      BY <1>7, <1>8
    <3>3. a <= w + 1 /\ o[j] = b + w
      BY <1>4, <1>7, <3>2
    <3>4. o[j] <= o[n] /\ o[j] \in Nat /\ o[n] \in Nat
      BY <1>4, <1>8, <2>1
    <3>5. a + b + 1 \in Nat /\ o[n] + 2 \in Nat /\ a + b + 1 <= o[n] + 2
      BY <3>3, <3>4
    <3>6. /\ r[j - 1].length \in Nat /\ p.length <= r[j - 1].length /\ Kept(r[j - 1], p)
      BY <1>6, <1>8, <1>60, <1>92, <3>1
    <3>7. ~Lacks(r[j - 1], a + b + 1)
      BY <1>5, <1>12, <3>5, <3>6, LacksGrows
    <3>8. a + b + 1 = s[j].ask + r[j - 1].offset + 1
      BY <3>1, <3>2
    <3>9. Grown(r[j], r[j - 1], s[j])
      BY <1>7, <3>1, <3>7, <3>8
    <3> QED BY <1>8, <3>9 DEF Grown
  <2> HIDE DEF T
  <2>4. \A j \in 0..n : j \in T
    BY <2>2, <2>3, UpTo
  <2> QED BY <1>10, <2>4 DEF T
<1>13. Sound(r[n]) /\ Kept(r[n], p)
  BY <1>6, <1>10
<1>14. r[n].ok => r[n].chars = TextOf(s)
  BY <1>10, <1>41, <1>91
<1> QED BY <1>3, <1>4, <1>11, <1>12, <1>13, <1>14
-----------------------------------------------------------------------------
(* What is printed of a value. *)

\* How an item is printed, by its type.
LEMMA ItemPrints ==
  ASSUME NEW v, NEW format, NEW depth, NEW Inner
  PROVE  /\ v.type \in Atoms => PrintItem(v, format, depth, Inner) = PrintAtom(v.type)
         /\ v.type = "array" =>
              PrintItem(v, format, depth, Inner) = PrintArray(v, format, depth, Inner)
         /\ v.type = "object" =>
              PrintItem(v, format, depth, Inner) = PrintObject(v, format, depth, Inner)
<1>1. "array" \notin Atoms /\ "object" \notin Atoms
  BY ValueAssumption
<1>2. CASE v.type \in Atoms
  <2>1. v.type # "array" /\ v.type # "object"
    BY <1>1, <1>2
  <2> QED BY <2>1 DEF PrintItem
<1>3. CASE v.type = "array"
  <2>1. v.type \notin Atoms /\ v.type # "object"
    BY <1>1, <1>3
  <2> QED BY <1>3, <2>1 DEF PrintItem
<1>4. CASE v.type = "object"
  <2>1. v.type \notin Atoms /\ v.type # "array"
    BY <1>1, <1>4
  <2> QED BY <1>4, <2>1 DEF PrintItem
<1> QED BY <1>2, <1>3, <1>4

LevelStep(f, n, format) ==
  [x \in Values[n] |-> [depth \in Nat |-> PrintItem(x, format, depth, f[n - 1])]]

LEMMA LevelStepSame ==
  ASSUME NEW f, NEW g, NEW format, NEW n \in 0..MaxDepth, n # 0 => f[n - 1] = g[n - 1]
  PROVE  LevelStep(f, n, format) = LevelStep(g, n, format)
<1>1. CASE n = 0
  <2>1. ASSUME NEW x \in Values[n], NEW depth \in Nat
        PROVE  PrintItem(x, format, depth, f[n - 1]) = PrintItem(x, format, depth, g[n - 1])
    <3>1. x.type \in Atoms
      BY <1>1, ValueIs
    <3> QED BY <3>1, ItemPrints
  <2> QED BY <2>1 DEF LevelStep
<1>2. CASE n # 0
  BY <1>2 DEF LevelStep
<1> QED BY <1>1, <1>2

LEMMA LevelsExist ==
  ASSUME NEW format
  PROVE  \E f : f = [n \in 0..MaxDepth |-> LevelStep(f, n, format)]
<1> DEFINE T == {m \in 0..MaxDepth : \E f : f = [k \in 0..m |-> LevelStep(f, k, format)]}
<1>1. MaxDepth \in Nat
  BY ValueAssumption
<1>2. 0 \in T
  <2>1. PICK f : f = [k \in 0..0 |-> LevelStep(<<>>, 0, format)]
    OBVIOUS
  <2>2. 0 \in 0..MaxDepth /\ \A k \in 0..0 : k = 0
    BY <1>1
  <2>3. LevelStep(f, 0, format) = LevelStep(<<>>, 0, format)
    BY <2>2, LevelStepSame
  <2>4. f = [k \in 0..0 |-> LevelStep(f, k, format)]
    BY <2>1, <2>2, <2>3
  <2> QED BY <2>2, <2>4
<1>3. ASSUME NEW m \in 1..MaxDepth, m - 1 \in T PROVE m \in T
  <2>1. PICK f : f = [k \in 0..(m - 1) |-> LevelStep(f, k, format)]
    BY <1>3
  <2>2. PICK g : g = [k \in 0..m |-> IF k = m THEN LevelStep(f, m, format) ELSE f[k]]
    OBVIOUS
  <2>3. /\ m \in 0..MaxDepth /\ m \in 0..m /\ m # 0
        /\ \A k \in 0..m : k # m => k \in 0..(m - 1)
        /\ \A k \in 0..(m - 1) : /\ k \in 0..m /\ k # m /\ k \in 0..MaxDepth
                                 /\ k # 0 => k - 1 \in 0..(m - 1)
    BY <1>1
  <2>4. \A k \in 0..(m - 1) : g[k] = f[k]
    BY <2>2, <2>3
  <2>5. ASSUME NEW k \in 0..m PROVE g[k] = LevelStep(g, k, format)
    <3>1. CASE k = m
      <4>1. m - 1 \in 0..(m - 1)
        OBVIOUS
      <4>2. LevelStep(f, m, format) = LevelStep(g, m, format)
        BY <2>3, <2>4, <4>1, LevelStepSame
      <4>3. g[m] = LevelStep(f, m, format)
        BY <2>2, <2>3
      <4> QED BY <3>1, <4>2, <4>3
    <3>2. CASE k # m
      <4>1. k \in 0..(m - 1) /\ k \in 0..MaxDepth /\ (k # 0 => k - 1 \in 0..(m - 1))
        BY <2>3, <3>2
      <4>2. f[k] = LevelStep(f, k, format)
        BY <2>1, <4>1
      <4>3. LevelStep(f, k, format) = LevelStep(g, k, format)
        BY <2>4, <4>1, LevelStepSame
      <4> QED BY <2>4, <4>1, <4>2, <4>3
    <3> QED BY <3>1, <3>2
  <2>6. g = [k \in 0..m |-> LevelStep(g, k, format)]
    BY <2>2, <2>5
  <2> QED BY <2>3, <2>6
<1>4. \A m \in 0..MaxDepth : m \in T
  <2> HIDE DEF T
  <2> QED BY <1>1, <1>2, <1>3, UpTo
<1>5. MaxDepth \in 0..MaxDepth
  BY <1>1
<1> QED BY <1>4, <1>5

\* level is the printer: what is printed of a value so many levels deep.
PrintLevels(level, format) ==
  /\ \A n \in 0..MaxDepth : \A x \in Values[n], depth \in Nat :
       level[n][x][depth] = PrintItem(x, format, depth, level[n - 1])
  /\ \A v : PrintValue(v, format) = level[MaxDepth][v][0]

LEMMA PrinterIs ==
  ASSUME NEW format \in BOOLEAN
  PROVE  \E level : PrintLevels(level, format)
<1> DEFINE level == CHOOSE f : f = [n \in 0..MaxDepth |->
                      [x \in Values[n] |->
                        [depth \in Nat |-> PrintItem(x, format, depth, f[n - 1])]]]
<1>2. \A v : PrintValue(v, format) = level[MaxDepth][v][0]
  BY DEF PrintValue
<1>3. level = [n \in 0..MaxDepth |-> LevelStep(level, n, format)]
  <2>1. PICK f : f = [n \in 0..MaxDepth |-> LevelStep(f, n, format)]
    BY LevelsExist
  <2>2. f = [n \in 0..MaxDepth |->
              [x \in Values[n] |->
                [depth \in Nat |-> PrintItem(x, format, depth, f[n - 1])]]]
    BY <2>1, Zenon DEF LevelStep
  <2>3. level = [n \in 0..MaxDepth |->
                  [x \in Values[n] |->
                    [depth \in Nat |-> PrintItem(x, format, depth, level[n - 1])]]]
    BY <2>2, Zenon
  <2> HIDE DEF level
  <2> QED BY <2>3, Zenon DEF LevelStep
<1> HIDE DEF level
<1>4. ASSUME NEW n \in 0..MaxDepth, NEW x \in Values[n], NEW depth \in Nat
      PROVE  level[n][x][depth] = PrintItem(x, format, depth, level[n - 1])
  <2>1. level[n] = LevelStep(level, n, format)
    BY <1>3, Zenon
  <2>2. level[n] = [y \in Values[n] |->
                     [d \in Nat |-> PrintItem(y, format, d, level[n - 1])]]
    BY <2>1, Zenon DEF LevelStep
  <2>3. level[n][x] = [d \in Nat |-> PrintItem(x, format, d, level[n - 1])]
    BY <2>2
  <2> QED BY <2>3
<1> QED BY <1>2, <1>4 DEF PrintLevels

\* The items in a value of level n are printed at the level below.
LEMMA InnerIs ==
  ASSUME NEW level, NEW n \in 1..MaxDepth, NEW x \in Values[n], x.type \notin Atoms,
         \A y \in Values[n - 1], depth \in Nat : Terminated(level[n - 1][y][depth])
  PROVE  /\ x.type \in {"array", "object"} /\ x.of \in Seq(Values[n - 1]) /\ Len(x.of) \in Nat
         /\ x.type = "object" => Named(x.of)
         /\ InnerPrints(x, level[n - 1])
<1>1. n \in 0..MaxDepth
  BY ValueAssumption
<1>2. /\ x.type \in {"array", "object"} /\ x.of \in Seq(Values[n - 1])
      /\ x.type = "object" => Named(x.of)
  BY <1>1, ValueIs, Zenon
<1>3. Len(x.of) \in Nat /\ \A k \in 1..Len(x.of) : x.of[k] \in Values[n - 1]
  BY <1>2, LenProperties, ElementOfSeq
<1>4. PICK Inner : Inner = level[n - 1]
  OBVIOUS
<1>5. InnerPrints(x, Inner)
  BY <1>3, <1>4 DEF InnerPrints
<1> QED BY <1>2, <1>3, <1>4, <1>5

\* The last piece that is printed of a value ends with a NUL, and each of them
\* asks for what it takes.
LEMMA LevelPrints ==
  ASSUME NEW format \in BOOLEAN, NEW level, PrintLevels(level, format),
         NEW n \in 0..MaxDepth, NEW x \in Values[n], NEW depth \in Nat
  PROVE  Terminated(level[n][x][depth])
<1>1. MaxDepth \in Nat
  BY ValueAssumption
<1> DEFINE Done(m) == \A y \in Values[m], d \in Nat : Terminated(level[m][y][d])
           T == {m \in 0..MaxDepth : Done(m)}
<1>2. ASSUME NEW m \in 0..MaxDepth, NEW y \in Values[m], NEW d \in Nat
      PROVE  level[m][y][d] = PrintItem(y, format, d, level[m - 1])
  BY Zenon DEF PrintLevels
<1>3. ASSUME NEW m \in 0..MaxDepth, NEW y \in Values[m], NEW d \in Nat, y.type \in Atoms
      PROVE  Terminated(level[m][y][d])
  BY <1>2, <1>3, ItemPrints, AtomPrints
<1>4. 0 \in T
  <2>1. 0 \in 0..MaxDepth
    BY <1>1
  <2>2. \A y \in Values[0] : y.type \in Atoms
    BY <2>1, ValueIs
  <2> QED BY <1>3, <2>1, <2>2
<1>5. ASSUME NEW m \in 1..MaxDepth, m - 1 \in T PROVE m \in T
  <2>1. m \in 0..MaxDepth
    BY <1>1
  <2>2. ASSUME NEW y \in Values[m], NEW d \in Nat, y.type \notin Atoms
        PROVE  Terminated(level[m][y][d])
    <3>1. PICK Inner : Inner = level[m - 1]
      OBVIOUS
    <3>2. /\ y.type \in {"array", "object"} /\ Len(y.of) \in Nat
          /\ y.type = "object" => Named(y.of)
          /\ InnerPrints(y, Inner)
      BY <1>5, <2>2, <3>1, InnerIs
    <3>3. level[m][y][d] = PrintItem(y, format, d, Inner)
      BY <1>2, <2>1, <3>1
    <3>4. CASE y.type = "array"
      <4>1. Terminated(PrintArray(y, format, d, Inner))
        BY <3>2, ArrayPrints
      <4> QED BY <3>3, <3>4, <4>1, ItemPrints
    <3>5. CASE y.type = "object"
      <4>1. Terminated(PrintObject(y, format, d, Inner))
        BY <3>2, <3>5, ObjectPrints
      <4> QED BY <3>3, <3>5, <4>1, ItemPrints
    <3> QED BY <3>2, <3>4, <3>5
  <2> QED BY <1>3, <2>1, <2>2
<1> HIDE DEF T
<1>6. \A m \in 0..MaxDepth : m \in T
  BY <1>1, <1>4, <1>5, UpTo
<1> QED BY <1>6 DEF T

LEMMA ValuePrints ==
  ASSUME NEW v \in Values[MaxDepth], NEW format \in BOOLEAN
  PROVE  Terminated(PrintValue(v, format))
<1>1. MaxDepth \in 0..MaxDepth /\ 0 \in Nat
  BY ValueAssumption
<1>2. PICK level : PrintLevels(level, format)
  BY PrinterIs
<1>3. Terminated(level[MaxDepth][v][0])
  BY <1>1, <1>2, LevelPrints
<1> QED BY <1>2, <1>3 DEF PrintLevels

\* What a caller prints is a value that is at most MaxDepth levels deep.
LEMMA ValueInvariant == Spec => []OfValues
<1>1. MaxDepth \in 0..MaxDepth /\ MaxDepth # 0
  BY ValueAssumption
<1>2. Item("array", <<>>) \in Values[MaxDepth]
  <2>1. PICK x : x = Item("array", <<>>)
    OBVIOUS
  <2>2. x \in [type : {"array", "object"}, of : Seq(Values[MaxDepth - 1])]
    BY <2>1 DEF Item
  <2>3. x.type # "object"
    BY <2>1 DEF Item
  <2>4. x \in ValuesStep(Values, MaxDepth)
    BY <1>1, <2>2, <2>3 DEF ValuesStep
  <2>5. x \in Values[MaxDepth]
    BY <1>1, <2>4, ValuesLevels
  <2> QED BY <2>1, <2>5
<1>3. Init => OfValues
  BY <1>2 DEF Init, ValueInit, OfValues
<1>4. OfValues /\ [Next]_vars => OfValues'
  <2>1. ValueNext => OfValues'
    BY DEF ValueNext, Nest, OfValues
  <2>2. OfValues /\ UNCHANGED value => OfValues'
    BY DEF OfValues
  <2>3. value' = Item("array", <<>>) => OfValues'
    BY <1>2 DEF OfValues
  <2> QED BY <2>1, <2>2, <2>3 DEF Next, Write, Garble, vars
<1> QED BY <1>3, <1>4, PTL DEF Spec

LEMMA ValuePrinted ==
  ASSUME NEW v \in Values[MaxDepth], NEW format \in BOOLEAN,
         NEW length \in 0..INT_MAX, NEW noalloc \in BOOLEAN,
         NEW memory \in Nat, noalloc \/ length <= memory
  PROVE  LET pieces == PrintValue(v, format)
             p == Printed(pieces, length, noalloc, memory)
             needed == WidthOf(TextOf(pieces)) + 2 IN
         /\ Sound(p) /\ p.noalloc = noalloc
         /\ p.ok => /\ needed <= (IF noalloc THEN length ELSE memory)
                    /\ p.chars = TextOf(pieces)
         /\ ~p.ok => /\ needed > length
                     /\ noalloc \/ needed > INT_MAX \/ NewSize(needed) > memory
<1>1. PICK s : s = PrintValue(v, format)
  OBVIOUS
<1>2. Terminated(s)
  BY <1>1, ValuePrints
<1>3. PICK p : p = [length |-> length, offset |-> 0, noalloc |-> noalloc, ok |-> TRUE,
                    memory |-> memory, held |-> TRUE, freed |-> 0,
                    chars |-> <<>>, within |-> TRUE]
  OBVIOUS
<1>4. INT_MAX \in Nat /\ length \in Nat /\ length <= INT_MAX
  BY IntAssumption
<1>5. /\ p \in PrintState /\ p.ok /\ p.offset = 0 /\ p.within /\ p.chars = <<>>
      /\ p.length = length /\ p.noalloc = noalloc
      /\ p.memory = memory /\ p.held /\ p.freed = 0
  BY <1>3, <1>4 DEF PrintState
<1>6. Sound(p)
  BY <1>4, <1>5 DEF Sound, Room
<1>7. Room(p) = IF noalloc THEN length ELSE memory
  BY <1>5 DEF Room
<1>8. Printed(s, length, noalloc, memory) = FoldLeft(Put, p, s)
  BY <1>3 DEF Printed
<1>9. PICK needed : needed = WidthOf(TextOf(s)) + 2
  OBVIOUS
<1>10. Lacks(p, needed) =>
         needed > length /\ (noalloc \/ needed > INT_MAX \/ NewSize(needed) > memory)
  BY <1>5 DEF Lacks
<1>11. PICK q : q = FoldLeft(Put, p, s)
  OBVIOUS
<1>12. /\ Sound(q) /\ Kept(q, p)
       /\ q.ok => needed <= Room(p) /\ q.chars = TextOf(s)
       /\ ~q.ok => Lacks(p, needed)
  BY <1>2, <1>5, <1>6, <1>9, <1>11, PiecesFit
<1>13. q.noalloc = noalloc
  BY <1>5, <1>12 DEF Kept
<1> QED BY <1>1, <1>7, <1>8, <1>9, <1>10, <1>11, <1>12, <1>13

\* Whoever prints frees the buffer once, unless its text is returned.
LEMMA ReturnedFreed ==
  ASSUME NEW p, Sound(p), NEW shrinks \in BOOLEAN
  PROVE  LET q == Returned(p, shrinks) IN q.freed = IF q.ok \/ p.noalloc THEN 0 ELSE 1
<1>1. /\ p \in PrintState
      /\ p.noalloc \/ p.ok => p.held
      /\ p.freed = IF p.held THEN 0 ELSE 1
  BY DEF Sound
<1>2. CASE p.noalloc \/ (p.ok /\ shrinks)
  <2>1. Returned(p, shrinks) = p
    BY <1>2 DEF Returned
  <2> QED BY <1>1, <1>2, <2>1
<1>3. CASE ~(p.noalloc \/ (p.ok /\ shrinks))
  <2>1. PICK q : q = Refused(Deallocated(p))
    OBVIOUS
  <2>2. Returned(p, shrinks) = q
    BY <1>3, <2>1 DEF Returned
  <2>3. ~q.ok /\ q.freed = 1
    BY <1>1, <2>1 DEF Refused, Deallocated, PrintState
  <2> QED BY <1>3, <2>2, <2>3
<1> QED BY <1>2, <1>3

\* No byte is printed outside the buffer, of any value; a buffer of the caller's
\* is refused exactly if it lacks the text, its NUL and one byte more, one that
\* may grow only when INT_MAX or the memory is exceeded; and a buffer that is not
\* returned was freed, once, also when its reallocation failed (ensure and the
\* functions that print, cJSON.c:458-541, 1208-1826).
THEOREM PrintingFits == Spec => []PrintFits
<1>1. ASSUME OfValues PROVE PrintFits
  <2> SUFFICES ASSUME NEW format \in BOOLEAN, NEW length \in 0..INT_MAX, NEW noalloc \in BOOLEAN,
                      NEW memory \in IF noalloc THEN {length} ELSE length..INT_MAX
               PROVE  LET pieces == PrintValue(value, format)
                          needed == WidthOf(TextOf(pieces)) + 2
                          p == Printed(pieces, length, noalloc, memory) IN
                      /\ p.within
                      /\ p.ok => needed <= IF noalloc THEN length ELSE memory
                      /\ ~p.ok => /\ needed > length
                                  /\ noalloc \/ needed > INT_MAX \/ NewSize(needed) > memory
                      /\ \A shrinks \in BOOLEAN :
                           LET q == Returned(p, shrinks) IN
                           q.freed = IF q.ok \/ noalloc THEN 0 ELSE 1
    BY Zenon DEF PrintFits
  <2>1. value \in Values[MaxDepth]
    BY <1>1 DEF OfValues
  <2>2. memory \in Nat /\ (noalloc \/ length <= memory)
    BY IntAssumption
  <2>3. PICK p : p = Printed(PrintValue(value, format), length, noalloc, memory)
    OBVIOUS
  <2>4. PICK needed : needed = WidthOf(TextOf(PrintValue(value, format))) + 2
    OBVIOUS
  <2>5. /\ Sound(p) /\ p.noalloc = noalloc
        /\ p.ok => needed <= (IF noalloc THEN length ELSE memory)
        /\ ~p.ok => /\ needed > length
                    /\ noalloc \/ needed > INT_MAX \/ NewSize(needed) > memory
    BY <2>1, <2>2, <2>3, <2>4, ValuePrinted
  <2>6. p.within
    BY <2>5 DEF Sound
  <2>7. \A shrinks \in BOOLEAN :
          LET q == Returned(p, shrinks) IN q.freed = IF q.ok \/ noalloc THEN 0 ELSE 1
    BY <2>5, ReturnedFreed
  <2> QED BY <2>3, <2>4, <2>5, <2>6, <2>7, Zenon
<1> QED BY <1>1, ValueInvariant, PTL

-----------------------------------------------------------------------------
(* The texts that pieces have. *)

LEMMA TextType ==
  ASSUME NEW s \in Seq(Fair)
  PROVE  TextOf(s) \in Seq(Characters) /\ Len(TextOf(s)) \in Nat
<1>1. PICK n \in Nat : n = Len(s)
  BY LenProperties
<1>2. PICK f, o : Grows(f, o, s, n)
  BY <1>1, TextWidths
<1>3. f \in [0..n -> Seq(Characters)] /\ TextOf(s) = f[n]
  BY <1>2, Zenon DEF Grows
<1>4. n \in 0..n
  OBVIOUS
<1> QED BY <1>3, <1>4, LenProperties

LEMMA TextOfNone ==
  TextOf(<<>>) = <<>>
<1>1. PICK s : s = <<>>
  OBVIOUS
<1>2. s \in Seq(Fair) /\ Len(s) = 0 /\ 0 \in Nat
  BY <1>1
<1>3. PICK f, o : Grows(f, o, s, 0)
  BY <1>2, TextWidths
<1>4. f[0] = <<>> /\ TextOf(s) = f[0]
  BY <1>3, Zenon DEF Grows
<1> QED BY <1>1, <1>4

LEMMA TextOfPiece ==
  ASSUME NEW ask \in Nat, NEW chars \in Seq(Characters), NEW nul \in BOOLEAN,
         Piece(ask, chars, nul) \in Seq(Fair)
  PROVE  TextOf(Piece(ask, chars, nul)) = chars
<1>1. PICK s : s = Piece(ask, chars, nul)
  OBVIOUS
<1>2. s \in Seq(Fair) /\ Len(s) = 1 /\ s[1].chars = chars
  BY <1>1 DEF Piece
<1>3. PICK f, o : Grows(f, o, s, 1)
  BY <1>2, TextWidths
<1>4. f[0] = <<>> /\ TextOf(s) = f[1] /\ \A k \in 1..1 : f[k] = f[k - 1] \o s[k].chars
  BY <1>3, Zenon DEF Grows
<1>5. 1 \in 1..1 /\ 1 - 1 = 0
  OBVIOUS
<1>6. f[1] = <<>> \o chars
  BY <1>2, <1>4, <1>5
<1>7. <<>> \o chars = chars
  OBVIOUS
<1> QED BY <1>1, <1>4, <1>6, <1>7

LEMMA ConcatThree ==
  ASSUME NEW E, NEW a \in Seq(E), NEW b \in Seq(E), NEW c \in Seq(E)
  PROVE  (a \o b) \o c = a \o (b \o c)
OBVIOUS

LEMMA TextOfConcat ==
  ASSUME NEW s \in Seq(Fair), NEW u \in Seq(Fair)
  PROVE  TextOf(s \o u) = TextOf(s) \o TextOf(u)
<1>1. PICK m \in Nat, n \in Nat : m = Len(s) /\ n = Len(u)
  BY LenProperties
<1>2. PICK c : c = s \o u
  OBVIOUS
<1>3. PICK l \in Nat : l = m + n
  OBVIOUS
<1>4. /\ c \in Seq(Fair) /\ Len(c) = l
      /\ \A k \in 1..m : c[k] = s[k]
      /\ \A k \in 1..n : c[m + k] = u[k]
  <2>1. Joins(c, s, u, Fair)
    BY <1>2, ConcatJoins
  <2> QED BY <1>1, <1>3, <2>1 DEF Joins
<1>5. PICK f, o : Grows(f, o, s, m)
  BY <1>1, TextWidths
<1>6. PICK g, o1 : Grows(g, o1, u, n)
  BY <1>1, TextWidths
<1>7. PICK h, o2 : Grows(h, o2, c, l)
  BY <1>4, TextWidths
<1>8. /\ f \in [0..m -> Seq(Characters)] /\ f[0] = <<>> /\ TextOf(s) = f[m]
      /\ \A k \in 1..m : f[k] = f[k - 1] \o s[k].chars
  BY <1>5, Zenon DEF Grows
<1>9. /\ g \in [0..n -> Seq(Characters)] /\ g[0] = <<>> /\ TextOf(u) = g[n]
      /\ \A k \in 1..n : g[k] = g[k - 1] \o u[k].chars
  BY <1>6, Zenon DEF Grows
<1>10. /\ h[0] = <<>> /\ TextOf(c) = h[l]
       /\ \A k \in 1..l : h[k] = h[k - 1] \o c[k].chars
  BY <1>7, Zenon DEF Grows
<1> DEFINE T == {k \in 0..m : h[k] = f[k]}
           U == {k \in 0..n : h[m + k] = f[m] \o g[k]}
<1>11. \A k \in 0..m : k \in T
  <2>1. 0 \in T
    BY <1>8, <1>10
  <2>2. ASSUME NEW k \in 1..m, k - 1 \in T PROVE k \in T
    <3>1. k \in 1..l /\ k \in 0..m
      BY <1>3
    <3>2. h[k] = h[k - 1] \o c[k].chars /\ c[k] = s[k] /\ f[k] = f[k - 1] \o s[k].chars
      BY <1>4, <1>8, <1>10, <3>1
    <3> QED BY <2>2, <3>1, <3>2
  <2> HIDE DEF T
  <2> QED BY <2>1, <2>2, UpTo
<1>12. m \in 0..m /\ n \in 0..n
  OBVIOUS
<1>13. \A k \in 0..n : k \in U
  <2>1. 0 \in U
    <3>1. h[m] = f[m] /\ m + 0 = m /\ 0 \in 0..n
      BY <1>11, <1>12
    <3>2. f[m] \o <<>> = f[m]
      BY <1>8, <1>12
    <3> QED BY <1>9, <3>1, <3>2
  <2>2. ASSUME NEW k \in 1..n, k - 1 \in U PROVE k \in U
    <3>1. /\ k \in 0..n /\ k - 1 \in 0..n /\ m + k \in 1..l
          /\ (m + k) - 1 = m + (k - 1)
      BY <1>3
    <3>2. h[m + k] = h[m + (k - 1)] \o c[m + k].chars
      BY <1>10, <3>1
    <3>3. h[m + (k - 1)] = f[m] \o g[k - 1]
      BY <2>2
    <3>4. c[m + k] = u[k] /\ g[k] = g[k - 1] \o u[k].chars
      BY <1>4, <1>9
    <3>5. f[m] \in Seq(Characters) /\ g[k - 1] \in Seq(Characters)
      BY <1>8, <1>9, <1>12, <3>1
    <3>6. u[k].chars \in Seq(Characters)
      <4>1. u[k] \in Fair
        BY <1>1, ElementOfSeq
      <4> QED BY <4>1 DEF Fair, PieceType
    <3>7. (f[m] \o g[k - 1]) \o u[k].chars = f[m] \o (g[k - 1] \o u[k].chars)
      <4>1. PICK x \in Seq(Characters), y \in Seq(Characters), z \in Seq(Characters) :
              x = f[m] /\ y = g[k - 1] /\ z = u[k].chars
        BY <3>5, <3>6
      <4>2. (x \o y) \o z = x \o (y \o z)
        BY ConcatThree
      <4> QED BY <4>1, <4>2
    <3> QED BY <3>1, <3>2, <3>3, <3>4, <3>7
  <2> HIDE DEF U
  <2> QED BY <2>1, <2>2, UpTo
<1>14. h[m + n] = f[m] \o g[n]
  BY <1>12, <1>13
<1> QED BY <1>2, <1>3, <1>8, <1>9, <1>10, <1>14

LEMMA TextOfIf ==
  ASSUME NEW c \in BOOLEAN, NEW s
  PROVE  TextOf(If(c, s)) = If(c, TextOf(s))
BY TextOfNone DEF If

\* What the text of a list is after each element.
Lists(g, p, n) ==
  /\ g \in [0..n -> Seq(Characters)] /\ g[0] = <<>> /\ TextOf(FlattenSeq(p)) = g[n]
  /\ \A k \in 1..n : g[k] = g[k - 1] \o TextOf(p[k])

LEMMA TextOfList ==
  ASSUME NEW n \in Nat, NEW p, p = [k \in 1..n |-> p[k]], \A k \in 1..n : p[k] \in Seq(Fair)
  PROVE  \E g : Lists(g, p, n)
<1> DEFINE V == Seq(Fair)
<1>1. p \in [1..n -> V]
  OBVIOUS
<1> HIDE DEF V
<1>2. p \in Seq(V) /\ Len(p) = n
  BY <1>1, IsSequence
<1>3. PICK f : Flattens(f, p, Fair) /\ FlattenSeq(p) = f[n]
  BY <1>2, FlattenRun DEF V
<1>4. f \in [0..n -> Seq(Fair)] /\ f[0] = <<>> /\ \A k \in 1..n : f[k] = f[k - 1] \o p[k]
  BY <1>2, <1>3, Zenon DEF Flattens
<1>5. PICK g : g = [k \in 0..n |-> TextOf(f[k])]
  OBVIOUS
<1>6. /\ 0 \in 0..n /\ n \in 0..n
      /\ \A k \in 1..n : k - 1 \in 0..n /\ k \in 0..n
  OBVIOUS
<1>7. g \in [0..n -> Seq(Characters)]
  <2>1. \A k \in 0..n : TextOf(f[k]) \in Seq(Characters)
    BY <1>4, TextType
  <2> QED BY <1>5, <2>1
<1>8. g[0] = <<>>
  BY <1>4, <1>5, <1>6, TextOfNone
<1>9. ASSUME NEW k \in 1..n PROVE g[k] = g[k - 1] \o TextOf(p[k])
  <2>1. f[k - 1] \in Seq(Fair) /\ p[k] \in Seq(Fair)
    BY <1>4, <1>6
  <2>2. TextOf(f[k - 1] \o p[k]) = TextOf(f[k - 1]) \o TextOf(p[k])
    BY <2>1, TextOfConcat
  <2>3. g[k] = TextOf(f[k]) /\ g[k - 1] = TextOf(f[k - 1])
    BY <1>5, <1>6
  <2> QED BY <1>4, <2>2, <2>3
<1>10. TextOf(FlattenSeq(p)) = g[n]
  BY <1>3, <1>5, <1>6
<1> QED BY <1>7, <1>8, <1>9, <1>10 DEF Lists
-----------------------------------------------------------------------------
(* Where a text has another in it. *)

Occurs(t, i, s) ==
  /\ i \in Nat \ {0} /\ i + Len(s) <= Len(t) + 1
  /\ \A q \in 1..Len(s) : t[(i + q) - 1] = s[q]

LEMMA OccursConcat ==
  ASSUME NEW t \in Seq(Characters), NEW a \in Seq(Characters), NEW b \in Seq(Characters),
         NEW i, Occurs(t, i, a \o b)
  PROVE  Occurs(t, i, a) /\ i + Len(a) \in Nat /\ Occurs(t, i + Len(a), b)
<1>1. PICK l \in Nat, m \in Nat, n \in Nat : l = Len(t) /\ m = Len(a) /\ n = Len(b)
  BY LenProperties
<1>2. PICK c : c = a \o b
  OBVIOUS
<1>3. /\ Len(c) = m + n
      /\ \A q \in 1..m : c[q] = a[q]
      /\ \A q \in 1..n : c[m + q] = b[q]
  <2>1. Joins(c, a, b, Characters)
    BY <1>2, ConcatJoins
  <2> QED BY <1>1, <2>1 DEF Joins
<1>4. /\ i \in Nat \ {0} /\ i + (m + n) <= l + 1
      /\ \A q \in 1..(m + n) : t[(i + q) - 1] = c[q]
  BY <1>1, <1>2, <1>3 DEF Occurs
<1>5. ASSUME NEW q \in 1..m PROVE t[(i + q) - 1] = a[q]
  <2>1. q \in 1..(m + n)
    OBVIOUS
  <2> QED BY <1>3, <1>4, <2>1
<1>6. ASSUME NEW q \in 1..n PROVE t[((i + m) + q) - 1] = b[q]
  <2>1. m + q \in 1..(m + n) /\ (i + (m + q)) - 1 = ((i + m) + q) - 1
    BY <1>4
  <2>2. t[(i + (m + q)) - 1] = c[m + q]
    BY <1>4, <2>1
  <2> QED BY <1>3, <2>1, <2>2
<1>7. i + m \in Nat \ {0} /\ i + m <= l + 1 /\ (i + m) + n <= l + 1
  BY <1>4
<1> QED BY <1>1, <1>4, <1>5, <1>6, <1>7 DEF Occurs

\* One character.
LEMMA OccursOne ==
  ASSUME NEW t \in Seq(Characters), NEW c, NEW i, Occurs(t, i, <<c>>)
  PROVE  i \in 1..Len(t) /\ t[i] = c
<1>1. Len(<<c>>) = 1 /\ <<c>>[1] = c /\ 1 \in 1..1
  OBVIOUS
<1>2. PICK l \in Nat : l = Len(t)
  BY LenProperties
<1>3. i \in Nat \ {0} /\ i + 1 <= l + 1 /\ t[(i + 1) - 1] = c
  BY <1>1, <1>2 DEF Occurs
<1>4. i \in 1..l /\ (i + 1) - 1 = i
  BY <1>3
<1> QED BY <1>2, <1>3, <1>4

\* The first character.
LEMMA OccursFirst ==
  ASSUME NEW t \in Seq(Characters), NEW s \in Seq(Characters), NEW i, Occurs(t, i, s), s # <<>>
  PROVE  i \in 1..Len(t) /\ t[i] = s[1]
<1>1. PICK l \in Nat, n \in Nat : l = Len(t) /\ n = Len(s)
  BY LenProperties
<1>2. n # 0
  BY <1>1, EmptySeq
<1>3. 1 \in 1..n
  BY <1>2
<1>4. i \in Nat \ {0} /\ i + n <= l + 1 /\ t[(i + 1) - 1] = s[1]
  BY <1>1, <1>3 DEF Occurs
<1>5. i \in 1..l /\ (i + 1) - 1 = i
  BY <1>2, <1>4
<1> QED BY <1>1, <1>4, <1>5

\* The texts of a list.
LEMMA OccursList ==
  ASSUME NEW t \in Seq(Characters), NEW n \in Nat, NEW g, NEW p,
         g \in [0..n -> Seq(Characters)], \A k \in 1..n : TextOf(p[k]) \in Seq(Characters),
         \A k \in 1..n : g[k] = g[k - 1] \o TextOf(p[k]),
         NEW i, Occurs(t, i, g[n])
  PROVE  \A k \in 1..n : /\ Len(g[k - 1]) \in Nat
                         /\ Occurs(t, i + Len(g[k - 1]), TextOf(p[k]))
<1> DEFINE T == {k \in 0..n : Occurs(t, i, g[k])}
<1>1. ASSUME NEW k \in 1..n, k \in T
      PROVE  /\ k - 1 \in T /\ Len(g[k - 1]) \in Nat
             /\ Occurs(t, i + Len(g[k - 1]), TextOf(p[k]))
  <2>1. k - 1 \in 0..n
    OBVIOUS
  <2>2. PICK a \in Seq(Characters), b \in Seq(Characters) : a = g[k - 1] /\ b = TextOf(p[k])
    BY <2>1
  <2>3. Occurs(t, i, a \o b)
    BY <1>1, <2>2
  <2>4. Occurs(t, i, a) /\ Occurs(t, i + Len(a), b) /\ Len(a) \in Nat
    BY <2>3, OccursConcat, LenProperties
  <2> QED BY <2>1, <2>2, <2>4
<1>2. ASSUME NEW k \in 0..n, \A j \in (k + 1)..n : j \in T PROVE k \in T
  <2>1. CASE k = n
    BY <2>1
  <2>2. CASE k # n
    <3>1. k + 1 \in 1..n /\ k + 1 \in (k + 1)..n /\ (k + 1) - 1 = k
      BY <2>2
    <3>2. PICK m \in 1..n : m = k + 1
      BY <3>1
    <3>3. m - 1 \in T
      BY <1>1, <1>2, <3>1, <3>2
    <3> QED BY <3>1, <3>2, <3>3
  <2> QED BY <2>1, <2>2
<1>3. 0 \in Int /\ n \in Int
  OBVIOUS
<1> HIDE DEF T
<1>4. \A k \in 0..n : k \in T
  BY <1>2, <1>3, DownTo
<1>5. \A k \in 1..n : k \in T
  BY <1>4
<1> QED BY <1>1, <1>5
-----------------------------------------------------------------------------
(* White space. *)

LEMMA LeastOf ==
  ASSUME NEW S, S \subseteq Nat, S # {}
  PROVE  Min(S) \in S /\ \A x \in S : Min(S) <= x
<1>1. \E x \in S : \A y \in S : x <= y
  <2>1. PICK x \in S : \A y \in S : x <= y
    BY LeastNumber
  <2> QED BY <2>1
<1> QED BY <1>1 DEF Min

LEMMA SkipIs ==
  ASSUME NEW t \in Seq(Characters), NEW i \in Nat
  PROVE  SkipWhitespace(t, i) \in Nat /\ SkipWhitespace(t, i) >= i
<1>1. PICK l \in Nat : l = Len(t)
  BY LenProperties
<1>2. PICK S : S = {j \in i..l : t[j] \notin White}
  OBVIOUS
<1>3. SkipWhitespace(t, i) = IF i > l THEN i ELSE IF S = {} THEN l ELSE Min(S)
  BY <1>1, <1>2 DEF SkipWhitespace
<1>4. S # {} => Min(S) \in S
  BY <1>2, LeastOf
<1>5. S # {} => Min(S) \in i..l
  BY <1>2, <1>4
<1> QED BY <1>3, <1>5

\* It stops at what is not white.
LEMMA SkipTo ==
  ASSUME NEW t \in Seq(Characters), NEW i \in Nat, NEW j \in i..Len(t),
         t[j] \notin White, \A q \in i..(j - 1) : t[q] \in White
  PROVE  SkipWhitespace(t, i) = j
<1>1. PICK l \in Nat : l = Len(t)
  BY LenProperties
<1>2. PICK S : S = {q \in i..l : t[q] \notin White}
  OBVIOUS
<1>3. SkipWhitespace(t, i) = IF i > l THEN i ELSE IF S = {} THEN l ELSE Min(S)
  BY <1>1, <1>2 DEF SkipWhitespace
<1>4. j \in S /\ ~(i > l) /\ S \subseteq Nat /\ j \in Nat
  BY <1>1, <1>2
<1>5. Min(S) \in S /\ Min(S) <= j
  BY <1>4, LeastOf
<1>6. Min(S) \in i..l /\ t[Min(S)] \notin White
  BY <1>2, <1>5
<1>7. PICK m \in i..l : m = Min(S)
  BY <1>6
<1>8. m = j
  <2>1. m \notin i..(j - 1)
    BY <1>6, <1>7
  <2> QED BY <1>4, <1>5, <1>7, <2>1
<1> QED BY <1>3, <1>4, <1>7, <1>8
-----------------------------------------------------------------------------
(* The loops of the parser, which end because each pass goes on in the text. *)

\* What At reads ends behind where it begins.
Advances(At) ==
  \A x \in Nat \ {0} : At[x].ok => At[x].at \in Nat /\ At[x].at > x

Ahead(r, i) == r.ok => r.at \in Nat /\ r.at > i

LEMMA FailedIs ==
  ~Failed.ok
BY DEF Failed

LEMMA ParsedIs ==
  ASSUME NEW at, NEW v
  PROVE  Parsed(at, v).ok /\ Parsed(at, v).at = at /\ Parsed(at, v).value = v
BY DEF Parsed

LEMMA ElementAdvances ==
  ASSUME NEW t \in Seq(Characters), NEW i \in Nat, NEW At, Advances(At)
  PROVE  Ahead(ParseElement(t, i, At), i)
<1>1. PICK j \in Nat : j = SkipWhitespace(t, i + 1) /\ j >= i + 1
  BY SkipIs
<1>2. j \in Nat \ {0} /\ j > i
  BY <1>1
<1>3. ParseElement(t, i, At) = IF At[j].ok THEN Parsed(At[j].at, <<At[j].value>>) ELSE Failed
  BY <1>1 DEF ParseElement
<1>4. At[j].ok => At[j].at \in Nat /\ At[j].at > j
  BY <1>2 DEF Advances
<1>5. CASE At[j].ok
  <2>1. ParseElement(t, i, At).at = At[j].at
    BY <1>3, <1>5, ParsedIs
  <2> QED BY <1>1, <1>4, <1>5, <2>1 DEF Ahead
<1>6. CASE ~At[j].ok
  BY <1>3, <1>6, FailedIs DEF Ahead
<1> QED BY <1>5, <1>6

LEMMA MemberAdvances ==
  ASSUME NEW t \in Seq(Characters), NEW i \in Nat, NEW At, Advances(At)
  PROVE  Ahead(ParseMember(t, i, At), i)
<1>1. PICK name \in Nat : name = SkipWhitespace(t, i + 1) /\ name >= i + 1
  BY SkipIs
<1>2. PICK colon \in Nat : colon = SkipWhitespace(t, name + 1) /\ colon >= name + 1
  BY SkipIs
<1>3. PICK j \in Nat : j = SkipWhitespace(t, colon + 1) /\ j >= colon + 1
  BY SkipIs
<1>4. PICK m : m = ParseMember(t, i, At)
  OBVIOUS
<1>5. m = Failed \/ (At[j].ok /\ m = Parsed(At[j].at, <<Item(t[name], <<>>), At[j].value>>))
  BY <1>1, <1>2, <1>3, <1>4 DEF ParseMember
<1>6. j \in Nat \ {0} /\ j > i
  BY <1>1, <1>2, <1>3
<1>7. At[j].ok => At[j].at \in Nat /\ At[j].at > j
  BY <1>6 DEF Advances
<1>8. CASE m = Failed
  BY <1>4, <1>8, FailedIs DEF Ahead
<1>9. CASE At[j].ok /\ m = Parsed(At[j].at, <<Item(t[name], <<>>), At[j].value>>)
  <2>1. m.at = At[j].at
    BY <1>9, ParsedIs
  <2> QED BY <1>4, <1>6, <1>7, <1>9, <2>1 DEF Ahead
<1> QED BY <1>5, <1>8, <1>9

LEMMA OneAdvances ==
  ASSUME NEW t \in Seq(Characters), NEW i \in Nat, NEW type, NEW At, Advances(At)
  PROVE  Ahead(ParseOne(t, i, type, At), i)
BY ElementAdvances, MemberAdvances DEF ParseOne

LEMMA CloseIs ==
  /\ Close["array"] = "]" /\ Close["object"] = "}"
  /\ \A type \in {"array", "object"} : Close[type] # ","
BY DEF Close

\* What a loop does at a character.
Continues(t, j, r, type, Rest, v) ==
  /\ t[j] = "," =>
       v = IF Rest[j].ok THEN Parsed(Rest[j].at, r.value \o Rest[j].value) ELSE Failed
  /\ t[j] = Close[type] => v = Parsed(j + 1, r.value)
  /\ t[j] # "," /\ t[j] # Close[type] => v = Failed

LEMMA GoOnIs ==
  ASSUME NEW t, NEW r, r.ok, NEW type \in {"array", "object"}, NEW Rest,
         NEW j, j = SkipWhitespace(t, r.at), Accessible(t, j)
  PROVE  Continues(t, j, r, type, Rest, GoOn(t, r, type, Rest))
<1>1. Close[type] # ","
  BY CloseIs
<1>2. GoOn(t, r, type, Rest) =
        CASE t[j] = "," ->
               IF Rest[j].ok THEN Parsed(Rest[j].at, r.value \o Rest[j].value) ELSE Failed
          [] t[j] = Close[type] -> Parsed(j + 1, r.value)
          [] OTHER -> Failed
  BY Zenon DEF GoOn
<1>3. CASE t[j] = ","
  BY <1>1, <1>2, <1>3, Zenon DEF Continues
<1>4. CASE t[j] = Close[type]
  BY <1>1, <1>2, <1>4, Zenon DEF Continues
<1>5. CASE t[j] # "," /\ t[j] # Close[type]
  BY <1>2, <1>5, Zenon DEF Continues
<1> QED BY <1>3, <1>4, <1>5

\* How a loop goes on: by Rest behind i, or not at all.
LEMMA GoesOn ==
  ASSUME NEW t \in Seq(Characters), NEW i \in 1..Len(t), NEW r, Ahead(r, i),
         NEW type \in {"array", "object"},
         NEW F, NEW G, \A j \in (i + 1)..Len(t) : F[j] = G[j],
         \A j \in (i + 1)..Len(t) : Ahead(F[j], j)
  PROVE  /\ GoOn(t, r, type, F) = GoOn(t, r, type, G)
         /\ Ahead(GoOn(t, r, type, F), i)
<1>1. CASE ~r.ok
  <2>1. GoOn(t, r, type, F) = Failed /\ GoOn(t, r, type, G) = Failed
    BY <1>1 DEF GoOn
  <2> QED BY <2>1, FailedIs DEF Ahead
<1>2. CASE r.ok
  <2>1. PICK a \in Nat : a = r.at /\ a > i
    BY <1>2 DEF Ahead
  <2>2. PICK j \in Nat : j = SkipWhitespace(t, a) /\ j >= a
    BY SkipIs
  <2>3. PICK l \in Nat : l = Len(t)
    BY LenProperties
  <2>4. CASE ~Accessible(t, j)
    <3>1. GoOn(t, r, type, F) = Failed /\ GoOn(t, r, type, G) = Failed
      BY <2>1, <2>2, <2>4 DEF GoOn
    <3> QED BY <3>1, FailedIs DEF Ahead
  <2>5. CASE Accessible(t, j)
    <3>1. j \in (i + 1)..l
      BY <2>1, <2>2, <2>3, <2>5 DEF Accessible
    <3>2. F[j] = G[j] /\ Ahead(F[j], j)
      BY <2>3, <3>1
    <3>3. j = SkipWhitespace(t, r.at)
      BY <2>1, <2>2
    <3>4. PICK v : v = GoOn(t, r, type, F)
      OBVIOUS
    <3> DEFINE Same == v = GoOn(t, r, type, G)
               Rests == F[j].ok /\ v = Parsed(F[j].at, r.value \o F[j].value)
               Ends == v = Parsed(j + 1, r.value)
    <3>41. Continues(t, j, r, type, F, v) /\ Continues(t, j, r, type, G, GoOn(t, r, type, G))
      BY <1>2, <2>5, <3>3, <3>4, GoOnIs
    <3>5. Same /\ (v = Failed \/ Rests \/ Ends)
      <4>1. CASE t[j] = ","
        <5>1. v = IF F[j].ok THEN Parsed(F[j].at, r.value \o F[j].value) ELSE Failed
          BY <3>41, <4>1, Zenon DEF Continues
        <5>2. GoOn(t, r, type, G)
              = IF G[j].ok THEN Parsed(G[j].at, r.value \o G[j].value) ELSE Failed
          BY <3>41, <4>1, Zenon DEF Continues
        <5> QED BY <3>2, <5>1, <5>2
      <4>2. CASE t[j] = Close[type]
        BY <3>41, <4>2, Zenon DEF Continues
      <4>3. CASE t[j] # "," /\ t[j] # Close[type]
        BY <3>41, <4>3, Zenon DEF Continues
      <4> QED BY <4>1, <4>2, <4>3, Zenon
    <3>6. CASE v = Failed
      BY <3>4, <3>5, <3>6, FailedIs DEF Ahead
    <3>7. CASE Rests
      <4>1. v.at = F[j].at
        BY <3>7, ParsedIs
      <4>2. F[j].at \in Nat /\ F[j].at > j
        BY <3>2, <3>7 DEF Ahead
      <4>3. F[j].at > i
        BY <2>1, <2>2, <4>2
      <4> QED BY <3>4, <3>5, <4>1, <4>2, <4>3 DEF Ahead
    <3>8. CASE Ends
      <4>1. v.at = j + 1
        BY <3>8, ParsedIs
      <4>2. j + 1 \in Nat /\ j + 1 > i
        BY <2>1, <2>2
      <4> QED BY <3>4, <3>5, <4>1, <4>2 DEF Ahead
    <3> QED BY <3>5, <3>6, <3>7, <3>8
  <2> QED BY <2>4, <2>5
<1> QED BY <1>1, <1>2

\* F and G are the same behind i, and what they read is.
Alike(t, i, F, G) == \A j \in (i + 1)..Len(t) : F[j] = G[j] /\ Ahead(F[j], j)

\* One pass comes to the same with F and with G, and goes on.
PassSame(t, i, type, At, F, G) ==
  /\ ParsePass(t, i, type, At, F) = ParsePass(t, i, type, At, G)
  /\ Ahead(ParsePass(t, i, type, At, F), i)

LEMMA PassGoesOn ==
  ASSUME NEW t \in Seq(Characters), NEW i \in 1..Len(t), NEW type \in {"array", "object"},
         NEW At, Advances(At), NEW F, NEW G, Alike(t, i, F, G)
  PROVE  PassSame(t, i, type, At, F, G)
<1>0. /\ \A j \in (i + 1)..Len(t) : F[j] = G[j]
      /\ \A j \in (i + 1)..Len(t) : Ahead(F[j], j)
  BY Zenon DEF Alike
<1>1. i \in Nat
  OBVIOUS
<1>2. PICK r : r = ParseOne(t, i, type, At)
  OBVIOUS
<1>3. Ahead(r, i)
  BY <1>1, <1>2, OneAdvances
<1>4. /\ GoOn(t, r, type, F) = GoOn(t, r, type, G)
      /\ Ahead(GoOn(t, r, type, F), i)
  BY <1>0, <1>3, GoesOn
<1> QED BY <1>2, <1>4, Zenon DEF ParsePass, PassSame

\* The function that ParseRest is.
LEMMA RestIs ==
  ASSUME NEW t \in Seq(Characters), NEW type \in {"array", "object"}, NEW At, Advances(At)
  PROVE  LET rest == ParseRest(t, type, At) IN
         \A i \in 1..Len(t) : /\ rest[i] = ParsePass(t, i, type, At, rest)
                              /\ Ahead(rest[i], i)
<1>1. PICK l \in Nat : l = Len(t)
  BY LenProperties
<1> DEFINE Pass(i, f) == ParsePass(t, i, type, At, f)
           Reads(f, m) == \A i \in ((l - m) + 1)..l : f[i] = Pass(i, f) /\ Ahead(f[i], i)
           T == {m \in 0..l : \E f : f = [i \in 1..l |-> f[i]] /\ Reads(f, m)}
<1>2. 0 \in T
  <2>1. PICK f : f = [i \in 1..l |-> 0]
    OBVIOUS
  <2>2. \A i \in ((l - 0) + 1)..l : FALSE
    OBVIOUS
  <2>3. f = [i \in 1..l |-> f[i]] /\ 0 \in 0..l
    BY <2>1
  <2> HIDE DEF Pass
  <2> QED BY <2>2, <2>3
<1>3. ASSUME NEW m \in 1..l, m - 1 \in T PROVE m \in T
  <2>1. PICK f : f = [i \in 1..l |-> f[i]] /\ Reads(f, m - 1)
    BY <1>3
  <2>2. PICK a \in 1..l : a = (l - m) + 1
    OBVIOUS
  <2>3. (l - (m - 1)) + 1 = a + 1
    BY <2>2
  <2>4. PICK g : g = [i \in 1..l |-> IF i = a THEN Pass(a, f) ELSE f[i]]
    OBVIOUS
  <2>5. /\ \A i \in (a + 1)..l : i \in 1..l /\ i # a /\ (i + 1)..l \subseteq (a + 1)..l
        /\ \A i \in a..l : i = a \/ i \in (a + 1)..l
        /\ a \in 1..l
    BY <2>2
  <2>6. \A i \in (a + 1)..l : g[i] = f[i]
    BY <2>4, <2>5
  <2>7. \A i \in (a + 1)..l : f[i] = Pass(i, f) /\ Ahead(f[i], i)
    BY <2>1, <2>3
  <2>8. ASSUME NEW i \in a..l PROVE g[i] = Pass(i, g) /\ Ahead(g[i], i)
    <3>1. \A j \in (i + 1)..l : j \in (a + 1)..l
      OBVIOUS
    <3>2. \A j \in (i + 1)..Len(t) : f[j] = g[j]
      BY <1>1, <2>6, <3>1
    <3>21. \A j \in (i + 1)..Len(t) : Ahead(f[j], j)
      BY <1>1, <2>7, <3>1
    <3>3. i \in 1..Len(t)
      BY <1>1, <2>2
    <3>4. Pass(i, f) = Pass(i, g) /\ Ahead(Pass(i, f), i)
      <4>1. Alike(t, i, f, g)
        BY <3>2, <3>21, Zenon DEF Alike
      <4>2. PassSame(t, i, type, At, f, g)
        BY <3>3, <4>1, PassGoesOn
      <4> QED BY <4>2, Zenon DEF PassSame
    <3>5. g[i] = Pass(i, f)
      <4>1. CASE i = a
        BY <2>4, <2>5, <4>1
      <4>2. CASE i # a
        <5>1. i \in (a + 1)..l
          BY <2>5, <4>2
        <5> QED BY <2>6, <2>7, <5>1
      <4> QED BY <4>1, <4>2
    <3> QED BY <3>4, <3>5
  <2>9. g = [i \in 1..l |-> g[i]]
    BY <2>4
  <2>10. Reads(g, m)
    <3> HIDE DEF Pass
    <3> QED BY <2>2, <2>8
  <2> HIDE DEF Reads
  <2> QED BY <2>9, <2>10
<1>4. \A m \in 0..l : m \in T
  <2> HIDE DEF T
  <2> QED BY <1>2, <1>3, UpTo
<1>5. l \in 0..l /\ (l - l) + 1 = 1
  OBVIOUS
<1>6. PICK f : f = [i \in 1..l |-> f[i]] /\ \A i \in 1..l : f[i] = Pass(i, f) /\ Ahead(f[i], i)
  <2> HIDE DEF Pass
  <2> QED BY <1>4, <1>5
<1>7. f = [i \in 1..Len(t) |-> Pass(i, f)]
  <2> HIDE DEF Pass
  <2> QED BY <1>1, <1>6
<1> DEFINE rest == CHOOSE r : r = [i \in 1..Len(t) |-> ParsePass(t, i, type, At, r)]
<1>8. rest = [i \in 1..Len(t) |-> ParsePass(t, i, type, At, rest)]
  BY <1>7, Zenon
<1>9. ParseRest(t, type, At) = rest
  BY DEF ParseRest
<1> HIDE DEF rest
<1>10. \A i \in 1..l : rest[i] = Pass(i, rest)
  BY <1>1, <1>8
<1> DEFINE U == {i \in 1..l : Ahead(rest[i], i)}
<1>11. ASSUME NEW i \in 1..l, \A j \in (i + 1)..l : j \in U PROVE i \in U
  <2>1. Alike(t, i, rest, rest) /\ i \in 1..Len(t)
    BY <1>1, <1>11 DEF Alike
  <2>11. PassSame(t, i, type, At, rest, rest)
    BY <2>1, PassGoesOn
  <2>2. Ahead(Pass(i, rest), i)
    BY <2>11, Zenon DEF PassSame
  <2> QED BY <1>10, <2>2
<1>12. 1 \in Int /\ l \in Int
  OBVIOUS
<1>13. \A i \in 1..l : i \in U
  <2> HIDE DEF U
  <2> QED BY <1>11, <1>12, DownTo
<1> QED BY <1>1, <1>9, <1>10, <1>13
-----------------------------------------------------------------------------
(* The levels of the parser. *)

\* How an array or object is read.
LEMMA NestedIs ==
  ASSUME NEW t \in Seq(Characters), NEW i \in Nat, NEW type, NEW left, NEW At,
         NEW j, j = SkipWhitespace(t, i + 1)
  PROVE  LET v == ParseNested(t, i, type, left, At) IN
         /\ left = 0 \/ ~Accessible(t, j) => v = Failed
         /\ left # 0 /\ Accessible(t, j) /\ t[j] = Close[type] =>
              v = Parsed(j + 1, Item(type, <<>>))
         /\ left # 0 /\ Accessible(t, j) /\ t[j] # Close[type] =>
              v = Built(ParseRest(t, type, At)[j - 1], type)
BY DEF ParseNested

LEMMA NestedAdvances ==
  ASSUME NEW t \in Seq(Characters), NEW i \in Nat \ {0}, NEW type \in {"array", "object"},
         NEW left, NEW At, left # 0 => Advances(At)
  PROVE  Ahead(ParseNested(t, i, type, left, At), i)
<1>1. PICK j \in Nat : j = SkipWhitespace(t, i + 1) /\ j >= i + 1
  BY SkipIs
<1>2. PICK v : v = ParseNested(t, i, type, left, At)
  OBVIOUS
<1>3. CASE left = 0 \/ ~Accessible(t, j)
  <2>1. v = Failed
    BY <1>1, <1>2, <1>3, NestedIs
  <2> QED BY <1>2, <2>1, FailedIs DEF Ahead
<1>4. CASE left # 0 /\ Accessible(t, j) /\ t[j] = Close[type]
  <2>1. v = Parsed(j + 1, Item(type, <<>>))
    BY <1>1, <1>2, <1>4, NestedIs
  <2>2. v.at = j + 1
    BY <2>1, ParsedIs
  <2> QED BY <1>1, <1>2, <2>2 DEF Ahead
<1>5. CASE left # 0 /\ Accessible(t, j) /\ t[j] # Close[type]
  <2>1. PICK r : r = ParseRest(t, type, At)[j - 1]
    OBVIOUS
  <2>2. v = Built(r, type)
    BY <1>1, <1>2, <1>5, <2>1, NestedIs
  <2>3. PICK l \in Nat : l = Len(t)
    BY LenProperties
  <2>4. j - 1 \in 1..l /\ j - 1 >= i
    BY <1>1, <1>5, <2>3 DEF Accessible
  <2>5. Ahead(r, j - 1)
    BY <1>5, <2>1, <2>3, <2>4, RestIs
  <2>6. CASE r.ok
    <3>1. v.at = r.at
      BY <2>2, <2>6, ParsedIs DEF Built
    <3>2. r.at \in Nat /\ r.at > j - 1
      BY <2>5, <2>6 DEF Ahead
    <3>3. r.at > i
      BY <2>4, <3>2
    <3> QED BY <1>2, <3>1, <3>2, <3>3 DEF Ahead
  <2>7. CASE ~r.ok
    BY <1>2, <2>2, <2>7, FailedIs DEF Ahead, Built
  <2> QED BY <2>6, <2>7
<1> QED BY <1>3, <1>4, <1>5

\* What parse_value does at a character.
Reads(t, i, left, At, v) ==
  /\ t[i] \in Atoms => v = Parsed(i + 1, Item(t[i], <<>>))
  /\ t[i] = "[" => v = ParseNested(t, i, "array", left, At)
  /\ t[i] = "{" => v = ParseNested(t, i, "object", left, At)
  /\ t[i] \notin Atoms /\ t[i] # "[" /\ t[i] # "{" => v = Failed

LEMMA ItemIs ==
  ASSUME NEW t, NEW i, NEW left, NEW At, Accessible(t, i)
  PROVE  Reads(t, i, left, At, ParseItem(t, i, left, At))
<1>1. "[" \notin Atoms /\ "{" \notin Atoms
  BY ValueAssumption DEF Punctuation
<1>2. ParseItem(t, i, left, At) =
        CASE t[i] \in Atoms -> Parsed(i + 1, Item(t[i], <<>>))
          [] t[i] = "[" -> ParseNested(t, i, "array", left, At)
          [] t[i] = "{" -> ParseNested(t, i, "object", left, At)
          [] OTHER -> Failed
  BY Zenon DEF ParseItem
<1>3. CASE t[i] \in Atoms
  <2>1. t[i] # "[" /\ t[i] # "{"
    BY <1>1, <1>3, Zenon
  <2> QED BY <1>2, <1>3, <2>1, Zenon DEF Reads
<1>4. CASE t[i] = "["
  <2>1. t[i] \notin Atoms /\ t[i] # "{"
    BY <1>1, <1>4, Zenon
  <2> QED BY <1>2, <1>4, <2>1, Zenon DEF Reads
<1>5. CASE t[i] = "{"
  <2>1. t[i] \notin Atoms /\ t[i] # "["
    BY <1>1, <1>5, Zenon
  <2> QED BY <1>2, <1>5, <2>1, Zenon DEF Reads
<1>6. CASE t[i] \notin Atoms /\ t[i] # "[" /\ t[i] # "{"
  BY <1>2, <1>6, Zenon DEF Reads
<1> QED BY <1>3, <1>4, <1>5, <1>6, Zenon

LEMMA ItemAdvances ==
  ASSUME NEW t \in Seq(Characters), NEW i \in Nat \ {0}, NEW left, NEW At,
         left # 0 => Advances(At)
  PROVE  Ahead(ParseItem(t, i, left, At), i)
<1>1. PICK v : v = ParseItem(t, i, left, At)
  OBVIOUS
<1>2. CASE ~Accessible(t, i)
  <2>1. v = Failed
    BY <1>1, <1>2, Zenon DEF ParseItem
  <2> QED BY <1>1, <2>1, FailedIs DEF Ahead
<1>3. CASE Accessible(t, i)
  <2>1. Reads(t, i, left, At, v)
    BY <1>1, <1>3, ItemIs
  <2>2. PICK a, o : a = "array" /\ o = "object"
    OBVIOUS
  <2>3. /\ a \in {"array", "object"} /\ o \in {"array", "object"}
    BY <2>2
  <2>4. Ahead(ParseNested(t, i, a, left, At), i) /\ Ahead(ParseNested(t, i, o, left, At), i)
    BY <2>3, NestedAdvances
  <2>5. \/ v = Parsed(i + 1, Item(t[i], <<>>))
        \/ v = ParseNested(t, i, a, left, At)
        \/ v = ParseNested(t, i, o, left, At)
        \/ v = Failed
    BY <2>1, <2>2, Zenon DEF Reads
  <2>6. Ahead(Failed, i)
    BY FailedIs DEF Ahead
  <2>7. Ahead(Parsed(i + 1, Item(t[i], <<>>)), i)
    BY ParsedIs DEF Ahead
  <2> QED BY <1>1, <2>4, <2>5, <2>6, <2>7, Zenon
<1> QED BY <1>2, <1>3

\* Without a level left it does not matter what At would read.
LEMMA ItemSame ==
  ASSUME NEW t \in Seq(Characters), NEW i \in Nat, NEW At, NEW At2
  PROVE  ParseItem(t, i, 0, At) = ParseItem(t, i, 0, At2)
<1>1. CASE ~Accessible(t, i)
  BY <1>1, Zenon DEF ParseItem
<1>2. CASE Accessible(t, i)
  <2>1. PICK a, o : a = "array" /\ o = "object"
    OBVIOUS
  <2>2. \A type : ParseNested(t, i, type, 0, At) = Failed /\ ParseNested(t, i, type, 0, At2) = Failed
    BY DEF ParseNested
  <2>3. PICK v, w : v = ParseItem(t, i, 0, At) /\ w = ParseItem(t, i, 0, At2)
    OBVIOUS
  <2>4. Reads(t, i, 0, At, v) /\ Reads(t, i, 0, At2, w)
    BY <1>2, <2>3, ItemIs
  <2>5. v = w
    <3>1. CASE t[i] \in Atoms
      BY <2>4, <3>1, Zenon DEF Reads
    <3>2. CASE t[i] \notin Atoms
      <4>1. v = Failed
        <5>1. t[i] = "[" => v = Failed
          BY <2>2, <2>4, Zenon DEF Reads
        <5>2. t[i] = "{" => v = Failed
          BY <2>2, <2>4, Zenon DEF Reads
        <5> QED BY <2>4, <3>2, <5>1, <5>2, Zenon DEF Reads
      <4>2. w = Failed
        <5>1. t[i] = "[" => w = Failed
          BY <2>2, <2>4, Zenon DEF Reads
        <5>2. t[i] = "{" => w = Failed
          BY <2>2, <2>4, Zenon DEF Reads
        <5> QED BY <2>4, <3>2, <5>1, <5>2, Zenon DEF Reads
      <4> QED BY <4>1, <4>2
    <3> QED BY <3>1, <3>2
  <2> QED BY <2>3, <2>5
<1> QED BY <1>1, <1>2

ParseStep(f, n, t) == [j \in Nat |-> ParseItem(t, j, n, f[n - 1])]

LEMMA ParseStepSame ==
  ASSUME NEW t \in Seq(Characters), NEW f, NEW g, NEW n \in Nat, n # 0 => f[n - 1] = g[n - 1]
  PROVE  ParseStep(f, n, t) = ParseStep(g, n, t)
<1>1. CASE n = 0
  <2>1. \A j \in Nat : ParseItem(t, j, n, f[n - 1]) = ParseItem(t, j, n, g[n - 1])
    BY <1>1, ItemSame
  <2> QED BY <2>1 DEF ParseStep
<1>2. CASE n # 0
  BY <1>2 DEF ParseStep
<1> QED BY <1>1, <1>2

LEMMA ParseLevelsExist ==
  ASSUME NEW t \in Seq(Characters)
  PROVE  \E f : f = [n \in 0..NestingLimit |-> ParseStep(f, n, t)]
<1> DEFINE T == {m \in 0..NestingLimit : \E f : f = [k \in 0..m |-> ParseStep(f, k, t)]}
<1>1. NestingLimit \in Nat
  BY LimitAssumption
<1>2. 0 \in T
  <2>1. PICK f : f = [k \in 0..0 |-> ParseStep(<<>>, 0, t)]
    OBVIOUS
  <2>2. 0 \in 0..NestingLimit /\ \A k \in 0..0 : k = 0
    BY <1>1
  <2>3. ParseStep(f, 0, t) = ParseStep(<<>>, 0, t)
    BY ParseStepSame
  <2>4. f = [k \in 0..0 |-> ParseStep(f, k, t)]
    BY <2>1, <2>2, <2>3
  <2> QED BY <2>2, <2>4
<1>3. ASSUME NEW m \in 1..NestingLimit, m - 1 \in T PROVE m \in T
  <2>1. PICK f : f = [k \in 0..(m - 1) |-> ParseStep(f, k, t)]
    BY <1>3
  <2>2. PICK g : g = [k \in 0..m |-> IF k = m THEN ParseStep(f, m, t) ELSE f[k]]
    OBVIOUS
  <2>3. /\ m \in 0..NestingLimit /\ m \in 0..m /\ m # 0 /\ m \in Nat
        /\ \A k \in 0..m : k # m => k \in 0..(m - 1)
        /\ \A k \in 0..(m - 1) : /\ k \in 0..m /\ k # m /\ k \in Nat
                                 /\ k # 0 => k - 1 \in 0..(m - 1)
    BY <1>1
  <2>4. \A k \in 0..(m - 1) : g[k] = f[k]
    BY <2>2, <2>3
  <2>5. ASSUME NEW k \in 0..m PROVE g[k] = ParseStep(g, k, t)
    <3>1. CASE k = m
      <4>1. m - 1 \in 0..(m - 1)
        OBVIOUS
      <4>2. ParseStep(f, m, t) = ParseStep(g, m, t)
        BY <2>3, <2>4, <4>1, ParseStepSame
      <4>3. g[m] = ParseStep(f, m, t)
        BY <2>2, <2>3
      <4> QED BY <3>1, <4>2, <4>3
    <3>2. CASE k # m
      <4>1. k \in 0..(m - 1) /\ k \in Nat /\ (k # 0 => k - 1 \in 0..(m - 1))
        BY <2>3, <3>2
      <4>2. f[k] = ParseStep(f, k, t)
        BY <2>1, <4>1
      <4>3. ParseStep(f, k, t) = ParseStep(g, k, t)
        BY <2>4, <4>1, ParseStepSame
      <4> QED BY <2>4, <4>1, <4>2, <4>3
    <3> QED BY <3>1, <3>2
  <2>6. g = [k \in 0..m |-> ParseStep(g, k, t)]
    BY <2>2, <2>5
  <2> QED BY <2>3, <2>6
<1>4. \A m \in 0..NestingLimit : m \in T
  <2> HIDE DEF T
  <2> QED BY <1>1, <1>2, <1>3, UpTo
<1>5. NestingLimit \in 0..NestingLimit
  BY <1>1
<1> QED BY <1>4, <1>5

\* level is the parser of t: what is read at a place with so many levels left.
Levels(level, t) ==
  /\ \A n \in 0..NestingLimit, j \in Nat : level[n][j] = ParseItem(t, j, n, level[n - 1])
  /\ \A n \in 0..NestingLimit : Advances(level[n])

LEMMA ParseLevels ==
  ASSUME NEW t \in Seq(Characters)
  PROVE  \E level : Levels(level, t) /\ \A i : ParseValue(t, i) = level[NestingLimit][i]
<1> DEFINE level == CHOOSE f : f = [n \in 0..NestingLimit |->
                      [j \in Nat |-> ParseItem(t, j, n, f[n - 1])]]
<1>1. NestingLimit \in Nat
  BY LimitAssumption
<1>2. \A i : ParseValue(t, i) = level[NestingLimit][i]
  BY DEF ParseValue
<1>3. level = [n \in 0..NestingLimit |-> ParseStep(level, n, t)]
  <2>1. PICK f : f = [n \in 0..NestingLimit |-> ParseStep(f, n, t)]
    BY ParseLevelsExist
  <2>2. f = [n \in 0..NestingLimit |-> [j \in Nat |-> ParseItem(t, j, n, f[n - 1])]]
    BY <2>1, Zenon DEF ParseStep
  <2>3. level = [n \in 0..NestingLimit |-> [j \in Nat |-> ParseItem(t, j, n, level[n - 1])]]
    BY <2>2, Zenon
  <2> HIDE DEF level
  <2> QED BY <2>3, Zenon DEF ParseStep
<1> HIDE DEF level
<1>4. ASSUME NEW n \in 0..NestingLimit, NEW j \in Nat
      PROVE  level[n][j] = ParseItem(t, j, n, level[n - 1])
  <2>1. level[n] = ParseStep(level, n, t)
    BY <1>3, Zenon
  <2>2. level[n] = [k \in Nat |-> ParseItem(t, k, n, level[n - 1])]
    BY <2>1, Zenon DEF ParseStep
  <2> QED BY <2>2
<1> DEFINE T == {n \in 0..NestingLimit : Advances(level[n])}
<1>5. ASSUME NEW n \in 0..NestingLimit, n # 0 => Advances(level[n - 1])
      PROVE  Advances(level[n])
  <2>1. ASSUME NEW x \in Nat \ {0} PROVE Ahead(level[n][x], x)
    <3>1. Ahead(ParseItem(t, x, n, level[n - 1]), x)
      BY <1>5, ItemAdvances
    <3>2. x \in Nat
      OBVIOUS
    <3> QED BY <1>4, <3>1, <3>2
  <2> QED BY <2>1 DEF Advances, Ahead
<1>6. 0 \in T
  <2>1. 0 \in 0..NestingLimit
    BY <1>1
  <2> QED BY <1>5, <2>1
<1>7. ASSUME NEW n \in 1..NestingLimit, n - 1 \in T PROVE n \in T
  <2>1. n \in 0..NestingLimit
    OBVIOUS
  <2> QED BY <1>5, <1>7, <2>1
<1>8. \A n \in 0..NestingLimit : n \in T
  <2> HIDE DEF T
  <2> QED BY <1>1, <1>6, <1>7, UpTo
<1>9. Levels(level, t)
  BY <1>4, <1>8 DEF Levels
<1> QED BY <1>2, <1>9
-----------------------------------------------------------------------------
(* How deep values are. *)

Fits(v, n) == \E k \in 0..MaxDepth : k <= n /\ v \in Values[k]

\* What a value is made of: the converse of ValueIs.
LEMMA ValueMade ==
  ASSUME NEW n \in 1..MaxDepth, NEW type \in {"array", "object"}, NEW of \in Seq(Values[n - 1]),
         type = "object" => Named(of)
  PROVE  Item(type, of) \in Values[n]
<1>1. n \in 0..MaxDepth /\ n # 0
  BY ValueAssumption
<1>2. PICK x : x = Item(type, of)
  OBVIOUS
<1>3. x.type = type /\ x.of = of
  BY <1>2 DEF Item
<1>4. x \in [type : {"array", "object"}, of : Seq(Values[n - 1])]
  BY <1>2 DEF Item
<1>5. x \in {v \in [type : {"array", "object"}, of : Seq(Values[n - 1])] :
               v.type = "object" => Named(v.of)}
  BY <1>3, <1>4, Zenon
<1>6. x \in ValuesStep(Values, n)
  BY <1>1, <1>5, Zenon DEF ValuesStep
<1> QED BY <1>1, <1>2, <1>6, ValuesLevels, Zenon

LEMMA AtomMade ==
  ASSUME NEW a \in Atoms, NEW n \in 0..MaxDepth
  PROVE  Item(a, <<>>) \in Values[n] /\ Item(a, <<>>).type = a
<1>1. Item(a, <<>>) \in ValuesStep(Values, n)
  BY Zenon DEF ValuesStep
<1> QED BY <1>1, ValuesLevels, Zenon DEF Item

LEMMA ValuesGrowOne ==
  \A n \in 1..MaxDepth : Values[n - 1] \subseteq Values[n]
<1> DEFINE T == {n \in 0..MaxDepth : n # 0 => Values[n - 1] \subseteq Values[n]}
<1>1. MaxDepth \in Nat
  BY ValueAssumption
<1>2. 0 \in T
  BY <1>1
<1>3. ASSUME NEW n \in 1..MaxDepth, n - 1 \in T PROVE n \in T
  <2>1. n \in 0..MaxDepth /\ n - 1 \in 0..MaxDepth
    BY <1>1
  <2>2. ASSUME NEW v \in Values[n - 1] PROVE v \in Values[n]
    <3>1. CASE v.type \in Atoms
      <4>1. v = Item(v.type, <<>>)
        BY <2>1, <3>1, ValueIs, Zenon
      <4> QED BY <2>1, <3>1, <4>1, AtomMade, Zenon
    <3>2. CASE v.type \notin Atoms
      <4>1. /\ n - 1 # 0 /\ v.type \in {"array", "object"}
            /\ v.of \in Seq(Values[(n - 1) - 1])
            /\ v.type = "object" => Named(v.of)
        BY <2>1, <3>2, ValueIs, Zenon
      <4>2. Values[(n - 1) - 1] \subseteq Values[n - 1]
        BY <1>3, <4>1
      <4>3. PICK s : s = v.of
        OBVIOUS
      <4>4. s \in Seq(Values[n - 1])
        <5>1. PICK A, B : A = Values[(n - 1) - 1] /\ B = Values[n - 1]
          OBVIOUS
        <5>2. A \subseteq B /\ s \in Seq(A)
          BY <4>1, <4>2, <4>3, <5>1
        <5>3. s \in Seq(B)
          BY <5>2
        <5> QED BY <5>1, <5>3
      <4>5. Item(v.type, s) \in Values[n]
        BY <4>1, <4>3, <4>4, ValueMade, Zenon
      <4> QED BY <2>1, <3>2, <4>3, <4>5, ValueIs, Zenon
    <3> QED BY <3>1, <3>2
  <2> QED BY <2>1, <2>2
<1>4. \A n \in 0..MaxDepth : n \in T
  <2> HIDE DEF T
  <2> QED BY <1>1, <1>2, <1>3, UpTo
<1>5. \A n \in 1..MaxDepth : n \in 0..MaxDepth /\ n # 0
  BY <1>1
<1> QED BY <1>4, <1>5

LEMMA ValuesGrow ==
  ASSUME NEW m \in 0..MaxDepth, NEW n \in m..MaxDepth
  PROVE  Values[m] \subseteq Values[n]
<1>1. PICK d \in Nat : d = n - m
  BY ValueAssumption
<1> DEFINE T == {k \in 0..d : Values[m] \subseteq Values[m + k]}
<1>2. 0 \in T
  <2>1. m + 0 = m /\ 0 \in 0..d
    BY ValueAssumption
  <2> QED BY <2>1
<1>3. ASSUME NEW k \in 1..d, k - 1 \in T PROVE k \in T
  <2>1. m + k \in 1..MaxDepth /\ (m + k) - 1 = m + (k - 1) /\ k \in 0..d
    BY <1>1, ValueAssumption
  <2>2. Values[m + (k - 1)] \subseteq Values[m + k]
    BY <2>1, ValuesGrowOne
  <2> QED BY <1>3, <2>1, <2>2
<1>4. \A k \in 0..d : k \in T
  <2> HIDE DEF T
  <2> QED BY <1>2, <1>3, UpTo
<1>5. d \in 0..d /\ m + d = n
  BY <1>1, ValueAssumption
<1> QED BY <1>4, <1>5

LEMMA FitsAtom ==
  ASSUME NEW n \in 0..MaxDepth, NEW v \in Values[n], v.type \in Atoms, NEW left \in Nat
  PROVE  Fits(v, left)
<1>1. v = Item(v.type, <<>>)
  BY ValueIs, Zenon
<1>2. 0 \in 0..MaxDepth /\ 0 <= left
  BY ValueAssumption
<1>3. v \in Values[0]
  BY <1>1, <1>2, AtomMade, Zenon
<1> QED BY <1>2, <1>3 DEF Fits

LEMMA FitsNever ==
  ASSUME NEW v, v.type \notin Atoms
  PROVE  ~Fits(v, 0)
<1>1. ASSUME NEW k \in 0..MaxDepth, k <= 0, v \in Values[k] PROVE FALSE
  <2>1. k = 0
    BY <1>1, ValueAssumption
  <2> QED BY <1>1, <2>1, ValueIs
<1> QED BY <1>1 DEF Fits

\* An array or object fits if what is in it fits one level further down.
LEMMA FitsNested ==
  ASSUME NEW n \in 1..MaxDepth, NEW v \in Values[n], v.type \notin Atoms, NEW left \in Nat \ {0}
  PROVE  Fits(v, left) <=> \A k \in 1..Len(v.of) : Fits(v.of[k], left - 1)
<1>1. n \in 0..MaxDepth /\ MaxDepth \in Nat /\ n \in Nat
  BY ValueAssumption
<1>2. /\ v.type \in {"array", "object"} /\ v.of \in Seq(Values[n - 1])
      /\ v.type = "object" => Named(v.of)
      /\ v = Item(v.type, v.of)
  BY <1>1, ValueIs, Zenon
<1>3. ASSUME Fits(v, left), NEW k \in 1..Len(v.of) PROVE Fits(v.of[k], left - 1)
  <2>1. PICK m \in 0..MaxDepth : m <= left /\ v \in Values[m]
    BY <1>3 DEF Fits
  <2>2. m # 0 /\ v.of \in Seq(Values[m - 1])
    BY <2>1, ValueIs, Zenon
  <2>3. v.of[k] \in Values[m - 1]
    BY <2>2, ElementOfSeq
  <2>4. m - 1 \in 0..MaxDepth /\ m - 1 <= left - 1
    BY <1>1, <2>1, <2>2
  <2> QED BY <2>3, <2>4 DEF Fits
<1>4. ASSUME \A k \in 1..Len(v.of) : Fits(v.of[k], left - 1) PROVE Fits(v, left)
  <2>1. PICK q \in Nat : /\ q <= left - 1 /\ q <= n - 1
                         /\ q = left - 1 \/ q = n - 1
    BY <1>1
  <2>2. q \in 0..MaxDepth /\ q + 1 \in 1..MaxDepth /\ q + 1 \in 0..MaxDepth /\ (q + 1) - 1 = q
    BY <1>1, <2>1
  <2>3. ASSUME NEW k \in 1..Len(v.of) PROVE v.of[k] \in Values[q]
    <3>1. v.of[k] \in Values[n - 1]
      BY <1>2, ElementOfSeq
    <3>2. CASE q = n - 1
      BY <3>1, <3>2
    <3>3. CASE q = left - 1
      <4>1. PICK m \in 0..MaxDepth : m <= left - 1 /\ v.of[k] \in Values[m]
        BY <1>4 DEF Fits
      <4>2. q \in m..MaxDepth
        BY <1>1, <2>2, <3>3, <4>1
      <4> QED BY <4>1, <4>2, ValuesGrow
    <3> QED BY <2>1, <3>2, <3>3
  <2>4. v.of \in Seq(Values[q])
    <3>1. PICK s, A, B : s = v.of /\ A = Values[n - 1] /\ B = Values[q]
      OBVIOUS
    <3>2. s \in Seq(A) /\ \A k \in 1..Len(s) : s[k] \in B
      BY <1>2, <2>3, <3>1
    <3>3. s \in Seq(B)
      BY <3>2
    <3> QED BY <3>1, <3>3
  <2>5. Item(v.type, v.of) \in Values[q + 1]
    BY <1>2, <2>2, <2>4, ValueMade, Zenon
  <2>6. v \in Values[q + 1] /\ q + 1 <= left
    BY <1>1, <1>2, <2>1, <2>5
  <2> QED BY <2>2, <2>6 DEF Fits
<1> QED BY <1>3, <1>4
-----------------------------------------------------------------------------
(* What the loops read. *)

\* What separates elements.
Separator == ","

LEMMA GoOnReads ==
  ASSUME NEW t, NEW r, r.ok, NEW type \in {"array", "object"}, NEW Rest,
         NEW j, j = SkipWhitespace(t, r.at), Accessible(t, j)
  PROVE  /\ t[j] = Close[type] => GoOn(t, r, type, Rest) = Parsed(j + 1, r.value)
         /\ t[j] = Separator /\ Rest[j].ok =>
              GoOn(t, r, type, Rest) = Parsed(Rest[j].at, r.value \o Rest[j].value)
         /\ t[j] = Separator /\ ~Rest[j].ok => GoOn(t, r, type, Rest) = Failed
<1>1. Continues(t, j, r, type, Rest, GoOn(t, r, type, Rest))
  BY GoOnIs
<1> QED BY <1>1, Zenon DEF Continues, Separator

\* Pass k of a loop begins at from[k] and reads read[k], in front of next[k], if
\* k is good; behind[k] is read from there on.
Passes(t, type, At, m, from, next, read, behind, good) ==
  /\ \A k \in 1..m : from[k] \in 1..Len(t) /\ next[k] \in 1..Len(t)
  /\ \A k \in 1..m : LET r == ParseOne(t, from[k], type, At) IN
       /\ k \in good => r.ok /\ r.value = read[k] /\ SkipWhitespace(t, r.at) = next[k]
       /\ k \notin good => ~r.ok
  /\ \A k \in 1..(m - 1) : /\ t[next[k]] = Separator /\ next[k] = from[k + 1]
                           /\ behind[k] = read[k] \o behind[k + 1]
  /\ t[next[m]] = Close[type] /\ behind[m] = read[m]

LEMMA LoopReads ==
  ASSUME NEW t \in Seq(Characters), NEW type \in {"array", "object"}, NEW At, Advances(At),
         NEW m \in Nat \ {0}, NEW from, NEW next, NEW read, NEW behind, NEW good,
         Passes(t, type, At, m, from, next, read, behind, good)
  PROVE  LET r == ParseRest(t, type, At)[from[1]] IN
         /\ (\A k \in 1..m : k \in good) => r = Parsed(next[m] + 1, behind[1])
         /\ (\E k \in 1..m : k \notin good) => ~r.ok
<1>1. PICK rest : rest = ParseRest(t, type, At)
  OBVIOUS
<1> DEFINE All(k) == \A q \in k..m : q \in good
           Reads1(k) == /\ All(k) => rest[from[k]] = Parsed(next[m] + 1, behind[k])
                        /\ ~All(k) => ~rest[from[k]].ok
           T == {k \in 1..m : Reads1(k)}
<1>2. ASSUME NEW k \in 1..m, \A q \in (k + 1)..m : q \in T PROVE k \in T
  <2>1. PICK r : r = ParseOne(t, from[k], type, At)
    OBVIOUS
  <2>2. from[k] \in 1..Len(t) /\ next[k] \in 1..Len(t)
    BY DEF Passes
  <2>3. rest[from[k]] = GoOn(t, r, type, rest)
    BY <1>1, <2>1, <2>2, RestIs DEF ParsePass
  <2>4. CASE k \notin good
    <3>1. ~r.ok
      BY <2>1, <2>4, Zenon DEF Passes
    <3>2. rest[from[k]] = Failed
      BY <2>3, <3>1 DEF GoOn
    <3>3. ~All(k)
      <4>1. k \in k..m
        OBVIOUS
      <4> QED BY <2>4, <4>1
    <3> QED BY <3>2, <3>3, FailedIs
  <2>5. CASE k \in good
    <3>1. PICK j : j = next[k]
      OBVIOUS
    <3>2. r.ok /\ r.value = read[k] /\ SkipWhitespace(t, r.at) = j
      BY <2>1, <2>5, <3>1, Zenon DEF Passes
    <3>3. Accessible(t, j)
      <4>1. PICK l \in Nat : l = Len(t)
        BY LenProperties
      <4>2. j \in 1..l
        BY <2>2, <3>1, <4>1
      <4> QED BY <4>1, <4>2 DEF Accessible
    <3>4. CASE k = m
      <4>1. t[j] = Close[type] /\ behind[m] = read[m]
        BY <3>1, <3>4, Zenon DEF Passes
      <4>2. GoOn(t, r, type, rest) = Parsed(j + 1, r.value)
        BY <3>2, <3>3, <4>1, GoOnReads
      <4>3. rest[from[k]] = Parsed(next[m] + 1, behind[k])
        BY <2>3, <3>1, <3>2, <3>4, <4>1, <4>2
      <4>4. All(k)
        <5>1. \A q \in k..m : q = k
          BY <3>4
        <5> QED BY <2>5, <5>1
      <4> QED BY <4>3, <4>4
    <3>5. CASE k # m
      <4>0. k \in 1..(m - 1) /\ k + 1 \in 1..m /\ k + 1 \in (k + 1)..m
        BY <3>5
      <4>1. t[j] = Separator /\ j = from[k + 1] /\ behind[k] = read[k] \o behind[k + 1]
        BY <3>1, <4>0, Zenon DEF Passes
      <4>2. PICK y : y = rest[j]
        OBVIOUS
      <4>3. /\ All(k + 1) => y = Parsed(next[m] + 1, behind[k + 1])
            /\ ~All(k + 1) => ~y.ok
        BY <1>2, <4>0, <4>1, <4>2
      <4>4. All(k) <=> All(k + 1)
        <5>1. \A q \in k..m : q = k \/ q \in (k + 1)..m
          OBVIOUS
        <5>2. \A q \in (k + 1)..m : q \in k..m
          OBVIOUS
        <5> QED BY <2>5, <5>1, <5>2
      <4>5. CASE All(k + 1)
        <5>1. y.ok /\ y.at = next[m] + 1 /\ y.value = behind[k + 1]
          BY <4>3, <4>5, ParsedIs
        <5>2. GoOn(t, r, type, rest) = Parsed(y.at, r.value \o y.value)
          BY <3>2, <3>3, <4>1, <4>2, <5>1, GoOnReads
        <5>3. rest[from[k]] = Parsed(next[m] + 1, behind[k])
          BY <2>3, <3>2, <4>1, <5>1, <5>2
        <5> QED BY <4>4, <4>5, <5>3
      <4>6. CASE ~All(k + 1)
        <5>1. GoOn(t, r, type, rest) = Failed
          BY <3>2, <3>3, <4>1, <4>2, <4>3, <4>6, GoOnReads
        <5> QED BY <2>3, <4>4, <4>6, <5>1, FailedIs
      <4> QED BY <4>5, <4>6
    <3> QED BY <3>4, <3>5
  <2> QED BY <2>4, <2>5
<1>3. \A k \in 1..m : k \in T
  <2>1. 1 \in Int /\ m \in Int
    OBVIOUS
  <2> HIDE DEF T
  <2> QED BY <1>2, <2>1, DownTo
<1>4. Reads1(1)
  <2>1. 1 \in 1..m
    OBVIOUS
  <2> HIDE DEF Reads1
  <2> QED BY <1>3, <2>1
<1> QED BY <1>1, <1>4
-----------------------------------------------------------------------------
(* The texts of values. *)

LEMMA OneCharacter ==
  ASSUME NEW c \in Characters
  PROVE  <<c>> \in Seq(Characters) /\ Len(<<c>>) = 1 /\ <<c>>[1] = c /\ <<c>> # <<>>
OBVIOUS

LEMMA SignsPieceText ==
  ASSUME NEW ask \in Nat, NEW s \in Seq(Signs), NEW nul \in BOOLEAN,
         Piece(ask, s, nul) \in Seq(Fair)
  PROVE  TextOf(Piece(ask, s, nul)) = s /\ s \in Seq(Characters)
<1>1. s \in Seq(Characters)
  BY WidthOfSigns
<1> QED BY <1>1, TextOfPiece

LEMMA AtomText ==
  ASSUME NEW a \in Atoms
  PROVE  TextOf(PrintAtom(a)) = <<a>>
<1>1. <<a>> \in Seq(Characters) /\ Width[a] \in Nat
  BY WidthOfOne DEF Characters
<1>2. Terminated(PrintAtom(a))
  BY AtomPrints
<1>3. PICK s \in Seq(Characters) : s = <<a>>
  BY <1>1
<1>31. PICK q \in Nat : q = Width[a] + 1
  BY <1>1
<1> DEFINE b == TRUE
<1>4. Piece(q, s, b) \in Seq(Fair)
  BY <1>2, <1>3, <1>31 DEF PrintAtom, Terminated
<1>5. TextOf(Piece(q, s, b)) = s
  BY <1>4, TextOfPiece
<1> QED BY <1>3, <1>31, <1>5 DEF PrintAtom

\* What is printed of an element.
LEMMA ElementText ==
  ASSUME NEW v, Len(v.of) \in Nat, NEW format \in BOOLEAN, NEW depth \in Nat, NEW Inner,
         InnerPrints(v, Inner), NEW k \in 1..Len(v.of)
  PROVE  /\ TextOf(ArrayElement(v, format, depth, Inner, k))
            = TextOf(Inner[v.of[k]][depth + 1]) \o If(k < Len(v.of), ArrayComma(format))
         /\ TextOf(Inner[v.of[k]][depth + 1]) \in Seq(Characters)
         /\ ArrayComma(format) \in Seq(Characters)
<1>1. PICK comma : comma = ArrayComma(format)
  OBVIOUS
<1>2. comma \in Seq(Signs) /\ Piece(Len(comma) + 1, comma, TRUE) \in Seq(Fair)
  BY <1>1, ArrayPieces
<1>3. PICK q \in Nat : q = Len(comma) + 1
  BY <1>2, LenProperties
<1> DEFINE b == TRUE
<1>4. PICK piece : piece = Piece(q, comma, b)
  OBVIOUS
<1>5. piece \in Seq(Fair) /\ TextOf(piece) = comma /\ comma \in Seq(Characters)
  BY <1>2, <1>3, <1>4, SignsPieceText
<1> DEFINE c == k < Len(v.of)
<1>6. c \in BOOLEAN
  OBVIOUS
<1> HIDE DEF c
<1>7. If(c, piece) \in Seq(Fair) /\ TextOf(If(c, piece)) = If(c, comma)
  BY <1>5, <1>6, IfPieces, TextOfIf
<1>8. PICK inner : inner = Inner[v.of[k]][depth + 1]
  OBVIOUS
<1>9. inner \in Seq(Fair)
  <2>1. depth + 1 \in Nat
    OBVIOUS
  <2>2. Terminated(Inner[v.of[k]][depth + 1])
    BY <2>1, Zenon DEF InnerPrints
  <2> QED BY <1>8, <2>2, Zenon DEF Terminated
<1>10. TextOf(inner \o If(c, piece)) = TextOf(inner) \o If(c, comma)
  BY <1>7, <1>9, TextOfConcat
<1>11. ArrayElement(v, format, depth, Inner, k) = inner \o If(c, piece)
  BY <1>1, <1>3, <1>4, <1>8 DEF ArrayElement, c
<1> QED BY <1>1, <1>5, <1>8, <1>9, <1>10, <1>11, TextType DEF c

ArrayOpen == <<"[">>
ArrayShut == <<"]">>

LEMMA BracketsAre ==
  /\ ArrayOpen \in Seq(Signs) /\ Len(ArrayOpen) = 1
  /\ ArrayShut \in Seq(Signs) /\ Len(ArrayShut) = 1
<1>1. "[" \in Signs /\ "]" \in Signs
  BY SignsAre
<1> QED BY <1>1, OneSign DEF ArrayOpen, ArrayShut

\* What is printed of an array.
ArrayElements(v, format, depth, Inner) ==
  [k \in 1..Len(v.of) |-> ArrayElement(v, format, depth, Inner, k)]

\* g is the text of an array after each element.
ArrayGrows(g, v, format, depth, Inner) ==
  /\ Lists(g, ArrayElements(v, format, depth, Inner), Len(v.of))
  /\ TextOf(PrintArray(v, format, depth, Inner)) = (ArrayOpen \o g[Len(v.of)]) \o ArrayShut

LEMMA ArrayText ==
  ASSUME NEW v, Len(v.of) \in Nat, NEW format \in BOOLEAN, NEW depth \in Nat, NEW Inner,
         InnerPrints(v, Inner)
  PROVE  \E g : ArrayGrows(g, v, format, depth, Inner)
<1>1. PICK n \in Nat : n = Len(v.of)
  OBVIOUS
<1> DEFINE elements == [k \in 1..n |-> ArrayElement(v, format, depth, Inner, k)]
           list == FlattenSeq(elements)
<1>2. /\ PrintArray(v, format, depth, Inner)
         = (Piece(1, ArrayOpen, FALSE) \o list) \o Piece(2, ArrayShut, TRUE)
      /\ Piece(1, ArrayOpen, FALSE) \in Seq(Fair) /\ Terminated(Piece(2, ArrayShut, TRUE))
      /\ \A k \in 1..n : ArrayElement(v, format, depth, Inner, k) \in Seq(Fair)
      /\ list \in Seq(Fair)
  BY <1>1, ArrayPieces, Zenon DEF ArrayOpen, ArrayShut
<1>3. \A k \in 1..n : elements[k] \in Seq(Fair)
  BY <1>2
<1>4. elements = [k \in 1..n |-> elements[k]]
  OBVIOUS
<1> HIDE DEF elements
<1>5. PICK g : Lists(g, elements, n)
  BY <1>3, <1>4, TextOfList
<1>6. PICK o \in BOOLEAN, c \in BOOLEAN : o = FALSE /\ c = TRUE
  OBVIOUS
<1>7. PICK open, close : open = Piece(1, ArrayOpen, o) /\ close = Piece(2, ArrayShut, c)
  OBVIOUS
<1>8. open \in Seq(Fair) /\ close \in Seq(Fair)
  BY <1>2, <1>6, <1>7 DEF Terminated
<1>9. TextOf(open) = ArrayOpen /\ TextOf(close) = ArrayShut
  BY <1>7, <1>8, BracketsAre, SignsPieceText
<1> HIDE DEF list
<1>10. TextOf((open \o list) \o close) = (TextOf(open) \o TextOf(list)) \o TextOf(close)
  <2>1. open \o list \in Seq(Fair)
    BY <1>2, <1>8, PiecesJoin
  <2> QED BY <1>2, <1>8, <2>1, TextOfConcat
<1>11. TextOf(list) = g[n]
  BY <1>5 DEF Lists, list
<1>12. TextOf(PrintArray(v, format, depth, Inner)) = (ArrayOpen \o g[n]) \o ArrayShut
  BY <1>2, <1>6, <1>7, <1>9, <1>10, <1>11
<1> QED BY <1>1, <1>5, <1>12, Zenon DEF elements, ArrayElements, ArrayGrows

ObjectTabs(format, depth) == If(format, Tabs(depth + 1))

\* The text of member k of an object.
MemberIs(v, format, depth, Inner, k) ==
  LET inner == TextOf(Inner[v.of[2 * k]][depth + 1])
      comma == ObjectComma(v, format, k) IN
  /\ TextOf(ObjectMember(v, format, depth, Inner, k))
     = (((ObjectTabs(format, depth) \o <<v.of[2 * k - 1].type>>) \o ObjectColon(format)) \o inner)
       \o comma
  /\ inner \in Seq(Characters) /\ comma \in Seq(Characters)

LEMMA MemberText ==
  ASSUME NEW v, Len(v.of) \in Nat, Named(v.of), NEW format \in BOOLEAN, NEW depth \in Nat,
         NEW Inner, InnerPrints(v, Inner), NEW k \in 1..(Len(v.of) \div 2)
  PROVE  MemberIs(v, format, depth, Inner, k)
<1>1. PICK atom : atom = v.of[2 * k - 1].type
  OBVIOUS
<1>2. atom \in Atoms
  BY <1>1, MembersAre, WidthAssumption
<1>3. PICK tabs, colon, comma, inner :
        /\ tabs = ObjectTabs(format, depth) /\ colon = ObjectColon(format)
        /\ comma = ObjectComma(v, format, k) /\ inner = Inner[v.of[2 * k]][depth + 1]
  OBVIOUS
<1> DEFINE yes == TRUE
           no == FALSE
           indent == ObjectIndent(format, depth)
           Colon == Piece(Len(colon), colon, no)
           Comma == Piece(Len(comma) + 1, comma, yes)
<1>4. /\ indent \in Seq(Fair) /\ PrintAtom(atom) \in Seq(Fair)
      /\ colon \in Seq(Signs) /\ Colon \in Seq(Fair)
      /\ inner \in Seq(Fair) /\ comma \in Seq(Signs) /\ Comma \in Seq(Fair)
  BY <1>1, <1>3, MemberPieces
<1>5. yes \in BOOLEAN /\ no \in BOOLEAN
  OBVIOUS
<1> HIDE DEF yes, no
<1>6. TextOf(Colon) = colon /\ colon \in Seq(Characters)
  <2>1. PICK q \in Nat : q = Len(colon)
    BY <1>4, LenProperties
  <2> QED BY <1>4, <1>5, <2>1, SignsPieceText
<1>7. TextOf(Comma) = comma /\ comma \in Seq(Characters)
  <2>1. PICK q \in Nat : q = Len(comma) + 1
    BY <1>4, LenProperties
  <2> QED BY <1>4, <1>5, <2>1, SignsPieceText
<1>8. TextOf(indent) = tabs /\ tabs \in Seq(Characters)
  <2>1. PICK d \in Nat : d = depth + 1
    OBVIOUS
  <2>2. PICK s \in Seq(Signs) : s = Tabs(d) /\ Len(s) = d
    BY TabsAre
  <2>3. Piece(d, s, no) \in Seq(Fair)
    BY <2>2, OpenPiece DEF no
  <2>4. TextOf(Piece(d, s, no)) = s /\ s \in Seq(Characters)
    BY <1>5, <2>3, SignsPieceText
  <2>5. indent = If(format, Piece(d, s, no))
    BY <2>1, <2>2 DEF ObjectIndent, no
  <2>6. tabs = If(format, s)
    BY <1>3, <2>1, <2>2 DEF ObjectTabs
  <2>7. TextOf(If(format, Piece(d, s, no))) = If(format, TextOf(Piece(d, s, no)))
    BY TextOfIf
  <2>8. If(format, s) \in Seq(Characters)
    BY <2>4, IfPieces
  <2> QED BY <2>4, <2>5, <2>6, <2>7, <2>8
<1>9. TextOf(PrintAtom(atom)) = <<atom>> /\ <<atom>> \in Seq(Characters)
  BY <1>2, AtomText, OneCharacter DEF Characters
<1>10. TextOf(inner) \in Seq(Characters)
  BY <1>4, TextType
<1>11. ObjectMember(v, format, depth, Inner, k)
       = (((indent \o PrintAtom(atom)) \o Colon) \o inner) \o Comma
  BY <1>1, <1>3 DEF ObjectMember, yes, no
<1> HIDE DEF indent, Colon, Comma
<1>12. TextOf((((indent \o PrintAtom(atom)) \o Colon) \o inner) \o Comma)
       = (((tabs \o <<atom>>) \o colon) \o TextOf(inner)) \o comma
  <2>1. PICK name \in Seq(Fair) : name = PrintAtom(atom)
    BY <1>4
  <2>2. PICK ab \in Seq(Fair) : ab = indent \o name
    BY <1>4, PiecesJoin
  <2>3. PICK abc \in Seq(Fair) : abc = ab \o Colon
    BY <1>4, PiecesJoin
  <2>4. PICK abcd \in Seq(Fair) : abcd = abc \o inner
    BY <1>4, PiecesJoin
  <2>5. TextOf(ab) = tabs \o <<atom>>
    <3>1. TextOf(indent \o name) = TextOf(indent) \o TextOf(name)
      BY <1>4, TextOfConcat
    <3> QED BY <1>8, <1>9, <2>1, <2>2, <3>1, Zenon
  <2>6. TextOf(abc) = TextOf(ab) \o colon
    BY <1>4, <1>6, <2>3, TextOfConcat
  <2>7. TextOf(abcd) = TextOf(abc) \o TextOf(inner)
    BY <1>4, <2>4, TextOfConcat
  <2>8. TextOf(abcd \o Comma) = TextOf(abcd) \o comma
    BY <1>4, <1>7, TextOfConcat
  <2> QED BY <2>1, <2>2, <2>3, <2>4, <2>5, <2>6, <2>7, <2>8
<1> QED BY <1>1, <1>3, <1>7, <1>10, <1>11, <1>12, Zenon DEF MemberIs

ObjectBegin(format) == ObjectLine(<<"{">>, format)

\* What is printed of an object.
ObjectMembers(v, format, depth, Inner) ==
  [k \in 1..(Len(v.of) \div 2) |-> ObjectMember(v, format, depth, Inner, k)]

\* g is the text of an object after each member.
ObjectGrows(g, v, format, depth, Inner) ==
  /\ Lists(g, ObjectMembers(v, format, depth, Inner), Len(v.of) \div 2)
  /\ TextOf(PrintObject(v, format, depth, Inner))
     = (ObjectBegin(format) \o g[Len(v.of) \div 2]) \o ObjectShut(format, depth)

LEMMA ObjectText ==
  ASSUME NEW v, Len(v.of) \in Nat, Named(v.of), NEW format \in BOOLEAN, NEW depth \in Nat,
         NEW Inner, InnerPrints(v, Inner)
  PROVE  \E g : ObjectGrows(g, v, format, depth, Inner)
<1>1. PICK n \in Nat : n = Len(v.of) \div 2
  BY MembersAre
<1> DEFINE members == [k \in 1..n |-> ObjectMember(v, format, depth, Inner, k)]
           list == FlattenSeq(members)
           open == ObjectOpen(format)
           close == ObjectClose(format, depth)
           yes == TRUE
           no == FALSE
<1>2. /\ PrintObject(v, format, depth, Inner) = (open \o list) \o close
      /\ open \in Seq(Fair) /\ Terminated(close)
      /\ ObjectBegin(format) \in Seq(Signs) /\ ObjectShut(format, depth) \in Seq(Signs)
      /\ list \in Seq(Fair)
  BY <1>1, ObjectPieces, Zenon DEF ObjectBegin
<1>3. \A k \in 1..n : members[k] \in Seq(Fair)
  <2>1. \A k \in 1..n : ObjectMember(v, format, depth, Inner, k) \in Seq(Fair)
    BY <1>1, MemberPieces
  <2> QED BY <2>1
<1>4. members = [k \in 1..n |-> members[k]]
  OBVIOUS
<1> HIDE DEF members
<1>5. PICK g : Lists(g, members, n)
  BY <1>3, <1>4, TextOfList
<1>51. yes \in BOOLEAN /\ no \in BOOLEAN
  OBVIOUS
<1>6. close \in Seq(Fair)
  BY <1>2 DEF Terminated
<1>7. TextOf(open) = ObjectBegin(format)
  <2>1. PICK s \in Seq(Signs) : s = ObjectBegin(format)
    BY <1>2
  <2>2. PICK q \in Nat : q = Len(s) + 1
    BY LenProperties
  <2>3. open = Piece(q, s, no)
    BY <2>1, <2>2, Zenon DEF ObjectOpen, ObjectBegin
  <2> HIDE DEF open, no
  <2> QED BY <1>2, <1>51, <2>1, <2>3, SignsPieceText
<1>8. TextOf(close) = ObjectShut(format, depth)
  <2>1. PICK s \in Seq(Signs) : s = ObjectShut(format, depth)
    BY <1>2
  <2>2. PICK q \in Nat : q = IF format THEN depth + 2 ELSE 2
    OBVIOUS
  <2>3. close = Piece(q, s, yes)
    BY <2>1, <2>2, Zenon DEF ObjectClose
  <2> HIDE DEF close, yes
  <2> QED BY <1>6, <1>51, <2>1, <2>3, SignsPieceText
<1> HIDE DEF list, open, close
<1>9. TextOf((open \o list) \o close) = (TextOf(open) \o TextOf(list)) \o TextOf(close)
  <2>1. open \o list \in Seq(Fair)
    BY <1>2, PiecesJoin
  <2> QED BY <1>2, <1>6, <2>1, TextOfConcat
<1>10. TextOf(list) = g[n]
  BY <1>5 DEF Lists, list
<1>11. TextOf(PrintObject(v, format, depth, Inner))
       = (ObjectBegin(format) \o g[n]) \o ObjectShut(format, depth)
  BY <1>2, <1>7, <1>8, <1>9, <1>10
<1> QED BY <1>1, <1>5, <1>11, Zenon DEF members, ObjectMembers, ObjectGrows
-----------------------------------------------------------------------------
(* Where the parts of a printed value are. *)

\* White space from x up to y.
Gap(t, x, y) ==
  x \in Nat \ {0} /\ y \in Nat /\ x <= y /\ \A q \in x..(y - 1) : t[q] \in White

LEMMA GapSkip ==
  ASSUME NEW t \in Seq(Characters), NEW x, NEW y \in 1..Len(t), Gap(t, x, y), t[y] \notin White
  PROVE  SkipWhitespace(t, x) = y
<1>1. PICK l \in Nat : l = Len(t)
  BY LenProperties
<1>2. /\ x \in Nat /\ x <= y /\ y \in 1..l
      /\ \A q \in x..(y - 1) : t[q] \in White
  BY <1>1 DEF Gap
<1>3. y \in x..l
  BY <1>2
<1> QED BY <1>1, <1>2, <1>3, SkipTo

LEMMA GapNone ==
  ASSUME NEW t, NEW x \in Nat \ {0}
  PROVE  Gap(t, x, x)
<1>1. \A q \in x..(x - 1) : FALSE
  OBVIOUS
<1> QED BY <1>1 DEF Gap

LEMMA GapJoin ==
  ASSUME NEW t, NEW x, NEW y, NEW z, Gap(t, x, y), Gap(t, y, z)
  PROVE  Gap(t, x, z)
<1>1. /\ x \in Nat \ {0} /\ y \in Nat /\ z \in Nat /\ x <= y /\ y <= z
      /\ \A q \in x..(y - 1) : t[q] \in White
      /\ \A q \in y..(z - 1) : t[q] \in White
  BY DEF Gap
<1>2. \A q \in x..(z - 1) : q \in x..(y - 1) \/ q \in y..(z - 1)
  BY <1>1
<1>3. x <= z
  BY <1>1
<1> QED BY <1>1, <1>2, <1>3 DEF Gap

LEMMA GapOccurs ==
  ASSUME NEW t, NEW s \in Seq(White), NEW x, Occurs(t, x, s)
  PROVE  Gap(t, x, x + Len(s))
<1>1. PICK n \in Nat : n = Len(s)
  BY LenProperties
<1>2. x \in Nat \ {0} /\ \A q \in 1..n : t[(x + q) - 1] = s[q]
  BY <1>1 DEF Occurs
<1>3. ASSUME NEW q \in x..((x + n) - 1) PROVE t[q] \in White
  <2>1. PICK p \in 1..n : p = (q - x) + 1
    BY <1>2
  <2>2. (x + p) - 1 = q
    BY <1>2, <2>1
  <2>3. s[p] \in White
    BY <1>1, ElementOfSeq
  <2> QED BY <1>2, <2>2, <2>3
<1>4. x + n \in Nat /\ x <= x + n
  BY <1>2
<1> QED BY <1>1, <1>2, <1>3, <1>4 DEF Gap

LEMMA WhiteText ==
  ASSUME NEW s \in Seq(White)
  PROVE  s \in Seq(Characters)
<1>1. White \subseteq Characters
  BY DEF Characters
<1> QED BY <1>1

\* A sign, and white space if the text is formatted.
LEMMA SignThenGap ==
  ASSUME NEW t \in Seq(Characters), NEW c \in Characters, NEW s \in Seq(White), NEW x,
         Occurs(t, x, <<c>> \o s)
  PROVE  x \in 1..Len(t) /\ t[x] = c /\ Gap(t, x + 1, x + Len(<<c>> \o s))
<1>1. PICK a \in Seq(Characters) : a = <<c>> /\ Len(a) = 1
  BY OneCharacter
<1>2. s \in Seq(Characters)
  BY WhiteText
<1>3. Occurs(t, x, a) /\ Occurs(t, x + 1, s)
  BY <1>1, <1>2, OccursConcat
<1>4. x \in 1..Len(t) /\ t[x] = c
  BY <1>1, <1>3, OccursOne
<1>5. Gap(t, x + 1, (x + 1) + Len(s))
  BY <1>3, GapOccurs
<1>6. Len(a \o s) = 1 + Len(s) /\ Len(s) \in Nat /\ x \in Nat
  <2>1. x \in Nat
    BY <1>3 DEF Occurs
  <2>2. Len(a \o s) = Len(a) + Len(s)
    BY <1>2, ConcatProperties
  <2> QED BY <1>1, <2>1, <2>2, LenProperties
<1>7. (x + 1) + Len(s) = x + Len(a \o s)
  BY <1>6
<1> QED BY <1>1, <1>4, <1>5, <1>7

LEMMA IfWhite ==
  ASSUME NEW format \in BOOLEAN, NEW c \in White
  PROVE  If(format, <<c>>) \in Seq(White)
<1>1. <<c>> \in Seq(White)
  OBVIOUS
<1> QED BY <1>1, IfPieces

LEMMA TabsWhite ==
  ASSUME NEW format \in BOOLEAN, NEW n \in Nat
  PROVE  If(format, Tabs(n)) \in Seq(White)
<1>1. "\t" \in White
  BY DEF White
<1>2. PICK q : q = Tabs(n)
  OBVIOUS
<1>3. q \in [1..n -> White]
  BY <1>1, <1>2 DEF Tabs
<1>4. q \in Seq(White)
  BY <1>3, IsSequence
<1> QED BY <1>2, <1>4, IfPieces

\* What a value begins with.
Begins(s) == s # <<>> /\ s[1] \in Atoms \cup {"[", "{"}

LEMMA BeginsWith ==
  ASSUME NEW t \in Seq(Characters), NEW type \in {"array", "object"},
         NEW s \in Seq(Characters), Begins(s), NEW i, Occurs(t, i, s)
  PROVE  i \in 1..Len(t) /\ t[i] \notin White /\ t[i] # Close[type]
<1>1. i \in 1..Len(t) /\ t[i] = s[1]
  BY OccursFirst DEF Begins
<1>2. PICK c : c = s[1]
  OBVIOUS
<1>3. c \in Atoms \cup {"[", "{"}
  BY <1>2, Zenon DEF Begins
<1>4. c \notin White /\ c # "]" /\ c # "}"
  <2>1. CASE c \in Atoms
    BY <2>1, ValueAssumption, Zenon DEF Punctuation
  <2>2. CASE c = "["
    BY <2>2, Zenon DEF White
  <2>3. CASE c = "{"
    BY <2>3, Zenon DEF White
  <2> QED BY <1>3, <2>1, <2>2, <2>3, Zenon
<1>5. c # Close[type]
  BY <1>4, CloseIs, Zenon
<1> QED BY <1>1, <1>2, <1>4, <1>5, Zenon

LEMMA BeginsConcat ==
  ASSUME NEW a \in Seq(Characters), NEW b \in Seq(Characters), Begins(a)
  PROVE  Begins(a \o b)
<1>1. PICK c : c = a \o b
  OBVIOUS
<1>2. Joins(c, a, b, Characters)
  BY <1>1, ConcatJoins
<1>3. a # <<>>
  BY Zenon DEF Begins
<1>4. Len(a) \in Nat \ {0}
  BY <1>3, EmptySeq, LenProperties
<1>5. c # <<>> /\ c[1] = a[1]
  <2>1. 1 \in 1..Len(a)
    BY <1>4
  <2>2. Len(c) # 0
    BY <1>2, <1>4 DEF Joins
  <2> QED BY <1>2, <2>1, <2>2, EmptySeq DEF Joins
<1> QED BY <1>1, <1>5, Zenon DEF Begins

LEMMA BeginsOne ==
  ASSUME NEW c \in Characters, c \in Atoms \cup {"[", "{"}
  PROVE  Begins(<<c>>)
<1>1. <<c>> # <<>> /\ <<c>>[1] = c
  BY OneCharacter
<1> QED BY <1>1, Zenon DEF Begins

\* Where n elements begin and end, and the list ends, which begins at i.
Laid(t, i, type, n, s, f, c) ==
  /\ i \in Nat \ {0} /\ c \in 1..Len(t) /\ t[c] = Close[type]
  /\ \A k \in 1..n : /\ s[k] \in 1..Len(t) /\ f[k] \in 1..Len(t)
                     /\ t[s[k]] \notin White /\ t[s[k]] # Close[type]
  /\ Gap(t, i + 1, IF n = 0 THEN c ELSE s[1])
  /\ n # 0 => Gap(t, f[n], c)
  /\ \A k \in 1..(n - 1) : t[f[k]] = Separator /\ Gap(t, f[k] + 1, s[k + 1])

LEMMA SeparatorIs ==
  Separator \in Characters /\ Separator \in Signs
BY SignsAre, Zenon DEF Separator, Characters, Signs

LEMMA CommaIs ==
  ASSUME NEW format \in BOOLEAN
  PROVE  \E w \in Seq(White) : ArrayComma(format) = <<Separator>> \o w
<1>1. " " \in White
  BY Zenon DEF White
<1>2. If(format, <<" ">>) \in Seq(White)
  BY <1>1, IfWhite, Zenon
<1> QED BY <1>2, Zenon DEF ArrayComma, Separator

\* The text of element k, which Inner prints.
Inside(v, depth, Inner, k) == TextOf(Inner[v.of[k]][depth + 1])

LEMMA ConcatLength ==
  ASSUME NEW E, NEW a \in Seq(E), NEW b \in Seq(E)
  PROVE  a \o b \in Seq(E) /\ Len(a \o b) = Len(a) + Len(b)
OBVIOUS

\* Where an array with the text G in it begins and ends.
ArrayFrame(t, i, G) ==
  /\ i \in 1..Len(t) /\ t[i] = "[" /\ Occurs(t, i + 1, G)
  /\ (i + 1) + Len(G) \in 1..Len(t) /\ t[(i + 1) + Len(G)] = "]"
  /\ i + Len((ArrayOpen \o G) \o ArrayShut) = ((i + 1) + Len(G)) + 1

LEMMA ArrayEnds ==
  ASSUME NEW t \in Seq(Characters), NEW G \in Seq(Characters), NEW i,
         Occurs(t, i, (ArrayOpen \o G) \o ArrayShut)
  PROVE  ArrayFrame(t, i, G)
<1>1. PICK a \in Seq(Characters), b \in Seq(Characters) :
        a = ArrayOpen /\ b = ArrayShut /\ Len(a) = 1 /\ Len(b) = 1
  BY BracketsAre, WidthOfSigns
<1>2. PICK n \in Nat : n = Len(G)
  BY LenProperties
<1>31. PICK ag \in Seq(Characters) : ag = a \o G
  BY ConcatLength
<1>3. Len(ag) = 1 + n /\ Len(ag \o b) = (1 + n) + 1
  <2>1. Len(a \o G) = Len(a) + Len(G) /\ Len(ag \o b) = Len(ag) + Len(b)
    BY ConcatLength
  <2> QED BY <1>1, <1>2, <1>31, <2>1
<1>41. Occurs(t, i, ag) /\ Occurs(t, i + Len(ag), b)
  BY <1>1, <1>31, OccursConcat
<1>42. PICK x : x = i + (1 + n)
  OBVIOUS
<1>4. Occurs(t, i, ag) /\ Occurs(t, x, b) /\ Len(ag \o b) = (1 + n) + 1
  BY <1>3, <1>41, <1>42
<1>5. Occurs(t, i, a) /\ Occurs(t, i + 1, G)
  BY <1>1, <1>31, <1>4, OccursConcat
<1>6. i \in Nat \ {0} /\ x = (i + 1) + n
  <2>1. i \in Nat \ {0}
    BY <1>5, Zenon DEF Occurs
  <2> QED BY <1>42, <2>1
<1>7. i \in 1..Len(t) /\ t[i] = "["
  BY <1>1, <1>5, OccursOne, Zenon DEF ArrayOpen
<1>8. x \in 1..Len(t) /\ t[x] = "]"
  <2>1. Occurs(t, x, <<"]">>)
    BY <1>1, <1>4, Zenon DEF ArrayShut
  <2> QED BY <2>1, OccursOne, Zenon
<1>9. i + ((1 + n) + 1) = ((i + 1) + n) + 1
  BY <1>6
<1>10. /\ i \in 1..Len(t) /\ t[i] = "[" /\ Occurs(t, i + 1, G)
       /\ (i + 1) + n \in 1..Len(t) /\ t[(i + 1) + n] = "]"
       /\ i + Len(ag \o b) = ((i + 1) + n) + 1
  BY <1>4, <1>5, <1>6, <1>7, <1>8, <1>9, Zenon
<1> QED BY <1>1, <1>2, <1>31, <1>10, Zenon DEF ArrayFrame

\* Where an array is printed, and what is in it.
ArrayAt(t, i, v, format, depth, Inner, s, f, c) ==
  /\ Laid(t, i, "array", Len(v.of), s, f, c) /\ i \in 1..Len(t) /\ t[i] = "["
  /\ i + Len(TextOf(PrintArray(v, format, depth, Inner))) = c + 1
  /\ \A k \in 1..Len(v.of) : /\ Occurs(t, s[k], Inside(v, depth, Inner, k))
                             /\ f[k] = s[k] + Len(Inside(v, depth, Inner, k))

LEMMA ArrayLaid ==
  ASSUME NEW t \in Seq(Characters), NEW v, Len(v.of) \in Nat, NEW format \in BOOLEAN,
         NEW depth \in Nat, NEW Inner, InnerPrints(v, Inner),
         \A k \in 1..Len(v.of) : Begins(Inside(v, depth, Inner, k)),
         NEW i, Occurs(t, i, TextOf(PrintArray(v, format, depth, Inner)))
  PROVE  \E s, f, c : ArrayAt(t, i, v, format, depth, Inner, s, f, c)
<1>1. PICK n \in Nat : n = Len(v.of)
  OBVIOUS
<1> DEFINE elements == ArrayElements(v, format, depth, Inner)
           Text(k) == Inside(v, depth, Inner, k)
<1>201. PICK g : ArrayGrows(g, v, format, depth, Inner)
  BY ArrayText, Zenon
<1>2. /\ Lists(g, elements, n)
      /\ TextOf(PrintArray(v, format, depth, Inner)) = (ArrayOpen \o g[n]) \o ArrayShut
  BY <1>1, <1>201, Zenon DEF ArrayGrows
<1>3. PICK w \in Seq(White) : ArrayComma(format) = <<Separator>> \o w
  BY CommaIs
<1>4. PICK comma \in Seq(Characters) : comma = <<Separator>> \o w
  BY SeparatorIs, OneCharacter, WhiteText, ConcatLength
<1>5. \A k \in 1..n : /\ TextOf(elements[k]) = Text(k) \o If(k < n, comma)
                      /\ Text(k) \in Seq(Characters)
  <2>1. ASSUME NEW k \in 1..Len(v.of)
        PROVE  /\ TextOf(elements[k]) = Text(k) \o If(k < n, comma)
               /\ Text(k) \in Seq(Characters)
    <3>1. elements[k] = ArrayElement(v, format, depth, Inner, k)
      BY DEF ArrayElements
    <3>2. /\ TextOf(ArrayElement(v, format, depth, Inner, k))
             = Text(k) \o If(k < Len(v.of), ArrayComma(format))
          /\ Text(k) \in Seq(Characters)
      BY ElementText DEF Inside
    <3> QED BY <1>1, <1>3, <1>4, <3>1, <3>2
  <2> QED BY <1>1, <2>1
<1>51. \A k \in 1..n : Begins(Text(k))
  BY <1>1
<1>6. ASSUME NEW k \in 1..n
      PROVE  If(k < n, comma) \in Seq(Characters) /\ TextOf(elements[k]) \in Seq(Characters)
  <2>1. (k < n) \in BOOLEAN
    OBVIOUS
  <2>2. If(k < n, comma) \in Seq(Characters)
    BY <2>1, IfPieces
  <2> QED BY <1>5, <2>2, ConcatProperties
<1> HIDE DEF elements, Text
<1>7. /\ g \in [0..n -> Seq(Characters)] /\ g[0] = <<>>
      /\ \A k \in 1..n : g[k] = g[k - 1] \o TextOf(elements[k])
  BY <1>2, Zenon DEF Lists
<1>8. PICK G \in Seq(Characters) : G = g[n]
  BY <1>7
<1>9. /\ i \in 1..Len(t) /\ t[i] = "[" /\ Occurs(t, i + 1, G)
      /\ (i + 1) + Len(G) \in 1..Len(t) /\ t[(i + 1) + Len(G)] = "]"
      /\ i + Len((ArrayOpen \o G) \o ArrayShut) = ((i + 1) + Len(G)) + 1
  <2>1. Occurs(t, i, (ArrayOpen \o G) \o ArrayShut)
    BY <1>2, <1>8, Zenon
  <2>2. ArrayFrame(t, i, G)
    BY <2>1, ArrayEnds, Zenon
  <2> QED BY <2>2, Zenon DEF ArrayFrame
<1>10. /\ i \in Nat \ {0} /\ \A k \in 0..n : Len(g[k]) \in Nat
  BY <1>7, <1>9, LenProperties
<1>11. \A k \in 1..n : Occurs(t, (i + 1) + Len(g[k - 1]), TextOf(elements[k]))
  BY <1>6, <1>7, <1>8, <1>9, OccursList
<1>12. PICK s : s = [k \in 1..n |-> (i + 1) + Len(g[k - 1])]
  OBVIOUS
<1>13. PICK f : f = [k \in 1..n |-> s[k] + Len(Text(k))]
  OBVIOUS
<1>14. PICK c : c = (i + 1) + Len(G)
  OBVIOUS
<1>15. ASSUME NEW k \in 1..n
       PROVE  /\ Occurs(t, s[k], Text(k)) /\ s[k] \in Nat /\ f[k] \in Nat
              /\ Occurs(t, f[k], If(k < n, comma))
              /\ (i + 1) + Len(g[k]) = f[k] + Len(If(k < n, comma))
  <2>1. PICK a \in Seq(Characters), b \in Seq(Characters) :
          a = Text(k) /\ b = If(k < n, comma) /\ TextOf(elements[k]) = a \o b
    BY <1>5, <1>6
  <2>2. k - 1 \in 0..n
    OBVIOUS
  <2>3. PICK p \in Seq(Characters) : p = g[k - 1]
    BY <1>7, <2>2
  <2>4. PICK x \in Nat, y \in Nat, z \in Nat : x = Len(p) /\ y = Len(a) /\ z = Len(b)
    BY LenProperties
  <2>5. Len(a \o b) = y + z /\ a \o b \in Seq(Characters)
    BY <2>4, ConcatProperties
  <2>6. Len(p \o (a \o b)) = x + (y + z)
    BY <2>4, <2>5, ConcatProperties
  <2>7. g[k] = p \o (a \o b)
    BY <1>7, <2>1, <2>3
  <2>8. s[k] = (i + 1) + x /\ f[k] = ((i + 1) + x) + y
    BY <1>12, <1>13, <2>1, <2>3, <2>4
  <2>9. Occurs(t, (i + 1) + x, a \o b)
    BY <1>11, <2>1, <2>3, <2>4
  <2>10. Occurs(t, s[k], a) /\ Occurs(t, f[k], b)
    BY <2>4, <2>8, <2>9, OccursConcat
  <2>11. /\ s[k] \in Nat /\ f[k] \in Nat
         /\ (i + 1) + (x + (y + z)) = (((i + 1) + x) + y) + z
    BY <1>10, <2>8
  <2> QED BY <2>1, <2>4, <2>6, <2>7, <2>8, <2>10, <2>11
<1>16. ASSUME NEW k \in 1..(n - 1)
       PROVE  t[f[k]] = Separator /\ Gap(t, f[k] + 1, s[k + 1]) /\ f[k] \in 1..Len(t)
  <2>1. k \in 1..n /\ k < n /\ k + 1 \in 1..n /\ (k + 1) - 1 = k
    OBVIOUS
  <2>2. If(k < n, comma) = comma
    BY <2>1 DEF If
  <2>3. Occurs(t, f[k], comma) /\ s[k + 1] = f[k] + Len(comma)
    BY <1>12, <1>15, <2>1, <2>2
  <2> QED BY <1>4, <2>3, SeparatorIs, SignThenGap
<1>17. ASSUME n # 0 PROVE f[n] = c
  <2>1. n \in 1..n /\ ~(n < n)
    BY <1>17
  <2>2. If(n < n, comma) = <<>>
    BY <2>1 DEF If
  <2>3. (i + 1) + Len(g[n]) = f[n] + 0 /\ f[n] \in Nat
    BY <1>15, <2>1, <2>2
  <2> QED BY <1>8, <1>14, <2>3
<1>18. ASSUME NEW k \in 1..n
       PROVE  /\ s[k] \in 1..Len(t) /\ f[k] \in 1..Len(t)
              /\ t[s[k]] \notin White /\ t[s[k]] # Close["array"]
  <2>1. Begins(Text(k))
    BY <1>51
  <2>2. s[k] \in 1..Len(t) /\ t[s[k]] \notin White /\ t[s[k]] # Close["array"]
    BY <1>5, <1>15, <2>1, BeginsWith
  <2>3. f[k] \in 1..Len(t)
    <3>1. CASE k = n
      BY <1>9, <1>14, <1>17, <3>1
    <3>2. CASE k # n
      <4>1. k \in 1..(n - 1)
        BY <3>2
      <4> QED BY <1>16, <4>1
    <3> QED BY <3>1, <3>2
  <2> QED BY <2>2, <2>3
<1>19. Gap(t, i + 1, IF n = 0 THEN c ELSE s[1])
  <2>1. i + 1 \in Nat \ {0} /\ Len(g[0]) = 0
    BY <1>7, <1>10
  <2>2. CASE n = 0
    <3>1. c = i + 1
      <4>1. Len(G) = 0
        BY <1>8, <2>1, <2>2
      <4> QED BY <1>10, <1>14, <4>1
    <3> QED BY <2>1, <2>2, <3>1, GapNone
  <2>3. CASE n # 0
    <3>1. 1 \in 1..n /\ 1 - 1 = 0
      BY <2>3
    <3>2. s[1] = i + 1
      <4>1. s[1] = (i + 1) + 0
        BY <1>12, <2>1, <3>1
      <4> QED BY <1>10, <4>1
    <3> QED BY <2>1, <2>3, <3>2, GapNone
  <2> QED BY <2>2, <2>3
<1>20. c \in 1..Len(t) /\ t[c] = Close["array"]
  BY <1>9, <1>14, CloseIs, Zenon
<1>21. n # 0 => Gap(t, f[n], c)
  <2>1. c \in Nat \ {0}
    BY <1>10, <1>14, <1>20
  <2> QED BY <1>17, <2>1, GapNone
<1>22. Laid(t, i, "array", n, s, f, c)
  BY <1>10, <1>16, <1>18, <1>19, <1>20, <1>21, Zenon DEF Laid
<1>23. i + Len(TextOf(PrintArray(v, format, depth, Inner))) = c + 1
  BY <1>2, <1>8, <1>9, <1>14, Zenon
<1>24. \A k \in 1..n : Occurs(t, s[k], Text(k)) /\ f[k] = s[k] + Len(Text(k))
  BY <1>13, <1>15
<1> QED BY <1>1, <1>9, <1>22, <1>23, <1>24, Zenon DEF Text, ArrayAt

LEMMA ObjectSignsAre ==
  ASSUME NEW format \in BOOLEAN, NEW depth \in Nat
  PROVE  /\ \E w \in Seq(White) : ObjectBegin(format) = <<"{">> \o w
         /\ \E w \in Seq(White) : ObjectColon(format) = <<":">> \o w
         /\ \E w \in Seq(White) : ObjectShut(format, depth) = w \o <<"}">>
         /\ ObjectTabs(format, depth) \in Seq(White)
<1>1. "\n" \in White /\ "\t" \in White
  BY Zenon DEF White
<1>2. If(format, <<"\n">>) \in Seq(White) /\ If(format, <<"\t">>) \in Seq(White)
  BY <1>1, IfWhite, Zenon
<1>3. If(format, Tabs(depth)) \in Seq(White) /\ If(format, Tabs(depth + 1)) \in Seq(White)
  <2>1. depth + 1 \in Nat
    OBVIOUS
  <2> QED BY <2>1, TabsWhite, Zenon
<1>4. \E w \in Seq(White) : ObjectBegin(format) = <<"{">> \o w
  BY <1>2, Zenon DEF ObjectBegin, ObjectLine
<1>5. \E w \in Seq(White) : ObjectColon(format) = <<":">> \o w
  BY <1>2, Zenon DEF ObjectColon
<1>6. \E w \in Seq(White) : ObjectShut(format, depth) = w \o <<"}">>
  BY <1>3, Zenon DEF ObjectShut
<1> QED BY <1>3, <1>4, <1>5, <1>6, Zenon DEF ObjectTabs

LEMMA ObjectCommaIs ==
  ASSUME NEW v, Len(v.of) \in Nat, Named(v.of), NEW format \in BOOLEAN,
         NEW k \in 1..(Len(v.of) \div 2)
  PROVE  /\ k < Len(v.of) \div 2 =>
              \E w \in Seq(White) : ObjectComma(v, format, k) = <<Separator>> \o w
         /\ k = Len(v.of) \div 2 => ObjectComma(v, format, k) \in Seq(White)
<1>1. "\n" \in White
  BY Zenon DEF White
<1>2. PICK w \in Seq(White) : w = If(format, <<"\n">>)
  BY <1>1, IfWhite, Zenon
<1> DEFINE n == Len(v.of) \div 2
<1>3. n \in Nat /\ 2 * n = Len(v.of)
  BY MembersAre
<1> HIDE DEF n
<1>31. k \in 1..n
  BY DEF n
<1>4. 2 * k < Len(v.of) <=> k < n
  BY <1>3, <1>31
<1>5. ObjectComma(v, format, k) = If(2 * k < Len(v.of), <<Separator>>) \o w
  BY <1>2, Zenon DEF ObjectComma, ObjectLine, Separator
<1>6. ASSUME k < n PROVE ObjectComma(v, format, k) = <<Separator>> \o w
  BY <1>4, <1>5, <1>6, Zenon DEF If
<1>7. ASSUME k = n PROVE ObjectComma(v, format, k) = w
  <2>1. ~(2 * k < Len(v.of))
    BY <1>3, <1>4, <1>7
  <2>2. ObjectComma(v, format, k) = <<>> \o w
    BY <1>5, <2>1, Zenon DEF If
  <2>3. <<>> \o w = w
    OBVIOUS
  <2> QED BY <2>2, <2>3, Zenon
<1> QED BY <1>6, <1>7, Zenon DEF n

\* Where an object with the text G in it begins and ends.
ObjectFrame(t, i, begin, G, shut, c) ==
  /\ i \in 1..Len(t) /\ t[i] = "{" /\ Gap(t, i + 1, i + Len(begin))
  /\ Occurs(t, i + Len(begin), G) /\ Gap(t, (i + Len(begin)) + Len(G), c)
  /\ c \in 1..Len(t) /\ t[c] = "}" /\ i + Len((begin \o G) \o shut) = c + 1

LEMMA ObjectEnds ==
  ASSUME NEW t \in Seq(Characters), NEW G \in Seq(Characters), NEW i,
         NEW format \in BOOLEAN, NEW depth \in Nat,
         Occurs(t, i, (ObjectBegin(format) \o G) \o ObjectShut(format, depth))
  PROVE  \E c : ObjectFrame(t, i, ObjectBegin(format), G, ObjectShut(format, depth), c)
<1>1. PICK w \in Seq(White) : ObjectBegin(format) = <<"{">> \o w
  BY ObjectSignsAre, Zenon
<1>2. PICK u \in Seq(White) : ObjectShut(format, depth) = u \o <<"}">>
  BY ObjectSignsAre, Zenon
<1>3. PICK o \in Characters, e \in Characters : o = "{" /\ e = "}"
  BY SignsAre, Zenon DEF Signs, Characters
<1>4. PICK begin \in Seq(Characters) : begin = <<o>> \o w
  BY OneCharacter, WhiteText, ConcatLength
<1>5. PICK end \in Seq(Characters) : end = <<e>> /\ Len(end) = 1
  BY OneCharacter
<1>51. u \in Seq(Characters)
  BY WhiteText
<1>6. PICK shut \in Seq(Characters) : shut = u \o end
  BY <1>51, ConcatLength
<1>7. PICK bg \in Seq(Characters) : bg = begin \o G
  BY ConcatLength
<1>8. begin = ObjectBegin(format) /\ shut = ObjectShut(format, depth)
  BY <1>1, <1>2, <1>3, <1>4, <1>5, <1>6, Zenon
<1>9. Occurs(t, i, bg \o shut)
  BY <1>7, <1>8, Zenon
<1>10. PICK x \in Nat, y \in Nat, z \in Nat, r \in Nat :
         x = Len(begin) /\ y = Len(G) /\ z = Len(u) /\ r = Len(shut)
  BY <1>51, LenProperties
<1>11. Len(bg) = x + y
  BY <1>7, <1>10, ConcatLength
<1>12. r = z + 1
  BY <1>5, <1>51, <1>6, <1>10, ConcatLength
<1>13. Len(bg \o shut) = (x + y) + r
  <2>1. Len(bg \o shut) = Len(bg) + Len(shut)
    BY ConcatLength
  <2> QED BY <1>10, <1>11, <2>1
<1>14. Occurs(t, i, bg) /\ Occurs(t, i + (x + y), shut)
  BY <1>9, <1>11, OccursConcat
<1>15. Occurs(t, i, begin) /\ Occurs(t, i + x, G)
  BY <1>7, <1>10, <1>14, OccursConcat
<1>16. i \in 1..Len(t) /\ t[i] = o /\ Gap(t, i + 1, i + x)
  BY <1>4, <1>10, <1>15, SignThenGap
<1>17. i \in Nat
  BY <1>14, Zenon DEF Occurs
<1>18. PICK a \in Nat : a = i + (x + y) /\ a = (i + x) + y
  BY <1>17
<1>19. PICK c \in Nat : c = a + z
  OBVIOUS
<1>20. Occurs(t, a, u) /\ Occurs(t, c, end)
  BY <1>51, <1>6, <1>10, <1>14, <1>18, <1>19, OccursConcat
<1>21. Gap(t, a, c)
  BY <1>10, <1>19, <1>20, GapOccurs
<1>22. c \in 1..Len(t) /\ t[c] = e
  BY <1>5, <1>20, OccursOne
<1>23. i + ((x + y) + r) = c + 1
  BY <1>12, <1>17, <1>18, <1>19
<1>24. ObjectFrame(t, i, begin, G, shut, c)
  BY <1>3, <1>7, <1>10, <1>13, <1>15, <1>16, <1>18, <1>21, <1>22, <1>23, Zenon DEF ObjectFrame
<1> QED BY <1>8, <1>24, Zenon

\* Where the parts of a member are.
MemberFrame(t, x, y, z, a, d, inner, comma, all) ==
  /\ x \in Nat /\ y \in Nat /\ z \in Nat
  /\ Gap(t, x, y) /\ y \in 1..Len(t) /\ t[y] = a
  /\ y + 1 \in 1..Len(t) /\ t[y + 1] = d /\ Gap(t, y + 2, z)
  /\ Occurs(t, z, inner) /\ Occurs(t, z + Len(inner), comma)
  /\ x + Len(all) = (z + Len(inner)) + Len(comma)

LEMMA MemberEnds ==
  ASSUME NEW t \in Seq(Characters), NEW tabs \in Seq(White), NEW a \in Characters,
         NEW d \in Characters, NEW w \in Seq(White), NEW inner \in Seq(Characters),
         NEW comma \in Seq(Characters), NEW x,
         Occurs(t, x, (((tabs \o <<a>>) \o (<<d>> \o w)) \o inner) \o comma)
  PROVE  MemberFrame(t, x, x + Len(tabs), ((x + Len(tabs)) + 1) + Len(<<d>> \o w), a, d, inner,
                     comma, (((tabs \o <<a>>) \o (<<d>> \o w)) \o inner) \o comma)
<1>1. tabs \in Seq(Characters) /\ w \in Seq(Characters)
  BY WhiteText
<1>2. PICK name \in Seq(Characters) : name = <<a>> /\ Len(name) = 1
  BY OneCharacter
<1>3. PICK colon \in Seq(Characters) : colon = <<d>> \o w
  BY <1>1, OneCharacter, ConcatLength
<1>4. PICK tn \in Seq(Characters) : tn = tabs \o name
  BY <1>1, ConcatLength
<1>5. PICK tnc \in Seq(Characters) : tnc = tn \o colon
  BY ConcatLength
<1>6. PICK tnci \in Seq(Characters) : tnci = tnc \o inner
  BY ConcatLength
<1>7. PICK all : all = tnci \o comma
  OBVIOUS
<1>8. PICK n1 \in Nat, n2 \in Nat, n3 \in Nat, n4 \in Nat :
        n1 = Len(tabs) /\ n2 = Len(colon) /\ n3 = Len(inner) /\ n4 = Len(comma)
  BY <1>1, LenProperties
<1>9. Len(tn) = n1 + 1
  BY <1>1, <1>2, <1>4, <1>8, ConcatLength
<1>10. Len(tnc) = (n1 + 1) + n2
  BY <1>5, <1>8, <1>9, ConcatLength
<1>11. Len(tnci) = ((n1 + 1) + n2) + n3
  BY <1>6, <1>8, <1>10, ConcatLength
<1>12. Len(all) = (((n1 + 1) + n2) + n3) + n4
  BY <1>7, <1>8, <1>11, ConcatLength
<1>13. Occurs(t, x, tnci \o comma)
  BY <1>2, <1>3, <1>4, <1>5, <1>6, Zenon
<1>14. Occurs(t, x, tnci) /\ Occurs(t, x + (((n1 + 1) + n2) + n3), comma)
  BY <1>11, <1>13, OccursConcat
<1>15. Occurs(t, x, tnc) /\ Occurs(t, x + ((n1 + 1) + n2), inner)
  BY <1>6, <1>10, <1>14, OccursConcat
<1>16. Occurs(t, x, tn) /\ Occurs(t, x + (n1 + 1), colon)
  BY <1>5, <1>9, <1>15, OccursConcat
<1>17. Occurs(t, x, tabs) /\ Occurs(t, x + n1, name)
  BY <1>1, <1>4, <1>8, <1>16, OccursConcat
<1>18. x \in Nat
  BY <1>17, Zenon DEF Occurs
<1>19. PICK y \in Nat : y = x + n1
  BY <1>18
<1>20. PICK z \in Nat : z = (y + 1) + n2
  OBVIOUS
<1>21. /\ x + (n1 + 1) = y + 1 /\ x + ((n1 + 1) + n2) = z
       /\ x + (((n1 + 1) + n2) + n3) = z + n3
       /\ x + ((((n1 + 1) + n2) + n3) + n4) = (z + n3) + n4
       /\ (y + 1) + 1 = y + 2
  BY <1>18, <1>19, <1>20
<1>22. Gap(t, x, y)
  BY <1>8, <1>17, <1>19, GapOccurs
<1>23. y \in 1..Len(t) /\ t[y] = a
  BY <1>2, <1>17, <1>19, OccursOne
<1>24. y + 1 \in 1..Len(t) /\ t[y + 1] = d /\ Gap(t, (y + 1) + 1, z)
  <2>1. PICK b : b = y + 1
    OBVIOUS
  <2>2. Occurs(t, b, <<d>> \o w)
    BY <1>3, <1>16, <1>21, <2>1
  <2>3. b \in 1..Len(t) /\ t[b] = d /\ Gap(t, b + 1, b + Len(<<d>> \o w))
    BY <2>2, SignThenGap
  <2> QED BY <1>3, <1>8, <1>20, <2>1, <2>3
<1>25. Occurs(t, z, inner) /\ Occurs(t, z + n3, comma)
  BY <1>14, <1>15, <1>21
<1>26. x + Len(all) = (z + n3) + n4
  BY <1>12, <1>21
<1>27. MemberFrame(t, x, y, z, a, d, inner, comma, all)
  BY <1>8, <1>18, <1>21, <1>22, <1>23, <1>24, <1>25, <1>26 DEF MemberFrame
<1> QED BY <1>2, <1>3, <1>4, <1>5, <1>6, <1>7, <1>8, <1>19, <1>20, <1>27, Zenon

\* Where an object is printed, and what is in it.
ObjectAt(t, i, v, format, depth, Inner, s, e, f, c) ==
  /\ Laid(t, i, "object", Len(v.of) \div 2, s, f, c) /\ i \in 1..Len(t) /\ t[i] = "{"
  /\ i + Len(TextOf(PrintObject(v, format, depth, Inner))) = c + 1
  /\ \A k \in 1..(Len(v.of) \div 2) :
       /\ t[s[k]] = v.of[2 * k - 1].type
       /\ s[k] + 1 \in 1..Len(t) /\ t[s[k] + 1] = ":" /\ Gap(t, s[k] + 2, e[k])
       /\ Occurs(t, e[k], Inside(v, depth, Inner, 2 * k))
       /\ f[k] = e[k] + Len(Inside(v, depth, Inner, 2 * k))

LEMMA ObjectLaid ==
  ASSUME NEW t \in Seq(Characters), NEW v, Len(v.of) \in Nat, Named(v.of),
         NEW format \in BOOLEAN, NEW depth \in Nat, NEW Inner, InnerPrints(v, Inner),
         NEW i, Occurs(t, i, TextOf(PrintObject(v, format, depth, Inner)))
  PROVE  \E s, e, f, c : ObjectAt(t, i, v, format, depth, Inner, s, e, f, c)
<1>1. PICK n \in Nat : n = Len(v.of) \div 2
  BY MembersAre
<1> DEFINE members == ObjectMembers(v, format, depth, Inner)
           Text(k) == Inside(v, depth, Inner, 2 * k)
           Comma(k) == ObjectComma(v, format, k)
           name(k) == v.of[2 * k - 1].type
<1>2. PICK g : ObjectGrows(g, v, format, depth, Inner)
  BY ObjectText, Zenon
<1>3. /\ Lists(g, members, n)
      /\ TextOf(PrintObject(v, format, depth, Inner))
         = (ObjectBegin(format) \o g[n]) \o ObjectShut(format, depth)
  BY <1>1, <1>2, Zenon DEF ObjectGrows
<1>4. PICK d \in Characters : d = ":"
  BY SignsAre, Zenon DEF Signs, Characters
<1>5. PICK w \in Seq(White) : ObjectColon(format) = <<d>> \o w
  BY <1>4, ObjectSignsAre, Zenon
<1>6. PICK tabs \in Seq(White) : tabs = ObjectTabs(format, depth)
  BY ObjectSignsAre, Zenon
<1>7. ASSUME NEW k \in 1..n
      PROVE  /\ TextOf(members[k])
                = (((tabs \o <<name(k)>>) \o (<<d>> \o w)) \o Text(k)) \o Comma(k)
             /\ Text(k) \in Seq(Characters) /\ Comma(k) \in Seq(Characters)
             /\ name(k) \in Characters /\ name(k) \notin White /\ name(k) # Close["object"]
             /\ TextOf(members[k]) \in Seq(Characters)
  <2>1. k \in 1..(Len(v.of) \div 2)
    BY <1>1
  <2>2. members[k] = ObjectMember(v, format, depth, Inner, k)
    BY <2>1 DEF ObjectMembers
  <2>31. MemberIs(v, format, depth, Inner, k)
    BY <2>1, MemberText, Zenon
  <2>3. TextOf(members[k])
        = (((tabs \o <<name(k)>>) \o (<<d>> \o w)) \o Text(k)) \o Comma(k)
    BY <1>5, <1>6, <2>2, <2>31, Zenon DEF Inside, MemberIs
  <2>4. Text(k) \in Seq(Characters) /\ Comma(k) \in Seq(Characters)
    BY <2>31, Zenon DEF Inside, MemberIs
  <2>5. name(k) \in Atoms
    BY <2>1, MembersAre, WidthAssumption
  <2>6. name(k) \notin White /\ name(k) # "}"
    BY <2>5, ValueAssumption, Zenon DEF Punctuation
  <2>7. name(k) # Close["object"]
    BY <2>6, CloseIs, Zenon
  <2>8. name(k) \in Characters
    BY <2>5 DEF Characters
  <2>9. ObjectMember(v, format, depth, Inner, k) \in Seq(Fair)
    BY <2>1, MemberPieces, Zenon
  <2>10. TextOf(members[k]) \in Seq(Characters)
    BY <2>2, <2>9, TextType
  <2> QED BY <2>3, <2>4, <2>6, <2>7, <2>8, <2>10, Zenon
<1> HIDE DEF members, Text, Comma, name
<1>8. /\ g \in [0..n -> Seq(Characters)] /\ g[0] = <<>>
      /\ \A k \in 1..n : g[k] = g[k - 1] \o TextOf(members[k])
  BY <1>3, Zenon DEF Lists
<1>9. PICK G \in Seq(Characters) : G = g[n]
  BY <1>8
<1>10. PICK begin, shut : begin = ObjectBegin(format) /\ shut = ObjectShut(format, depth)
  OBVIOUS
<1>11. PICK c : ObjectFrame(t, i, begin, G, shut, c)
  BY <1>3, <1>9, <1>10, ObjectEnds, Zenon
<1>12. PICK x : x = i + Len(begin)
  OBVIOUS
<1>13. /\ i \in 1..Len(t) /\ t[i] = "{" /\ Gap(t, i + 1, x) /\ Occurs(t, x, G)
       /\ Gap(t, x + Len(G), c) /\ c \in 1..Len(t) /\ t[c] = "}"
       /\ i + Len((begin \o G) \o shut) = c + 1
  BY <1>11, <1>12, Zenon DEF ObjectFrame
<1>14. /\ i \in Nat \ {0} /\ x \in Nat /\ \A k \in 0..n : Len(g[k]) \in Nat
  <2>1. i \in Nat \ {0}
    <3>1. i \in 1..Len(t)
      BY <1>13, Zenon
    <3> QED BY <3>1
  <2>2. x \in Nat
    BY <1>13, Zenon DEF Occurs
  <2>3. \A k \in 0..n : Len(g[k]) \in Nat
    BY <1>8, LenProperties
  <2> QED BY <2>1, <2>2, <2>3
<1>15. \A k \in 1..n : Occurs(t, x + Len(g[k - 1]), TextOf(members[k]))
  BY <1>7, <1>8, <1>9, <1>13, OccursList
<1>16. PICK b : b = [k \in 1..n |-> x + Len(g[k - 1])]
  OBVIOUS
<1>17. PICK s : s = [k \in 1..n |-> b[k] + Len(tabs)]
  OBVIOUS
<1>18. PICK e : e = [k \in 1..n |-> (s[k] + 1) + Len(<<d>> \o w)]
  OBVIOUS
<1>19. PICK f : f = [k \in 1..n |-> e[k] + Len(Text(k))]
  OBVIOUS
<1>20. ASSUME NEW k \in 1..n
       PROVE  /\ b[k] \in Nat /\ s[k] \in Nat /\ e[k] \in Nat /\ f[k] \in Nat
              /\ Gap(t, b[k], s[k]) /\ s[k] \in 1..Len(t) /\ t[s[k]] = name(k)
              /\ s[k] + 1 \in 1..Len(t) /\ t[s[k] + 1] = d /\ Gap(t, s[k] + 2, e[k])
              /\ Occurs(t, e[k], Text(k)) /\ Occurs(t, f[k], Comma(k))
              /\ x + Len(g[k]) = f[k] + Len(Comma(k))
  <2>1. PICK a \in Characters, inner \in Seq(Characters), comma \in Seq(Characters) :
          a = name(k) /\ inner = Text(k) /\ comma = Comma(k)
    BY <1>7
  <2>2. PICK all \in Seq(Characters) : all = TextOf(members[k])
    BY <1>7
  <2>3. all = (((tabs \o <<a>>) \o (<<d>> \o w)) \o inner) \o comma
    BY <1>7, <2>1, <2>2, Zenon
  <2>4. k - 1 \in 0..n
    OBVIOUS
  <2>5. PICK p \in Seq(Characters) : p = g[k - 1]
    BY <1>8, <2>4
  <2>6. b[k] = x + Len(p)
    BY <1>16, <2>5
  <2>7. Occurs(t, b[k], all)
    BY <1>15, <2>2, <2>5, <2>6
  <2>8. MemberFrame(t, b[k], b[k] + Len(tabs), ((b[k] + Len(tabs)) + 1) + Len(<<d>> \o w), a, d,
                    inner, comma, all)
    BY <2>3, <2>7, MemberEnds
  <2>9. s[k] = b[k] + Len(tabs) /\ e[k] = (s[k] + 1) + Len(<<d>> \o w)
    BY <1>17, <1>18
  <2>10. MemberFrame(t, b[k], s[k], e[k], a, d, inner, comma, all)
    BY <2>8, <2>9, Zenon
  <2>11. f[k] = e[k] + Len(inner)
    BY <1>19, <2>1
  <2>12. /\ b[k] \in Nat /\ s[k] \in Nat /\ e[k] \in Nat
         /\ Gap(t, b[k], s[k]) /\ s[k] \in 1..Len(t) /\ t[s[k]] = a
         /\ s[k] + 1 \in 1..Len(t) /\ t[s[k] + 1] = d /\ Gap(t, s[k] + 2, e[k])
         /\ Occurs(t, e[k], inner) /\ Occurs(t, f[k], comma)
         /\ b[k] + Len(all) = f[k] + Len(comma)
    BY <2>10, <2>11, Zenon DEF MemberFrame
  <2>13. PICK l \in Nat, m \in Nat, q \in Nat : l = Len(p) /\ m = Len(all) /\ q = Len(inner)
    BY LenProperties
  <2>14. Len(p \o all) = l + m
    BY <2>13, ConcatLength
  <2>15. g[k] = p \o all
    BY <1>8, <2>2, <2>5
  <2>16. e[k] \in Nat
    BY <2>12, Zenon
  <2>17. x + (l + m) = (x + l) + m /\ f[k] \in Nat
    BY <1>14, <2>11, <2>13, <2>16
  <2> QED BY <2>1, <2>6, <2>12, <2>13, <2>14, <2>15, <2>17
<1>21. ASSUME NEW k \in 1..(n - 1)
       PROVE  t[f[k]] = Separator /\ Gap(t, f[k] + 1, s[k + 1]) /\ f[k] \in 1..Len(t)
  <2>1. k \in 1..n /\ k < n /\ k + 1 \in 1..n /\ (k + 1) - 1 = k
    OBVIOUS
  <2>2. PICK u \in Seq(White) : Comma(k) = <<Separator>> \o u
    <3>1. k \in 1..(Len(v.of) \div 2) /\ k < Len(v.of) \div 2
      BY <1>1, <2>1
    <3> QED BY <3>1, ObjectCommaIs, Zenon DEF Comma
  <2>3. PICK y : y = f[k]
    OBVIOUS
  <2>4. Occurs(t, y, <<Separator>> \o u)
    BY <1>20, <2>1, <2>2, <2>3
  <2>5. y \in 1..Len(t) /\ t[y] = Separator /\ Gap(t, y + 1, y + Len(<<Separator>> \o u))
    BY <2>4, SeparatorIs, SignThenGap
  <2>6. b[k + 1] = y + Len(<<Separator>> \o u)
    BY <1>16, <1>20, <2>1, <2>2, <2>3
  <2>7. Gap(t, b[k + 1], s[k + 1])
    BY <1>20, <2>1
  <2> QED BY <2>3, <2>5, <2>6, <2>7, GapJoin
<1>22. ASSUME n # 0 PROVE Gap(t, f[n], c)
  <2>1. n \in 1..n
    BY <1>22
  <2>11. n \in 1..(Len(v.of) \div 2)
    BY <1>1, <2>1, Zenon
  <2>2. Comma(n) \in Seq(White)
    BY <1>1, <2>11, ObjectCommaIs, Zenon DEF Comma
  <2>3. PICK u \in Seq(White) : u = Comma(n)
    BY <2>2
  <2>31. PICK y : y = f[n]
    OBVIOUS
  <2>4. Occurs(t, y, u) /\ x + Len(g[n]) = y + Len(u)
    BY <1>20, <2>1, <2>3, <2>31
  <2>5. Gap(t, y, x + Len(G))
    BY <1>9, <2>4, GapOccurs
  <2>6. Gap(t, x + Len(G), c)
    BY <1>13, Zenon
  <2> QED BY <2>31, <2>5, <2>6, GapJoin
<1>23. ASSUME NEW k \in 1..n
       PROVE  /\ s[k] \in 1..Len(t) /\ f[k] \in 1..Len(t)
              /\ t[s[k]] \notin White /\ t[s[k]] # Close["object"]
  <2>1. s[k] \in 1..Len(t) /\ t[s[k]] \notin White /\ t[s[k]] # Close["object"]
    BY <1>7, <1>20
  <2>2. f[k] \in 1..Len(t)
    <3>1. CASE k = n
      <4>1. Gap(t, f[n], c)
        BY <1>22, <3>1
      <4>2. f[n] \in Nat \ {0} /\ f[n] <= c
        BY <4>1, Zenon DEF Gap
      <4>3. PICK l \in Nat : l = Len(t)
        BY LenProperties
      <4>4. c \in 1..Len(t)
        BY <1>13, Zenon
      <4> QED BY <3>1, <4>2, <4>3, <4>4
    <3>2. CASE k # n
      <4>1. k \in 1..(n - 1)
        BY <3>2
      <4> QED BY <1>21, <4>1
    <3> QED BY <3>1, <3>2
  <2> QED BY <2>1, <2>2
<1>24. Gap(t, i + 1, IF n = 0 THEN c ELSE s[1])
  <2>1. Len(g[0]) = 0
    BY <1>8
  <2>2. CASE n = 0
    <3>1. Len(G) = 0
      BY <1>9, <2>1, <2>2
    <3>2. x + Len(G) = x
      BY <1>14, <3>1
    <3>3. Gap(t, i + 1, c)
      BY <1>13, <3>2, GapJoin
    <3> QED BY <2>2, <3>3
  <2>3. CASE n # 0
    <3>1. 1 \in 1..n /\ 1 - 1 = 0
      BY <2>3
    <3>2. b[1] = x + 0
      BY <1>16, <2>1, <3>1
    <3>3. b[1] = x
      BY <1>14, <3>2
    <3>4. Gap(t, i + 1, s[1])
      BY <1>13, <1>20, <3>1, <3>3, GapJoin
    <3> QED BY <2>3, <3>4
  <2> QED BY <2>2, <2>3
<1>25. c \in 1..Len(t) /\ t[c] = Close["object"]
  BY <1>13, CloseIs, Zenon
<1>26. Laid(t, i, "object", n, s, f, c)
  BY <1>14, <1>21, <1>22, <1>23, <1>24, <1>25, Zenon DEF Laid
<1>27. i + Len(TextOf(PrintObject(v, format, depth, Inner))) = c + 1
  BY <1>3, <1>9, <1>10, <1>13, Zenon
<1>28. \A k \in 1..n : f[k] = e[k] + Len(Text(k))
  BY <1>19
<1>29. \A k \in 1..n : /\ t[s[k]] = name(k)
                       /\ s[k] + 1 \in 1..Len(t) /\ t[s[k] + 1] = ":" /\ Gap(t, s[k] + 2, e[k])
                       /\ Occurs(t, e[k], Text(k))
                       /\ f[k] = e[k] + Len(Text(k))
  BY <1>4, <1>20, <1>28, Zenon
<1>30. \A k \in 1..n :
         /\ t[s[k]] = v.of[2 * k - 1].type
         /\ s[k] + 1 \in 1..Len(t) /\ t[s[k] + 1] = ":" /\ Gap(t, s[k] + 2, e[k])
         /\ Occurs(t, e[k], Inside(v, depth, Inner, 2 * k))
         /\ f[k] = e[k] + Len(Inside(v, depth, Inner, 2 * k))
  BY <1>29, Zenon DEF Text, name
<1>31. i \in 1..Len(t) /\ t[i] = "{"
  BY <1>13, Zenon
<1>32. ObjectAt(t, i, v, format, depth, Inner, s, e, f, c)
  BY <1>1, <1>26, <1>27, <1>30, <1>31, Zenon DEF ObjectAt
<1> QED BY <1>32, Zenon

\* A value of level n with items, which are printed at the level below.
Nests(n, x, level) ==
  /\ n \in 1..MaxDepth /\ n - 1 \in 0..MaxDepth /\ x.type \notin Atoms
  /\ x = Item(x.type, x.of) /\ x.of \in Seq(Values[n - 1]) /\ Len(x.of) \in Nat
  /\ \A k \in 1..Len(x.of) : x.of[k] \in Values[n - 1]
  /\ InnerPrints(x, level[n - 1])

\* How a value is printed.
LevelIs(level, format, n, x, depth) ==
  \/ x.type \in Atoms /\ x = Item(x.type, <<>>) /\ level[n][x][depth] = PrintAtom(x.type)
  \/ /\ Nests(n, x, level) /\ x.type = "array"
     /\ level[n][x][depth] = PrintArray(x, format, depth, level[n - 1])
  \/ /\ Nests(n, x, level) /\ x.type = "object" /\ Named(x.of)
     /\ level[n][x][depth] = PrintObject(x, format, depth, level[n - 1])

LEMMA LevelCases ==
  ASSUME NEW format \in BOOLEAN, NEW level, PrintLevels(level, format),
         NEW n \in 0..MaxDepth, NEW x \in Values[n], NEW depth \in Nat
  PROVE  LevelIs(level, format, n, x, depth)
<1>1. PICK Inner : Inner = level[n - 1]
  OBVIOUS
<1>2. level[n][x][depth] = PrintItem(x, format, depth, Inner)
  BY <1>1, Zenon DEF PrintLevels
<1>3. CASE x.type \in Atoms
  <2>1. x = Item(x.type, <<>>)
    BY <1>3, ValueIs
  <2>2. level[n][x][depth] = PrintAtom(x.type)
    BY <1>2, <1>3, ItemPrints
  <2> QED BY <1>3, <2>1, <2>2, Zenon DEF LevelIs
<1>4. CASE x.type \notin Atoms
  <2>1. n \in 1..MaxDepth /\ n - 1 \in 0..MaxDepth /\ x = Item(x.type, x.of)
    BY <1>4, ValueIs, ValueAssumption
  <2>2. \A y \in Values[n - 1], d \in Nat : Terminated(level[n - 1][y][d])
    BY <2>1, LevelPrints, Zenon
  <2>3. /\ x.type \in {"array", "object"} /\ x.of \in Seq(Values[n - 1]) /\ Len(x.of) \in Nat
        /\ x.type = "object" => Named(x.of)
        /\ InnerPrints(x, level[n - 1])
    BY <1>4, <2>1, <2>2, InnerIs, Zenon
  <2>4. \A k \in 1..Len(x.of) : x.of[k] \in Values[n - 1]
    BY <2>3, ElementOfSeq
  <2>5. Nests(n, x, level)
    BY <1>4, <2>1, <2>3, <2>4, Zenon DEF Nests
  <2>6. CASE x.type = "array"
    <3>1. level[n][x][depth] = PrintArray(x, format, depth, Inner)
      BY <1>2, <2>6, ItemPrints
    <3> QED BY <1>1, <2>5, <2>6, <3>1, Zenon DEF LevelIs
  <2>7. CASE x.type = "object"
    <3>1. level[n][x][depth] = PrintObject(x, format, depth, Inner)
      BY <1>2, <2>7, ItemPrints
    <3> QED BY <1>1, <2>3, <2>5, <2>7, <3>1, Zenon DEF LevelIs
  <2> QED BY <2>3, <2>6, <2>7
<1> QED BY <1>3, <1>4

\* What is printed of a value begins like one.
LEMMA ValueBegins ==
  ASSUME NEW format \in BOOLEAN, NEW level, PrintLevels(level, format),
         NEW n \in 0..MaxDepth, NEW x \in Values[n], NEW depth \in Nat
  PROVE  LET s == TextOf(level[n][x][depth]) IN s \in Seq(Characters) /\ Begins(s)
<1>1. PICK s : s = TextOf(level[n][x][depth])
  OBVIOUS
<1>2. s \in Seq(Characters)
  BY <1>1, LevelPrints, TextType DEF Terminated
<1>3. PICK Inner : Inner = level[n - 1]
  OBVIOUS
<1>4. LevelIs(level, format, n, x, depth)
  BY LevelCases
<1>5. CASE x.type \in Atoms /\ level[n][x][depth] = PrintAtom(x.type)
  <2>1. s = <<x.type>>
    BY <1>1, <1>5, AtomText
  <2>2. x.type \in Characters
    BY <1>5 DEF Characters
  <2>3. Begins(<<x.type>>)
    BY <1>5, <2>2, BeginsOne
  <2> QED BY <1>1, <1>2, <2>1, <2>3, Zenon
<1>6. CASE Nests(n, x, level) /\ level[n][x][depth] = PrintArray(x, format, depth, Inner)
  <2>1. Len(x.of) \in Nat /\ InnerPrints(x, Inner)
    BY <1>3, <1>6, Zenon DEF Nests
  <2>2. PICK g : ArrayGrows(g, x, format, depth, Inner)
    BY <2>1, ArrayText
  <2>3. /\ s = (ArrayOpen \o g[Len(x.of)]) \o ArrayShut
        /\ g \in [0..Len(x.of) -> Seq(Characters)]
    BY <1>1, <1>6, <2>2, Zenon DEF ArrayGrows, Lists
  <2>4. PICK G \in Seq(Characters) : G = g[Len(x.of)]
    BY <2>1, <2>3
  <2>5. PICK b \in Characters : b = "["
    BY SignsAre, Zenon DEF Signs, Characters
  <2>6. ArrayOpen = <<b>>
    BY <2>5, Zenon DEF ArrayOpen
  <2>7. Begins(ArrayOpen) /\ ArrayOpen \in Seq(Characters)
    BY <2>5, <2>6, BeginsOne, OneCharacter, Zenon
  <2>8. ArrayShut \in Seq(Characters)
    BY BracketsAre, WidthOfSigns
  <2>9. ArrayOpen \o G \in Seq(Characters) /\ Begins(ArrayOpen \o G)
    BY <2>7, BeginsConcat, ConcatLength
  <2>10. Begins((ArrayOpen \o G) \o ArrayShut)
    BY <2>8, <2>9, BeginsConcat
  <2> QED BY <1>1, <1>2, <2>3, <2>4, <2>10, Zenon
<1>7. CASE /\ Nests(n, x, level) /\ Named(x.of)
           /\ level[n][x][depth] = PrintObject(x, format, depth, Inner)
  <2>1. Len(x.of) \in Nat /\ InnerPrints(x, Inner)
    BY <1>3, <1>7, Zenon DEF Nests
  <2>2. PICK g : ObjectGrows(g, x, format, depth, Inner)
    BY <1>7, <2>1, ObjectText, Zenon
  <2>3. PICK m \in Nat : m = Len(x.of) \div 2
    BY <1>7, <2>1, MembersAre
  <2>4. /\ s = (ObjectBegin(format) \o g[m]) \o ObjectShut(format, depth)
        /\ g \in [0..m -> Seq(Characters)]
    BY <1>1, <1>7, <2>2, <2>3, Zenon DEF ObjectGrows, Lists
  <2>5. PICK G \in Seq(Characters) : G = g[m]
    BY <2>4
  <2>6. PICK b \in Characters : b = "{"
    BY SignsAre, Zenon DEF Signs, Characters
  <2>7. PICK w \in Seq(White) : ObjectBegin(format) = <<b>> \o w
    BY <2>6, ObjectSignsAre, Zenon
  <2>8. PICK u \in Seq(White) : ObjectShut(format, depth) = u \o <<"}">>
    BY ObjectSignsAre, Zenon
  <2>9. PICK e \in Characters : e = "}"
    BY SignsAre, Zenon DEF Signs, Characters
  <2>10. <<b>> \in Seq(Characters) /\ Begins(<<b>>) /\ <<e>> \in Seq(Characters)
    BY <2>6, BeginsOne, OneCharacter, Zenon
  <2>11. w \in Seq(Characters) /\ u \in Seq(Characters)
    BY WhiteText
  <2>12. PICK begin \in Seq(Characters) : begin = <<b>> \o w /\ Begins(begin)
    BY <2>10, <2>11, BeginsConcat, ConcatLength
  <2>13. PICK shut \in Seq(Characters) : shut = u \o <<e>>
    BY <2>10, <2>11, ConcatLength
  <2>14. begin \o G \in Seq(Characters) /\ Begins(begin \o G)
    BY <2>12, BeginsConcat, ConcatLength
  <2>15. Begins((begin \o G) \o shut)
    BY <2>14, BeginsConcat
  <2>16. s = (begin \o G) \o shut
    BY <2>4, <2>5, <2>7, <2>8, <2>9, <2>12, <2>13, Zenon
  <2> QED BY <1>1, <1>2, <2>15, <2>16, Zenon
<1> QED BY <1>3, <1>4, <1>5, <1>6, <1>7, Zenon DEF LevelIs

\* How a loop reads n elements, of which those in good are read to the end.
Elements(t, type, At, n, s, f, read, good) ==
  \A k \in 1..n, x \in 1..Len(t) :
    SkipWhitespace(t, x + 1) = s[k] =>
      /\ k \in good => ParseOne(t, x, type, At) = Parsed(f[k], read[k])
      /\ k \notin good => ~ParseOne(t, x, type, At).ok

\* What is read from each element on.
Behind(n, read, behind) ==
  /\ n # 0 => behind[n] = read[n]
  /\ \A k \in 1..(n - 1) : behind[k] = read[k] \o behind[k + 1]

LEMMA NestedRead ==
  ASSUME NEW t \in Seq(Characters), NEW type \in {"array", "object"}, NEW At, Advances(At),
         NEW n \in Nat, NEW s, NEW f, NEW c, NEW read, NEW behind, NEW good,
         NEW i, NEW left, left # 0, Laid(t, i, type, n, s, f, c),
         Elements(t, type, At, n, s, f, read, good), Behind(n, read, behind)
  PROVE  LET r == ParseNested(t, i, type, left, At) IN
         /\ n = 0 => r = Parsed(c + 1, Item(type, <<>>))
         /\ n # 0 /\ (\A k \in 1..n : k \in good) => r = Parsed(c + 1, Item(type, behind[1]))
         /\ (\E k \in 1..n : k \notin good) => ~r.ok
<1>1. PICK l \in Nat : l = Len(t)
  BY LenProperties
<1>2. /\ i \in Nat \ {0} /\ c \in 1..Len(t) /\ t[c] = Close[type]
      /\ \A k \in 1..n : /\ s[k] \in 1..Len(t) /\ f[k] \in 1..Len(t)
                         /\ t[s[k]] \notin White /\ t[s[k]] # Close[type]
      /\ Gap(t, i + 1, IF n = 0 THEN c ELSE s[1])
      /\ n # 0 => Gap(t, f[n], c)
      /\ \A k \in 1..(n - 1) : t[f[k]] = Separator /\ Gap(t, f[k] + 1, s[k + 1])
  BY Zenon DEF Laid
<1>3. t[c] \notin White /\ Separator \notin White
  <2>1. Separator \notin White
    BY Zenon DEF White, Separator
  <2>2. "]" \notin White /\ "}" \notin White
    BY Zenon DEF White
  <2>3. type = "array" \/ type = "object"
    OBVIOUS
  <2>4. Close[type] \notin White
    BY <2>2, <2>3, CloseIs, Zenon
  <2> QED BY <1>2, <2>1, <2>4, Zenon
<1>4. CASE n = 0
  <2>1. SkipWhitespace(t, i + 1) = c
    BY <1>2, <1>3, <1>4, GapSkip
  <2>2. Accessible(t, c)
    BY <1>1, <1>2 DEF Accessible
  <2>3. ParseNested(t, i, type, left, At) = Parsed(c + 1, Item(type, <<>>))
    BY <1>2, <2>1, <2>2, NestedIs
  <2> QED BY <1>4, <2>3
<1>5. CASE n # 0
  <2>1. 1 \in 1..n /\ n \in 1..n
    BY <1>5
  <2>2. PICK x \in 1..l : x = s[1]
    BY <1>1, <1>2, <2>1
  <2>3. Gap(t, i + 1, x)
    BY <1>2, <1>5, <2>2
  <2>4. SkipWhitespace(t, i + 1) = x
    BY <1>1, <1>2, <2>1, <2>2, <2>3, GapSkip
  <2>5. Accessible(t, x)
    BY <1>1, <2>2 DEF Accessible
  <2>6. ParseNested(t, i, type, left, At) = Built(ParseRest(t, type, At)[x - 1], type)
    BY <1>2, <2>1, <2>2, <2>4, <2>5, NestedIs
  <2>7. x - 1 \in 1..l
    <3>1. i + 1 <= x
      BY <2>3 DEF Gap
    <3> QED BY <1>2, <2>2, <3>1
  <2>8. PICK from : from = [k \in 1..n |-> IF k = 1 THEN x - 1 ELSE f[k - 1]]
    OBVIOUS
  <2>9. PICK next : next = [k \in 1..n |-> IF k = n THEN c ELSE f[k]]
    OBVIOUS
  <2>10. ASSUME NEW k \in 1..n
         PROVE  from[k] \in 1..Len(t) /\ SkipWhitespace(t, from[k] + 1) = s[k]
    <3>1. CASE k = 1
      <4>1. from[k] = x - 1 /\ (x - 1) + 1 = x
        BY <2>2, <2>8, <3>1
      <4>2. SkipWhitespace(t, x) = x
        <5>1. x \in Nat \ {0}
          BY <2>2
        <5>2. Gap(t, x, x)
          BY <5>1, GapNone
        <5> QED BY <1>1, <1>2, <2>1, <2>2, <5>2, GapSkip
      <4> QED BY <1>1, <2>2, <2>7, <3>1, <4>1, <4>2
    <3>2. CASE k # 1
      <4>1. PICK m \in 1..(n - 1) : m = k - 1 /\ m + 1 = k /\ m \in 1..n
        BY <3>2
      <4>2. from[k] = f[m]
        BY <2>8, <3>2, <4>1
      <4>3. f[m] \in 1..Len(t) /\ Gap(t, f[m] + 1, s[k])
        BY <1>2, <4>1
      <4>4. SkipWhitespace(t, f[m] + 1) = s[k]
        BY <1>2, <4>3, GapSkip
      <4> QED BY <4>2, <4>3, <4>4
    <3> QED BY <3>1, <3>2
  <2>11. ASSUME NEW k \in 1..n
         PROVE  next[k] \in 1..Len(t) /\ SkipWhitespace(t, f[k]) = next[k]
    <3>1. CASE k = n
      <4>1. next[k] = c
        BY <2>9, <3>1
      <4>2. SkipWhitespace(t, f[n]) = c
        BY <1>2, <1>3, <1>5, GapSkip
      <4> QED BY <1>2, <3>1, <4>1, <4>2
    <3>2. CASE k # n
      <4>1. k \in 1..(n - 1)
        BY <3>2
      <4>2. next[k] = f[k]
        BY <2>9, <3>2
      <4>3. t[f[k]] \notin White /\ f[k] \in 1..Len(t)
        BY <1>2, <1>3, <4>1
      <4>4. Gap(t, f[k], f[k])
        <5>1. f[k] \in Nat \ {0}
          BY <4>3
        <5> QED BY <5>1, GapNone
      <4>5. SkipWhitespace(t, f[k]) = f[k]
        BY <4>3, <4>4, GapSkip
      <4> QED BY <4>2, <4>3, <4>5
    <3> QED BY <3>1, <3>2
  <2>12. ASSUME NEW k \in 1..n
         PROVE  LET r == ParseOne(t, from[k], type, At) IN
                /\ k \in good => r.ok /\ r.value = read[k] /\ SkipWhitespace(t, r.at) = next[k]
                /\ k \notin good => ~r.ok
    <3>1. PICK y \in 1..Len(t) : y = from[k]
      BY <2>10
    <3>2. SkipWhitespace(t, y + 1) = s[k]
      BY <2>10, <3>1
    <3>3. /\ k \in good => ParseOne(t, y, type, At) = Parsed(f[k], read[k])
          /\ k \notin good => ~ParseOne(t, y, type, At).ok
      BY <3>2, Zenon DEF Elements
    <3> QED BY <2>11, <3>1, <3>3, ParsedIs
  <2>13. \A k \in 1..(n - 1) : /\ t[next[k]] = Separator /\ next[k] = from[k + 1]
                               /\ behind[k] = read[k] \o behind[k + 1]
    <3>1. ASSUME NEW k \in 1..(n - 1)
          PROVE  next[k] = f[k] /\ from[k + 1] = f[k]
      BY <2>8, <2>9
    <3> QED BY <1>2, <3>1 DEF Behind
  <2>14. t[next[n]] = Close[type] /\ behind[n] = read[n] /\ next[n] = c
    BY <1>2, <1>5, <2>1, <2>9 DEF Behind
  <2>15. Passes(t, type, At, n, from, next, read, behind, good)
    BY <2>10, <2>11, <2>12, <2>13, <2>14 DEF Passes
  <2>16. from[1] = x - 1 /\ n \in Nat \ {0}
    BY <1>5, <2>1, <2>8
  <2>17. PICK r : r = ParseRest(t, type, At)[x - 1]
    OBVIOUS
  <2>18. /\ (\A k \in 1..n : k \in good) => r = Parsed(c + 1, behind[1])
         /\ (\E k \in 1..n : k \notin good) => ~r.ok
    BY <2>14, <2>15, <2>16, <2>17, LoopReads
  <2>19. /\ (\A k \in 1..n : k \in good) => Built(r, type) = Parsed(c + 1, Item(type, behind[1]))
         /\ (\E k \in 1..n : k \notin good) => ~Built(r, type).ok
    BY <2>18, ParsedIs, FailedIs DEF Built
  <2> QED BY <1>5, <2>6, <2>17, <2>19
<1> QED BY <1>4, <1>5

LEMMA TailIs ==
  ASSUME NEW E, NEW of \in Seq(E), NEW n \in Nat, n = Len(of), NEW k \in 1..n
  PROVE  /\ SubSeq(of, k, n) \in Seq(E) /\ Len(SubSeq(of, k, n)) = (n - k) + 1
         /\ \A q \in 1..((n - k) + 1) : SubSeq(of, k, n)[q] = of[(k + q) - 1]
<1>1. \A q \in k..n : of[q] \in E
  BY ElementOfSeq
<1>2. k \in Int /\ n \in Int /\ k <= n
  OBVIOUS
<1>3. /\ SubSeq(of, k, n) \in Seq(E)
      /\ Len(SubSeq(of, k, n)) = IF k <= n THEN n - k + 1 ELSE 0
      /\ \A q \in 1..(n - k + 1) : SubSeq(of, k, n)[q] = of[k + q - 1]
  BY <1>1, <1>2, SubSeqProperties
<1> QED BY <1>2, <1>3

\* A list from its element k on is that element and the list behind it.
LEMMA TailOne ==
  ASSUME NEW E, NEW of \in Seq(E), NEW n \in Nat, n = Len(of), NEW k \in 1..n
  PROVE  /\ k = n => SubSeq(of, k, n) = <<of[k]>>
         /\ k < n => SubSeq(of, k, n) = <<of[k]>> \o SubSeq(of, k + 1, n)
<1>1. of[k] \in E /\ <<of[k]>> \in Seq(E) /\ Len(<<of[k]>>) = 1 /\ <<of[k]>>[1] = of[k]
  BY ElementOfSeq
<1>2. /\ SubSeq(of, k, n) \in Seq(E) /\ Len(SubSeq(of, k, n)) = (n - k) + 1
      /\ \A q \in 1..((n - k) + 1) : SubSeq(of, k, n)[q] = of[(k + q) - 1]
  BY TailIs
<1>3. CASE k = n
  <2>1. SubSeq(of, k, n)[1] = of[k] /\ Len(SubSeq(of, k, n)) = 1
    BY <1>2, <1>3
  <2>2. PICK a \in Seq(E), c \in Seq(E) : a = <<of[k]>> /\ c = SubSeq(of, k, n)
    BY <1>1, <1>2
  <2>3. Len(a) = Len(c) /\ \A q \in 1..Len(a) : a[q] = c[q]
    BY <1>1, <2>1, <2>2
  <2>4. a = c
    BY <2>3, SeqEqual
  <2>5. ~(k < n)
    BY <1>3
  <2> QED BY <1>3, <2>2, <2>4, <2>5, Zenon
<1>4. CASE k < n
  <2>1. k + 1 \in 1..n
    BY <1>4
  <2>2. /\ SubSeq(of, k + 1, n) \in Seq(E) /\ Len(SubSeq(of, k + 1, n)) = n - k
        /\ \A q \in 1..(n - k) : SubSeq(of, k + 1, n)[q] = of[k + q]
    <3>1. PICK m \in 1..n : m = k + 1
      BY <2>1
    <3>2. /\ SubSeq(of, m, n) \in Seq(E) /\ Len(SubSeq(of, m, n)) = (n - m) + 1
          /\ \A q \in 1..((n - m) + 1) : SubSeq(of, m, n)[q] = of[(m + q) - 1]
      BY TailIs
    <3> QED BY <3>1, <3>2
  <2>3. PICK a, b, c : a = <<of[k]>> /\ b = SubSeq(of, k + 1, n) /\ c = SubSeq(of, k, n)
    OBVIOUS
  <2>4. Joins(a \o b, a, b, E)
    BY <1>1, <2>2, <2>3, ConcatJoins
  <2>5. PICK d : d = a \o b
    OBVIOUS
  <2>6. d \in Seq(E) /\ Len(d) = (n - k) + 1 /\ d[1] = of[k]
    BY <1>1, <2>2, <2>3, <2>4, <2>5 DEF Joins
  <2>7. ASSUME NEW q \in 1..((n - k) + 1) PROVE d[q] = of[(k + q) - 1]
    <3>1. CASE q = 1
      BY <2>6, <3>1
    <3>2. CASE q # 1
      <4>1. PICK p \in 1..(n - k) : q = 1 + p /\ k + p = (k + q) - 1
        BY <3>2
      <4>2. d[1 + p] = b[p]
        BY <1>1, <2>2, <2>3, <2>4, <2>5 DEF Joins
      <4> QED BY <2>2, <2>3, <4>1, <4>2
    <3> QED BY <3>1, <3>2
  <2>8. \A q \in 1..Len(d) : d[q] = c[q]
    BY <1>2, <2>3, <2>6, <2>7
  <2>9. d = c
    BY <1>2, <2>3, <2>6, <2>8, SeqEqual
  <2> QED BY <1>4, <2>3, <2>5, <2>9
<1> QED BY <1>3, <1>4

LEMMA PairIn ==
  ASSUME NEW E, NEW x \in E, NEW y \in E
  PROVE  <<x, y>> \in Seq(E)
OBVIOUS

LEMMA PairJoins ==
  ASSUME NEW E, NEW x \in E, NEW y \in E
  PROVE  <<x>> \in Seq(E) /\ <<y>> \in Seq(E) /\ <<x>> \o <<y>> = <<x, y>>
<1>1. <<x>> \in Seq(E) /\ <<y>> \in Seq(E)
  OBVIOUS
<1>2. PICK a \in Seq(E), b \in Seq(E) : a = <<x>> /\ b = <<y>>
  BY <1>1
<1>3. PICK p \in Seq(E) : p = <<x, y>>
  BY PairIn
<1>4. Len(a) = 1 /\ a[1] = x /\ Len(b) = 1 /\ b[1] = y /\ Len(p) = 2 /\ p[1] = x /\ p[2] = y
  BY <1>2, <1>3
<1>5. PICK d : d = a \o b
  OBVIOUS
<1>6. Joins(d, a, b, E)
  BY <1>5, ConcatJoins
<1>7. d \in Seq(E) /\ Len(d) = 2 /\ d[1] = x /\ d[2] = y
  BY <1>4, <1>6 DEF Joins
<1>8. Len(d) = Len(p) /\ \A q \in 1..Len(d) : d[q] = p[q]
  BY <1>4, <1>7
<1>9. d = p
  BY <1>7, <1>8, SeqEqual
<1> QED BY <1>1, <1>2, <1>3, <1>5, <1>9, Zenon

Groups(a, b, c) == a \o (b \o c) = (a \o b) \o c

LEMMA ConcatGroups ==
  ASSUME NEW E, NEW a \in Seq(E), NEW b \in Seq(E), NEW c \in Seq(E)
  PROVE  Groups(a, b, c)
BY ConcatAssociative DEF Groups

LEMMA TailTwo ==
  ASSUME NEW E, NEW of \in Seq(E), NEW n \in Nat, n = Len(of), NEW k \in 1..(n - 1)
  PROVE  /\ k + 1 = n => SubSeq(of, k, n) = <<of[k], of[k + 1]>>
         /\ k + 1 < n => SubSeq(of, k, n) = <<of[k], of[k + 1]>> \o SubSeq(of, k + 2, n)
<1>1. k \in 1..n /\ k < n /\ k + 1 \in 1..n
  OBVIOUS
<1>2. PICK m \in 1..n : m = k + 1
  BY <1>1
<1>3. SubSeq(of, k, n) = <<of[k]>> \o SubSeq(of, m, n)
  BY <1>1, <1>2, TailOne
<1>4. PICK x \in E, y \in E : x = of[k] /\ y = of[m]
  BY <1>1, <1>2, ElementOfSeq
<1>5. <<x>> \in Seq(E) /\ <<y>> \in Seq(E) /\ <<x>> \o <<y>> = <<x, y>>
  BY PairJoins
<1>6. CASE m = n
  <2>1. SubSeq(of, m, n) = <<y>>
    BY <1>4, <1>6, TailOne
  <2>2. SubSeq(of, k, n) = <<of[k], of[m]>>
    BY <1>3, <1>4, <1>5, <2>1, Zenon
  <2> QED BY <1>2, <1>6, <2>2
<1>7. CASE m < n
  <2>1. SubSeq(of, m, n) = <<y>> \o SubSeq(of, m + 1, n)
    BY <1>4, <1>7, TailOne
  <2>2. PICK o \in 1..n : o = m + 1 /\ o = k + 2
    BY <1>2, <1>7
  <2>3. PICK c \in Seq(E) : c = SubSeq(of, o, n)
    BY TailIs
  <2>4. PICK a \in Seq(E), b \in Seq(E) : a = <<x>> /\ b = <<y>>
    BY <1>5
  <2>5. a \o (b \o c) = (a \o b) \o c
    <3>1. Groups(a, b, c)
      BY ConcatGroups
    <3> QED BY <3>1, Zenon DEF Groups
  <2>6. SubSeq(of, k, n) = a \o (b \o c)
    BY <1>3, <1>4, <2>1, <2>2, <2>3, <2>4, Zenon
  <2>7. a \o b = <<of[k], of[m]>>
    BY <1>4, <1>5, <2>4, Zenon
  <2>8. SubSeq(of, k, n) = <<of[k], of[k + 1]>> \o SubSeq(of, k + 2, n)
    BY <1>2, <2>2, <2>3, <2>5, <2>6, <2>7, Zenon
  <2> QED BY <1>2, <1>7, <2>8
<1> QED BY <1>2, <1>6, <1>7

LEMMA TailWhole ==
  ASSUME NEW E, NEW of \in Seq(E)
  PROVE  SubSeq(of, 1, Len(of)) = of
OBVIOUS

\* Where s is in t, the value y is read to its end, if it is not nested too deeply.
ReadsBack(t, At, left, y, s) ==
  \A i : Occurs(t, i, s) =>
    /\ Fits(y, left) => At[i] = Parsed(i + Len(s), y)
    /\ ~Fits(y, left) => ~At[i].ok

\* s at i is read to r, which is the value v if that is not nested too deeply.
IsRead(r, i, s, v, deep) ==
  /\ ~deep => r = Parsed(i + Len(s), v)
  /\ deep => ~r.ok

\* An array is read back if its elements are.
LEMMA ArrayRead ==
  ASSUME NEW t \in Seq(Characters), NEW E, NEW v, v.of \in Seq(E), v = Item("array", v.of),
         NEW format \in BOOLEAN, NEW depth \in Nat, NEW Inner, InnerPrints(v, Inner),
         \A k \in 1..Len(v.of) : Begins(Inside(v, depth, Inner, k)),
         NEW At, Advances(At), NEW left \in Nat \ {0},
         \A k \in 1..Len(v.of) : ReadsBack(t, At, left - 1, v.of[k], Inside(v, depth, Inner, k)),
         NEW i, Occurs(t, i, TextOf(PrintArray(v, format, depth, Inner)))
  PROVE  IsRead(ParseNested(t, i, "array", left, At), i, TextOf(PrintArray(v, format, depth, Inner)),
                v, \E k \in 1..Len(v.of) : ~Fits(v.of[k], left - 1))
<1>1. PICK n \in Nat : n = Len(v.of)
  BY LenProperties
<1>2. Len(v.of) \in Nat
  BY <1>1
<1>3. PICK s, f, c : ArrayAt(t, i, v, format, depth, Inner, s, f, c)
  BY <1>2, ArrayLaid, Zenon
<1>4. /\ Laid(t, i, "array", n, s, f, c)
      /\ i + Len(TextOf(PrintArray(v, format, depth, Inner))) = c + 1
      /\ \A k \in 1..n : /\ Occurs(t, s[k], Inside(v, depth, Inner, k))
                         /\ f[k] = s[k] + Len(Inside(v, depth, Inner, k))
  BY <1>1, <1>3, Zenon DEF ArrayAt
<1>5. PICK of \in Seq(E) : of = v.of
  OBVIOUS
<1>6. PICK good : good = {k \in 1..n : Fits(of[k], left - 1)}
  OBVIOUS
<1>7. PICK read : read = [k \in 1..n |-> <<of[k]>>]
  OBVIOUS
<1>8. PICK behind : behind = [k \in 1..n |-> SubSeq(of, k, n)]
  OBVIOUS
<1>9. Behind(n, read, behind)
  <2>1. ASSUME n # 0 PROVE behind[n] = read[n]
    <3>1. n \in 1..n
      BY <2>1
    <3>2. SubSeq(of, n, n) = <<of[n]>>
      BY <1>1, <1>5, <3>1, TailOne
    <3> QED BY <1>7, <1>8, <3>1, <3>2
  <2>2. ASSUME NEW k \in 1..(n - 1) PROVE behind[k] = read[k] \o behind[k + 1]
    <3>1. k \in 1..n /\ k + 1 \in 1..n /\ k < n
      OBVIOUS
    <3>2. SubSeq(of, k, n) = <<of[k]>> \o SubSeq(of, k + 1, n)
      BY <1>1, <1>5, <3>1, TailOne
    <3>3. behind[k] = SubSeq(of, k, n) /\ read[k] = <<of[k]>> /\ behind[k + 1] = SubSeq(of, k + 1, n)
      BY <1>7, <1>8, <3>1
    <3> QED BY <3>2, <3>3, Zenon
  <2> QED BY <2>1, <2>2 DEF Behind
<1>10. ASSUME NEW k \in 1..n, NEW x \in 1..Len(t), SkipWhitespace(t, x + 1) = s[k]
       PROVE  /\ k \in good => ParseOne(t, x, "array", At) = Parsed(f[k], read[k])
              /\ k \notin good => ~ParseOne(t, x, "array", At).ok
  <2>1. PICK r : r = At[s[k]]
    OBVIOUS
  <2>2. ParseOne(t, x, "array", At) = IF r.ok THEN Parsed(r.at, <<r.value>>) ELSE Failed
    BY <1>10, <2>1 DEF ParseOne, ParseElement
  <2>3. ReadsBack(t, At, left - 1, of[k], Inside(v, depth, Inner, k))
    BY <1>1, <1>5
  <2>4. /\ Fits(of[k], left - 1) => r = Parsed(s[k] + Len(Inside(v, depth, Inner, k)), of[k])
        /\ ~Fits(of[k], left - 1) => ~r.ok
    BY <1>4, <2>1, <2>3, Zenon DEF ReadsBack
  <2>5. f[k] = s[k] + Len(Inside(v, depth, Inner, k))
    BY <1>4
  <2>6. CASE Fits(of[k], left - 1)
    <3>1. r = Parsed(f[k], of[k])
      BY <2>4, <2>5, <2>6, Zenon
    <3>2. ParseOne(t, x, "array", At) = Parsed(f[k], <<of[k]>>)
      BY <2>2, <3>1, ParsedIs
    <3> QED BY <1>6, <1>7, <2>6, <3>2
  <2>7. CASE ~Fits(of[k], left - 1)
    <3>1. ~ParseOne(t, x, "array", At).ok
      BY <2>2, <2>4, <2>7, FailedIs, Zenon
    <3> QED BY <1>6, <2>7, <3>1
  <2> QED BY <2>6, <2>7
<1>11. Elements(t, "array", At, n, s, f, read, good)
  BY <1>10, Zenon DEF Elements
<1>12. PICK r : r = ParseNested(t, i, "array", left, At)
  OBVIOUS
<1>13. /\ n = 0 => r = Parsed(c + 1, Item("array", <<>>))
       /\ n # 0 /\ (\A k \in 1..n : k \in good) => r = Parsed(c + 1, Item("array", behind[1]))
       /\ (\E k \in 1..n : k \notin good) => ~r.ok
  BY <1>4, <1>9, <1>11, <1>12, NestedRead
<1>14. ASSUME \A k \in 1..n : Fits(of[k], left - 1) PROVE r = Parsed(c + 1, v)
  <2>1. CASE n = 0
    <3>1. of = <<>>
      BY <1>1, <1>5, <2>1, EmptySeq
    <3> QED BY <1>5, <1>13, <2>1, <3>1, Zenon
  <2>2. CASE n # 0
    <3>1. 1 \in 1..n
      BY <2>2
    <3>2. behind[1] = of
      BY <1>1, <1>5, <1>8, <3>1, TailWhole
    <3>3. \A k \in 1..n : k \in good
      BY <1>6, <1>14
    <3> QED BY <1>5, <1>13, <2>2, <3>2, <3>3, Zenon
  <2> QED BY <2>1, <2>2
<1>15. ASSUME \E k \in 1..n : ~Fits(of[k], left - 1) PROVE ~r.ok
  BY <1>6, <1>13, <1>15
<1>16. c + 1 = i + Len(TextOf(PrintArray(v, format, depth, Inner)))
  BY <1>4, Zenon
<1> QED BY <1>1, <1>5, <1>12, <1>14, <1>15, <1>16, Zenon DEF IsRead

\* What separates a name and a value.
NameEnd == ":"

\* The member that ParseMember reads, with its name at name and its value at start.
LEMMA MemberReads ==
  ASSUME NEW t \in Seq(Characters), NEW At, NEW x \in 1..Len(t), NEW name \in 1..Len(t),
         SkipWhitespace(t, x + 1) = name, t[name] \in Strings,
         name + 1 \in 1..Len(t), t[name + 1] = NameEnd,
         NEW start \in 1..Len(t), Gap(t, name + 2, start), t[start] \notin White
  PROVE  /\ At[start].ok => ParseOne(t, x, "object", At)
                            = Parsed(At[start].at, <<Item(t[name], <<>>), At[start].value>>)
         /\ ~At[start].ok => ~ParseOne(t, x, "object", At).ok
<1>1. PICK l \in Nat : l = Len(t)
  BY LenProperties
<1>2. PICK colon \in 1..l : colon = name + 1 /\ colon + 1 = name + 2
  BY <1>1
<1>3. t[colon] = NameEnd /\ t[colon] \notin White
  <2>1. NameEnd \notin White
    BY Zenon DEF White, NameEnd
  <2> QED BY <1>2, <2>1, Zenon
<1>4. Gap(t, colon, colon)
  <2>1. colon \in Nat \ {0}
    OBVIOUS
  <2> QED BY <2>1, GapNone
<1>5. SkipWhitespace(t, name + 1) = colon
  BY <1>1, <1>2, <1>3, <1>4, GapSkip
<1>6. SkipWhitespace(t, colon + 1) = start
  BY <1>2, GapSkip
<1>7. Accessible(t, x + 1)
  <2>1. CASE x + 1 > l
    <3>1. SkipWhitespace(t, x + 1) = x + 1
      BY <1>1, <2>1 DEF SkipWhitespace
    <3> QED BY <1>1, <2>1, <3>1
  <2> QED BY <1>1, <2>1 DEF Accessible
<1>8. Accessible(t, colon)
  BY <1>1 DEF Accessible
<1>9. PICK r : r = At[start]
  OBVIOUS
<1>10. ParseOne(t, x, "object", At) = ParseMember(t, x, At)
  BY DEF ParseOne
<1>11. ParseMember(t, x, At)
       = IF ~r.ok THEN Failed ELSE Parsed(r.at, <<Item(t[name], <<>>), r.value>>)
  BY <1>3, <1>5, <1>6, <1>7, <1>8, <1>9, Zenon DEF ParseMember, NameEnd
<1> QED BY <1>9, <1>10, <1>11, FailedIs, Zenon

\* What an object reads back needs of its members.
MembersRead(t, v, depth, Inner, At, left) ==
  \A k \in 1..(Len(v.of) \div 2) :
    /\ v.of[2 * k - 1] = Item(v.of[2 * k - 1].type, <<>>)
    /\ Inside(v, depth, Inner, 2 * k) \in Seq(Characters)
    /\ Begins(Inside(v, depth, Inner, 2 * k))
    /\ ReadsBack(t, At, left - 1, v.of[2 * k], Inside(v, depth, Inner, 2 * k))

\* An object is read back if its elements are.
LEMMA ObjectRead ==
  ASSUME NEW t \in Seq(Characters), NEW E, NEW v, v.of \in Seq(E), v = Item("object", v.of),
         Named(v.of), NEW format \in BOOLEAN, NEW depth \in Nat, NEW Inner, InnerPrints(v, Inner),
         NEW At, Advances(At), NEW left \in Nat \ {0}, MembersRead(t, v, depth, Inner, At, left),
         NEW i, Occurs(t, i, TextOf(PrintObject(v, format, depth, Inner)))
  PROVE  IsRead(ParseNested(t, i, "object", left, At), i, TextOf(PrintObject(v, format, depth, Inner)),
                v, \E k \in 1..(Len(v.of) \div 2) : ~Fits(v.of[2 * k], left - 1))
<1>1. Len(v.of) \in Nat
  BY LenProperties
<1>2. PICK n \in Nat : n = Len(v.of) \div 2 /\ 2 * n = Len(v.of)
  BY <1>1, MembersAre
<1>3. \A k \in 1..n : /\ 2 * k - 1 \in 1..(2 * n) /\ 2 * k \in 1..(2 * n)
                      /\ v.of[2 * k - 1].type \in Strings
  BY <1>1, <1>2, MembersAre
<1>4. PICK s, e, f, c : ObjectAt(t, i, v, format, depth, Inner, s, e, f, c)
  BY <1>1, ObjectLaid, Zenon
<1>5. /\ Laid(t, i, "object", n, s, f, c)
      /\ i + Len(TextOf(PrintObject(v, format, depth, Inner))) = c + 1
      /\ \A k \in 1..n :
           /\ t[s[k]] = v.of[2 * k - 1].type
           /\ s[k] + 1 \in 1..Len(t) /\ t[s[k] + 1] = ":" /\ Gap(t, s[k] + 2, e[k])
           /\ Occurs(t, e[k], Inside(v, depth, Inner, 2 * k))
           /\ f[k] = e[k] + Len(Inside(v, depth, Inner, 2 * k))
  BY <1>2, <1>4, Zenon DEF ObjectAt
<1>6. PICK of \in Seq(E) : of = v.of
  OBVIOUS
<1>61. 2 * n = Len(of)
  BY <1>2, <1>6, Zenon
<1>7. \A k \in 1..n :
        /\ of[2 * k - 1] = Item(of[2 * k - 1].type, <<>>)
        /\ Inside(v, depth, Inner, 2 * k) \in Seq(Characters)
        /\ Begins(Inside(v, depth, Inner, 2 * k))
        /\ ReadsBack(t, At, left - 1, of[2 * k], Inside(v, depth, Inner, 2 * k))
  BY <1>2, <1>6, Zenon DEF MembersRead
<1>8. PICK good : good = {k \in 1..n : Fits(of[2 * k], left - 1)}
  OBVIOUS
<1>9. PICK read : read = [k \in 1..n |-> <<of[2 * k - 1], of[2 * k]>>]
  OBVIOUS
<1>10. PICK behind : behind = [k \in 1..n |-> SubSeq(of, 2 * k - 1, 2 * n)]
  OBVIOUS
<1>11. Behind(n, read, behind)
  <2>1. ASSUME n # 0 PROVE behind[n] = read[n]
    <3>1. n \in 1..n
      BY <2>1
    <3>2. PICK m \in 1..(2 * n - 1) : m = 2 * n - 1 /\ m + 1 = 2 * n
      BY <3>1
    <3>3. SubSeq(of, m, 2 * n) = <<of[m], of[m + 1]>>
      <4>1. PICK l \in Nat : l = 2 * n /\ l = Len(of) /\ m \in 1..(l - 1) /\ m + 1 = l
        BY <1>61, <3>2
      <4>11. PICK o \in 1..(l - 1) : o = m
        BY <4>1
      <4>2. SubSeq(of, o, l) = <<of[o], of[o + 1]>>
        BY <4>1, <4>11, TailTwo
      <4> QED BY <4>1, <4>11, <4>2, Zenon
    <3>4. SubSeq(of, 2 * n - 1, 2 * n) = <<of[2 * n - 1], of[2 * n]>>
      BY <3>2, <3>3, Zenon
    <3> QED BY <1>9, <1>10, <3>1, <3>4
  <2>2. ASSUME NEW k \in 1..(n - 1) PROVE behind[k] = read[k] \o behind[k + 1]
    <3>1. k \in 1..n /\ k + 1 \in 1..n /\ 2 * (k + 1) - 1 = (2 * k - 1) + 2
      OBVIOUS
    <3>2. PICK m \in 1..(2 * n - 1) : m = 2 * k - 1 /\ m + 1 = 2 * k /\ m + 1 < 2 * n
                                      /\ m + 2 = 2 * (k + 1) - 1
      BY <3>1
    <3>3. SubSeq(of, m, 2 * n) = <<of[m], of[m + 1]>> \o SubSeq(of, m + 2, 2 * n)
      <4>1. PICK l \in Nat : l = 2 * n /\ l = Len(of) /\ m \in 1..(l - 1) /\ m + 1 < l
        BY <1>61, <3>2
      <4>11. PICK o \in 1..(l - 1) : o = m
        BY <4>1
      <4>2. SubSeq(of, o, l) = <<of[o], of[o + 1]>> \o SubSeq(of, o + 2, l)
        BY <4>1, <4>11, TailTwo
      <4> QED BY <4>1, <4>11, <4>2, Zenon
    <3>4. SubSeq(of, 2 * k - 1, 2 * n)
          = <<of[2 * k - 1], of[2 * k]>> \o SubSeq(of, 2 * (k + 1) - 1, 2 * n)
      BY <3>2, <3>3, Zenon
    <3>5. /\ behind[k] = SubSeq(of, 2 * k - 1, 2 * n) /\ read[k] = <<of[2 * k - 1], of[2 * k]>>
          /\ behind[k + 1] = SubSeq(of, 2 * (k + 1) - 1, 2 * n)
      BY <1>9, <1>10, <3>1
    <3> QED BY <3>4, <3>5, Zenon
  <2> QED BY <2>1, <2>2 DEF Behind
<1>12. ASSUME NEW k \in 1..n, NEW x \in 1..Len(t), SkipWhitespace(t, x + 1) = s[k]
       PROVE  /\ k \in good => ParseOne(t, x, "object", At) = Parsed(f[k], read[k])
              /\ k \notin good => ~ParseOne(t, x, "object", At).ok
  <2>1. PICK start, name, inside : start = e[k] /\ name = s[k] /\ inside = Inside(v, depth, Inner, 2 * k)
    OBVIOUS
  <2>2. inside \in Seq(Characters) /\ Begins(inside) /\ Occurs(t, start, inside)
    BY <1>5, <1>7, <2>1, Zenon
  <2>3. start \in 1..Len(t) /\ t[start] \notin White
    <3>1. "object" \in {"array", "object"}
      OBVIOUS
    <3> QED BY <2>2, <3>1, BeginsWith
  <2>4. name \in 1..Len(t)
    BY <1>5, <2>1, Zenon DEF Laid
  <2>5. /\ t[name] \in Strings /\ t[name] = of[2 * k - 1].type
        /\ name + 1 \in 1..Len(t) /\ t[name + 1] = NameEnd /\ Gap(t, name + 2, start)
    BY <1>3, <1>5, <1>6, <2>1, Zenon DEF NameEnd
  <2>6. SkipWhitespace(t, x + 1) = name
    BY <1>12, <2>1
  <2>7. PICK r : r = At[start]
    OBVIOUS
  <2>8. /\ r.ok => ParseOne(t, x, "object", At) = Parsed(r.at, <<Item(t[name], <<>>), r.value>>)
        /\ ~r.ok => ~ParseOne(t, x, "object", At).ok
    BY <2>3, <2>4, <2>5, <2>6, <2>7, MemberReads
  <2>9. /\ Fits(of[2 * k], left - 1) => r = Parsed(start + Len(inside), of[2 * k])
        /\ ~Fits(of[2 * k], left - 1) => ~r.ok
    BY <1>7, <2>1, <2>2, <2>7, Zenon DEF ReadsBack
  <2>10. f[k] = start + Len(inside)
    BY <1>5, <2>1, Zenon
  <2>11. read[k] = <<of[2 * k - 1], of[2 * k]>>
    BY <1>9
  <2>12. CASE Fits(of[2 * k], left - 1)
    <3>1. r = Parsed(f[k], of[2 * k])
      BY <2>9, <2>10, <2>12, Zenon
    <3>2. r.ok /\ r.at = f[k] /\ r.value = of[2 * k]
      BY <3>1, ParsedIs
    <3>3. ParseOne(t, x, "object", At) = Parsed(f[k], read[k])
      BY <1>7, <2>5, <2>8, <2>11, <3>2, Zenon
    <3> QED BY <1>8, <2>12, <3>3
  <2>13. CASE ~Fits(of[2 * k], left - 1)
    <3>1. ~ParseOne(t, x, "object", At).ok
      BY <2>8, <2>9, <2>13, Zenon
    <3> QED BY <1>8, <2>13, <3>1
  <2> QED BY <2>12, <2>13
<1>13. Elements(t, "object", At, n, s, f, read, good)
  BY <1>12, Zenon DEF Elements
<1>14. PICK r : r = ParseNested(t, i, "object", left, At)
  OBVIOUS
<1>15. /\ n = 0 => r = Parsed(c + 1, Item("object", <<>>))
       /\ n # 0 /\ (\A k \in 1..n : k \in good) => r = Parsed(c + 1, Item("object", behind[1]))
       /\ (\E k \in 1..n : k \notin good) => ~r.ok
  <2>1. Laid(t, i, "object", n, s, f, c)
    BY <1>5, Zenon
  <2> QED BY <1>11, <1>13, <1>14, <2>1, NestedRead
<1>16. ASSUME \A k \in 1..n : Fits(of[2 * k], left - 1) PROVE r = Parsed(c + 1, v)
  <2>1. CASE n = 0
    <3>0. Len(of) = 0
      BY <1>61, <2>1
    <3>1. of = <<>>
      BY <3>0, EmptySeq
    <3> QED BY <1>6, <1>15, <2>1, <3>1, Zenon
  <2>2. CASE n # 0
    <3>1. 1 \in 1..n /\ 2 * 1 - 1 = 1
      BY <2>2
    <3>2. behind[1] = SubSeq(of, 2 * 1 - 1, 2 * n)
      BY <1>10, <3>1
    <3>3. behind[1] = of
      BY <1>2, <1>6, <3>1, <3>2, TailWhole
    <3>4. \A k \in 1..n : k \in good
      BY <1>8, <1>16
    <3> QED BY <1>6, <1>15, <2>2, <3>3, <3>4, Zenon
  <2> QED BY <2>1, <2>2
<1>17. ASSUME \E k \in 1..n : ~Fits(of[2 * k], left - 1) PROVE ~r.ok
  BY <1>8, <1>15, <1>17
<1>18. c + 1 = i + Len(TextOf(PrintObject(v, format, depth, Inner)))
  BY <1>5, Zenon
<1> QED BY <1>2, <1>6, <1>14, <1>16, <1>17, <1>18, Zenon DEF IsRead

LEMMA ArrayBegun ==
  ASSUME NEW t \in Seq(Characters), NEW v, Len(v.of) \in Nat, NEW format \in BOOLEAN,
         NEW depth \in Nat, NEW Inner, InnerPrints(v, Inner),
         \A k \in 1..Len(v.of) : Begins(Inside(v, depth, Inner, k)),
         NEW i, Occurs(t, i, TextOf(PrintArray(v, format, depth, Inner))), NEW left, NEW At
  PROVE  i \in Nat /\ ParseItem(t, i, left, At) = ParseNested(t, i, "array", left, At)
<1>1. PICK s, f, c : ArrayAt(t, i, v, format, depth, Inner, s, f, c)
  BY ArrayLaid, Zenon
<1>2. i \in 1..Len(t)
  BY <1>1, Zenon DEF ArrayAt
<1>3. t[i] = "["
  BY <1>1, Zenon DEF ArrayAt
<1>4. PICK l \in Nat : l = Len(t)
  BY LenProperties
<1>5. i \in Nat /\ Accessible(t, i)
  BY <1>2, <1>4 DEF Accessible
<1>6. Reads(t, i, left, At, ParseItem(t, i, left, At))
  BY <1>5, ItemIs
<1> QED BY <1>3, <1>5, <1>6, Zenon DEF Reads

LEMMA ObjectBegun ==
  ASSUME NEW t \in Seq(Characters), NEW v, Len(v.of) \in Nat, Named(v.of),
         NEW format \in BOOLEAN, NEW depth \in Nat, NEW Inner, InnerPrints(v, Inner),
         NEW i, Occurs(t, i, TextOf(PrintObject(v, format, depth, Inner))), NEW left, NEW At
  PROVE  i \in Nat /\ ParseItem(t, i, left, At) = ParseNested(t, i, "object", left, At)
<1>1. PICK s, e, f, c : ObjectAt(t, i, v, format, depth, Inner, s, e, f, c)
  BY ObjectLaid, Zenon
<1>2. i \in 1..Len(t)
  BY <1>1, Zenon DEF ObjectAt
<1>3. t[i] = "{"
  BY <1>1, Zenon DEF ObjectAt
<1>4. PICK l \in Nat : l = Len(t)
  BY LenProperties
<1>5. i \in Nat /\ Accessible(t, i)
  BY <1>2, <1>4 DEF Accessible
<1>6. Reads(t, i, left, At, ParseItem(t, i, left, At))
  BY <1>5, ItemIs
<1> QED BY <1>3, <1>5, <1>6, Zenon DEF Reads

\* Names do not make an object nest more deeply.
LEMMA ObjectFits ==
  ASSUME NEW n \in 1..MaxDepth, NEW v \in Values[n], v.type \notin Atoms,
         v.of \in Seq(Values[n - 1]), Named(v.of), NEW left \in Nat \ {0}
  PROVE  Fits(v, left) <=> \A k \in 1..(Len(v.of) \div 2) : Fits(v.of[2 * k], left - 1)
<1>1. Len(v.of) \in Nat
  BY LenProperties
<1>2. PICK m \in Nat : m = Len(v.of) \div 2 /\ 2 * m = Len(v.of)
  BY <1>1, MembersAre
<1>3. PICK less \in Nat : less = left - 1
  OBVIOUS
<1>4. PICK of \in Seq(Values[n - 1]) : of = v.of
  OBVIOUS
<1>5. PICK l \in Nat : l = Len(of) /\ l = 2 * m
  BY <1>1, <1>2, <1>4
<1>6. \A k \in 1..m : 2 * k - 1 \in 1..l /\ 2 * k \in 1..l /\ of[2 * k - 1].type \in Strings
  BY <1>1, <1>2, <1>4, <1>5, MembersAre
<1>7. n - 1 \in 0..MaxDepth
  BY ValueAssumption
<1>8. \A k \in 1..m : Fits(of[2 * k - 1], less)
  <2>1. ASSUME NEW k \in 1..m PROVE Fits(of[2 * k - 1], less)
    <3>1. PICK q \in 1..l : q = 2 * k - 1
      BY <1>6
    <3>2. of[q] \in Values[n - 1] /\ of[q].type \in Atoms
      BY <1>5, <1>6, <3>1, ElementOfSeq, WidthAssumption
    <3>3. Fits(of[q], less)
      BY <1>7, <3>2, FitsAtom
    <3> QED BY <3>1, <3>3, Zenon
  <2> QED BY <2>1
<1>9. Fits(v, left) <=> \A q \in 1..l : Fits(of[q], less)
  BY <1>3, <1>4, <1>5, FitsNested
<1>10. \A q \in 1..l : \E k \in 1..m : q = 2 * k - 1 \/ q = 2 * k
  <2>1. ASSUME NEW q \in 1..l PROVE \E k \in 1..m : q = 2 * k - 1 \/ q = 2 * k
    <3>1. PICK k : k = (q + 1) \div 2
      OBVIOUS
    <3>2. k \in 1..m /\ (q = 2 * k - 1 \/ q = 2 * k)
      BY <1>5, <3>1
    <3> QED BY <3>2
  <2> QED BY <2>1
<1>11. (\A q \in 1..l : Fits(of[q], less)) <=> \A k \in 1..m : Fits(of[2 * k], less)
  <2>1. ASSUME \A k \in 1..m : Fits(of[2 * k], less), NEW q \in 1..l PROVE Fits(of[q], less)
    BY <1>8, <1>10, <2>1, Zenon
  <2>2. ASSUME \A q \in 1..l : Fits(of[q], less), NEW k \in 1..m PROVE Fits(of[2 * k], less)
    BY <1>6, <2>2, Zenon
  <2> QED BY <2>1, <2>2, Zenon
<1> QED BY <1>2, <1>3, <1>4, <1>9, <1>11, Zenon

\* An atom is read back wherever it is printed.
LEMMA AtomRead ==
  ASSUME NEW t \in Seq(Characters), NEW v, v.type \in Atoms, v = Item(v.type, <<>>), NEW left,
         NEW At, NEW i, Occurs(t, i, <<v.type>>)
  PROVE  i \in Nat /\ ParseItem(t, i, left, At) = Parsed(i + Len(<<v.type>>), v)
<1>1. i \in 1..Len(t) /\ t[i] = v.type
  BY OccursOne
<1>2. PICK l \in Nat : l = Len(t)
  BY LenProperties
<1>3. i \in Nat /\ Accessible(t, i)
  BY <1>1, <1>2 DEF Accessible
<1>4. Reads(t, i, left, At, ParseItem(t, i, left, At))
  BY <1>3, ItemIs
<1>5. ParseItem(t, i, left, At) = Parsed(i + 1, Item(t[i], <<>>))
  BY <1>1, <1>4, Zenon DEF Reads
<1>6. Len(<<v.type>>) = 1
  BY OneCharacter DEF Characters
<1> QED BY <1>1, <1>3, <1>5, <1>6, Zenon

\* print is the printer, parse the parser of t: what is printed of the values of
\* level m is read back.
AllRead(t, print, parse, m) ==
  \A v \in Values[m], depth \in Nat, left \in 0..NestingLimit :
    ReadsBack(t, parse[left], left, v, TextOf(print[m][v][depth]))

LEMMA ArrayReadBack ==
  ASSUME NEW t \in Seq(Characters), NEW format \in BOOLEAN, NEW print, PrintLevels(print, format),
         NEW parse, Levels(parse, t), NEW m, NEW v \in Values[m], Nests(m, v, print),
         v.type = "array", AllRead(t, print, parse, m - 1), NEW depth \in Nat,
         NEW left \in 0..NestingLimit
  PROVE  ReadsBack(t, parse[left], left, v, TextOf(PrintArray(v, format, depth, print[m - 1])))
<1>1. PICK Inner : Inner = print[m - 1]
  OBVIOUS
<1>2. PICK At : At = parse[left - 1]
  OBVIOUS
<1>3. PICK s : s = TextOf(PrintArray(v, format, depth, Inner))
  OBVIOUS
<1>4. /\ m \in 1..MaxDepth /\ m - 1 \in 0..MaxDepth /\ v.type \notin Atoms
      /\ v = Item("array", v.of) /\ v.of \in Seq(Values[m - 1]) /\ Len(v.of) \in Nat
      /\ \A k \in 1..Len(v.of) : v.of[k] \in Values[m - 1]
      /\ InnerPrints(v, Inner)
  BY <1>1, Zenon DEF Nests
<1>5. depth + 1 \in Nat
  OBVIOUS
<1>6. \A k \in 1..Len(v.of) : Begins(Inside(v, depth, Inner, k))
  BY <1>1, <1>4, <1>5, ValueBegins, Zenon DEF Inside
<1>7. ASSUME NEW i, Occurs(t, i, s)
      PROVE  /\ Fits(v, left) => parse[left][i] = Parsed(i + Len(s), v)
             /\ ~Fits(v, left) => ~parse[left][i].ok
  <2>0. Occurs(t, i, TextOf(PrintArray(v, format, depth, Inner)))
    BY <1>3, <1>7, Zenon
  <2>1. i \in Nat /\ ParseItem(t, i, left, At) = ParseNested(t, i, "array", left, At)
    BY <1>4, <1>6, <2>0, ArrayBegun
  <2>2. parse[left][i] = ParseItem(t, i, left, At)
    BY <1>2, <2>1, Zenon DEF Levels
  <2>3. PICK r : r = ParseNested(t, i, "array", left, At)
    OBVIOUS
  <2>4. CASE left = 0
    <3>1. PICK j : j = SkipWhitespace(t, i + 1)
      OBVIOUS
    <3>2. r = Failed
      BY <2>1, <2>3, <2>4, <3>1, NestedIs
    <3>3. ~Fits(v, left)
      BY <1>4, <2>4, FitsNever
    <3> QED BY <2>1, <2>2, <2>3, <3>2, <3>3, FailedIs, Zenon
  <2>5. CASE left # 0
    <3>1. left \in Nat \ {0} /\ left - 1 \in 0..NestingLimit
      BY <2>5, LimitAssumption
    <3>2. Advances(At)
      BY <1>2, <3>1, Zenon DEF Levels
    <3>3. \A k \in 1..Len(v.of) : ReadsBack(t, At, left - 1, v.of[k], Inside(v, depth, Inner, k))
      BY <1>1, <1>2, <1>4, <1>5, <3>1, Zenon DEF AllRead, Inside
    <3>4. IsRead(ParseNested(t, i, "array", left, At), i, TextOf(PrintArray(v, format, depth, Inner)),
                 v, \E k \in 1..Len(v.of) : ~Fits(v.of[k], left - 1))
      BY <1>4, <1>6, <2>0, <3>1, <3>2, <3>3, ArrayRead
    <3>5. Fits(v, left) <=> \A k \in 1..Len(v.of) : Fits(v.of[k], left - 1)
      BY <1>4, <3>1, FitsNested, Zenon
    <3> QED BY <1>3, <2>1, <2>2, <3>4, <3>5, Zenon DEF IsRead
  <2> QED BY <2>4, <2>5
<1>8. ReadsBack(t, parse[left], left, v, s)
  BY <1>7, Zenon DEF ReadsBack
<1> QED BY <1>1, <1>3, <1>8, Zenon

LEMMA ObjectReadBack ==
  ASSUME NEW t \in Seq(Characters), NEW format \in BOOLEAN, NEW print, PrintLevels(print, format),
         NEW parse, Levels(parse, t), NEW m, NEW v \in Values[m], Nests(m, v, print),
         v.type = "object", Named(v.of), AllRead(t, print, parse, m - 1), NEW depth \in Nat,
         NEW left \in 0..NestingLimit
  PROVE  ReadsBack(t, parse[left], left, v, TextOf(PrintObject(v, format, depth, print[m - 1])))
<1>1. PICK Inner : Inner = print[m - 1]
  OBVIOUS
<1>2. PICK At : At = parse[left - 1]
  OBVIOUS
<1>3. PICK s : s = TextOf(PrintObject(v, format, depth, Inner))
  OBVIOUS
<1>4. /\ m \in 1..MaxDepth /\ m - 1 \in 0..MaxDepth /\ v.type \notin Atoms
      /\ v = Item("object", v.of) /\ v.of \in Seq(Values[m - 1]) /\ Len(v.of) \in Nat
      /\ \A k \in 1..Len(v.of) : v.of[k] \in Values[m - 1]
      /\ InnerPrints(v, Inner)
  BY <1>1, Zenon DEF Nests
<1>5. depth + 1 \in Nat
  OBVIOUS
<1>6. \A k \in 1..(Len(v.of) \div 2) :
        /\ 2 * k - 1 \in 1..Len(v.of) /\ 2 * k \in 1..Len(v.of)
        /\ v.of[2 * k - 1].type \in Strings
  BY <1>4, MembersAre
<1>7. ASSUME NEW i, Occurs(t, i, s)
      PROVE  /\ Fits(v, left) => parse[left][i] = Parsed(i + Len(s), v)
             /\ ~Fits(v, left) => ~parse[left][i].ok
  <2>0. Occurs(t, i, TextOf(PrintObject(v, format, depth, Inner)))
    BY <1>3, <1>7, Zenon
  <2>1. i \in Nat /\ ParseItem(t, i, left, At) = ParseNested(t, i, "object", left, At)
    BY <1>4, <2>0, ObjectBegun
  <2>2. parse[left][i] = ParseItem(t, i, left, At)
    BY <1>2, <2>1, Zenon DEF Levels
  <2>3. PICK r : r = ParseNested(t, i, "object", left, At)
    OBVIOUS
  <2>4. CASE left = 0
    <3>1. PICK j : j = SkipWhitespace(t, i + 1)
      OBVIOUS
    <3>2. r = Failed
      BY <2>1, <2>3, <2>4, <3>1, NestedIs
    <3>3. ~Fits(v, left)
      BY <1>4, <2>4, FitsNever
    <3> QED BY <2>1, <2>2, <2>3, <3>2, <3>3, FailedIs, Zenon
  <2>5. CASE left # 0
    <3>1. left \in Nat \ {0} /\ left - 1 \in 0..NestingLimit
      BY <2>5, LimitAssumption
    <3>2. Advances(At)
      BY <1>2, <3>1, Zenon DEF Levels
    <3>3. ASSUME NEW k \in 1..(Len(v.of) \div 2)
          PROVE  /\ v.of[2 * k - 1] = Item(v.of[2 * k - 1].type, <<>>)
                 /\ Inside(v, depth, Inner, 2 * k) \in Seq(Characters)
                 /\ Begins(Inside(v, depth, Inner, 2 * k))
                 /\ ReadsBack(t, At, left - 1, v.of[2 * k], Inside(v, depth, Inner, 2 * k))
      <4>1. PICK x \in Values[m - 1], y \in Values[m - 1] : x = v.of[2 * k - 1] /\ y = v.of[2 * k]
        BY <1>4, <1>6, Zenon
      <4>2. x.type \in Atoms
        BY <1>6, <4>1, WidthAssumption
      <4>3. x = Item(x.type, <<>>)
        BY <1>4, <4>2, ValueIs
      <4>4. Inside(v, depth, Inner, 2 * k) = TextOf(print[m - 1][y][depth + 1])
        BY <1>1, <4>1, Zenon DEF Inside
      <4>5. /\ TextOf(print[m - 1][y][depth + 1]) \in Seq(Characters)
            /\ Begins(TextOf(print[m - 1][y][depth + 1]))
        BY <1>4, <1>5, ValueBegins, Zenon
      <4>6. ReadsBack(t, At, left - 1, y, TextOf(print[m - 1][y][depth + 1]))
        BY <1>2, <1>5, <3>1, Zenon DEF AllRead
      <4> QED BY <4>1, <4>3, <4>4, <4>5, <4>6, Zenon
    <3>4. MembersRead(t, v, depth, Inner, At, left)
      BY <3>3, Zenon DEF MembersRead
    <3>5. IsRead(ParseNested(t, i, "object", left, At), i, TextOf(PrintObject(v, format, depth, Inner)),
                 v, \E k \in 1..(Len(v.of) \div 2) : ~Fits(v.of[2 * k], left - 1))
      BY <1>4, <2>0, <3>1, <3>2, <3>4, ObjectRead
    <3>6. Fits(v, left) <=> \A k \in 1..(Len(v.of) \div 2) : Fits(v.of[2 * k], left - 1)
      BY <1>4, <3>1, ObjectFits, Zenon
    <3> QED BY <1>3, <2>1, <2>2, <3>5, <3>6, Zenon DEF IsRead
  <2> QED BY <2>4, <2>5
<1>8. ReadsBack(t, parse[left], left, v, s)
  BY <1>7, Zenon DEF ReadsBack
<1> QED BY <1>1, <1>3, <1>8, Zenon

\* What is printed of a value is read back, at every level and depth.
LEMMA ValueRead ==
  ASSUME NEW t \in Seq(Characters), NEW format \in BOOLEAN, NEW print, PrintLevels(print, format),
         NEW parse, Levels(parse, t)
  PROVE  \A m \in 0..MaxDepth : AllRead(t, print, parse, m)
<1>1. MaxDepth \in Nat
  BY ValueAssumption
<1> DEFINE T == {m \in 0..MaxDepth : AllRead(t, print, parse, m)}
<1>2. ASSUME NEW m \in 0..MaxDepth, m # 0 => m - 1 \in T PROVE m \in T
  <2>1. ASSUME NEW v \in Values[m], NEW depth \in Nat, NEW left \in 0..NestingLimit
        PROVE  ReadsBack(t, parse[left], left, v, TextOf(print[m][v][depth]))
    <3>1. LevelIs(print, format, m, v, depth)
      BY LevelCases
    <3>2. left \in Nat
      BY LimitAssumption
    <3>3. CASE v.type \in Atoms /\ v = Item(v.type, <<>>) /\ print[m][v][depth] = PrintAtom(v.type)
      <4>1. TextOf(print[m][v][depth]) = <<v.type>>
        BY <3>3, AtomText, Zenon
      <4>2. Fits(v, left)
        BY <3>2, <3>3, FitsAtom
      <4>3. ASSUME NEW i, Occurs(t, i, <<v.type>>)
            PROVE  parse[left][i] = Parsed(i + Len(<<v.type>>), v)
        <5>1. PICK At : At = parse[left - 1]
          OBVIOUS
        <5>2. i \in Nat /\ ParseItem(t, i, left, At) = Parsed(i + Len(<<v.type>>), v)
          BY <3>3, <4>3, AtomRead
        <5> QED BY <5>1, <5>2, Zenon DEF Levels
      <4> QED BY <4>1, <4>2, <4>3, Zenon DEF ReadsBack
    <3>4. CASE Nests(m, v, print)
      <4>1. m # 0 /\ m \in 1..MaxDepth
        BY <3>4 DEF Nests
      <4>2. AllRead(t, print, parse, m - 1)
        BY <1>2, <4>1
      <4>3. CASE v.type = "array" /\ print[m][v][depth] = PrintArray(v, format, depth, print[m - 1])
        BY <3>4, <4>2, <4>3, ArrayReadBack, Zenon
      <4>4. CASE /\ v.type = "object" /\ Named(v.of)
                 /\ print[m][v][depth] = PrintObject(v, format, depth, print[m - 1])
        BY <3>4, <4>2, <4>4, ObjectReadBack, Zenon
      <4>5. v.type \notin Atoms
        BY <3>4, Zenon DEF Nests
      <4> QED BY <3>1, <4>3, <4>4, <4>5, Zenon DEF LevelIs
    <3> QED BY <3>1, <3>3, <3>4, Zenon DEF LevelIs
  <2> QED BY <2>1, Zenon DEF AllRead
<1> HIDE DEF T
<1>3. 0 \in T
  BY <1>1, <1>2
<1>4. ASSUME NEW m \in 1..MaxDepth, m - 1 \in T PROVE m \in T
  BY <1>1, <1>2, <1>4
<1>5. \A m \in 0..MaxDepth : m \in T
  BY <1>1, <1>3, <1>4, UpTo
<1> QED BY <1>5 DEF T

\* A text occurs in front of what is appended to it.
LEMMA OccursBefore ==
  ASSUME NEW s \in Seq(Characters), NEW c \in Characters
  PROVE  Append(s, c) \in Seq(Characters) /\ Occurs(Append(s, c), 1, s)
<1>1. PICK l \in Nat : l = Len(s)
  BY LenProperties
<1>2. PICK t : t = Append(s, c)
  OBVIOUS
<1>3. t \in Seq(Characters) /\ Len(t) = l + 1 /\ \A q \in 1..l : t[q] = s[q]
  BY <1>1, <1>2
<1>4. \A q \in 1..l : t[(1 + q) - 1] = s[q]
  <2>1. ASSUME NEW q \in 1..l PROVE (1 + q) - 1 = q
    OBVIOUS
  <2> QED BY <1>3, <2>1
<1>5. Occurs(t, 1, s)
  BY <1>1, <1>3, <1>4 DEF Occurs
<1> QED BY <1>2, <1>3, <1>5

\* What is printed of a value is parsed to that value.
LEMMA ValueReadBack ==
  ASSUME NEW v \in Values[MaxDepth], NEW format \in BOOLEAN
  PROVE  LET r == Parse(TextOf(PrintValue(v, format))) IN
         /\ Shallow(v) => r.ok /\ r.value = v
         /\ ~Shallow(v) => ~r.ok
<1>1. MaxDepth \in 0..MaxDepth /\ 0 \in Nat
  BY ValueAssumption
<1>2. NestingLimit \in 0..NestingLimit
  BY LimitAssumption
<1>3. PICK print : PrintLevels(print, format)
  BY PrinterIs
<1>4. PICK s : s = TextOf(print[MaxDepth][v][0])
  OBVIOUS
<1>5. s = TextOf(PrintValue(v, format))
  BY <1>3, <1>4, Zenon DEF PrintLevels
<1>6. s \in Seq(Characters) /\ Begins(s)
  BY <1>1, <1>3, <1>4, ValueBegins
<1>7. PICK c \in Characters : c = "NUL"
  BY Zenon DEF Characters, White
<1>8. PICK t \in Seq(Characters) : t = Append(s, c) /\ Occurs(t, 1, s)
  BY <1>6, OccursBefore
<1>9. 1 \in 1..Len(t) /\ t[1] \notin White
  BY <1>6, <1>8, BeginsWith
<1>10. SkipWhitespace(t, 1) = 1
  BY <1>9, GapNone, GapSkip
<1>11. PICK parse : Levels(parse, t) /\ \A i : ParseValue(t, i) = parse[NestingLimit][i]
  BY ParseLevels
<1>12. ReadsBack(t, parse[NestingLimit], NestingLimit, v, s)
  BY <1>1, <1>2, <1>3, <1>4, <1>11, ValueRead, Zenon DEF AllRead
<1>13. /\ Fits(v, NestingLimit) => ParseValue(t, 1) = Parsed(1 + Len(s), v)
       /\ ~Fits(v, NestingLimit) => ~ParseValue(t, 1).ok
  BY <1>8, <1>11, <1>12, Zenon DEF ReadsBack
<1>14. t # <<>>
  BY <1>9, EmptySeq
<1>15. Parse(s) = ParseValue(t, 1)
  BY <1>7, <1>8, <1>10, <1>14, Zenon DEF Parse, ParseWithLength
<1>16. Shallow(v) <=> Fits(v, NestingLimit)
  BY DEF Shallow, Fits
<1> QED BY <1>5, <1>13, <1>15, <1>16, ParsedIs

\* What is printed of a value, with or without format, cJSON_Parse reads back as
\* that value, if it is not nested more deeply than CJSON_NESTING_LIMIT, and
\* refuses otherwise (print_value and parse_value with the functions they call,
\* cJSON.c:1058-1826).
THEOREM PrintedValuesReadBack == Spec => []RoundTrip
<1>1. 1 \in 0..INT_MAX /\ FALSE \in BOOLEAN /\ INT_MAX \in Nat /\ 1 <= INT_MAX
  BY IntAssumption
<1>2. ASSUME OfValues, NEW format \in BOOLEAN,
             Printed(PrintValue(value, format), 1, FALSE, INT_MAX).ok
      PROVE  LET r == Parse(Printed(PrintValue(value, format), 1, FALSE, INT_MAX).chars) IN
             IF Shallow(value) THEN r.ok /\ r.value = value ELSE ~r.ok
  <2>1. value \in Values[MaxDepth]
    BY <1>2 DEF OfValues
  <2>2. Printed(PrintValue(value, format), 1, FALSE, INT_MAX).chars
          = TextOf(PrintValue(value, format))
    BY <1>1, <1>2, <2>1, ValuePrinted
  <2>3. PICK r : r = Parse(TextOf(PrintValue(value, format)))
    OBVIOUS
  <2>4. /\ Shallow(value) => r.ok /\ r.value = value
        /\ ~Shallow(value) => ~r.ok
    BY <2>1, <2>3, ValueReadBack
  <2> QED BY <2>2, <2>3, <2>4
<1>3. OfValues => RoundTrip
  BY <1>2 DEF RoundTrip
<1> QED BY <1>3, ValueInvariant, PTL
=============================================================================
