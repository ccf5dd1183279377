------------------------------ MODULE FoldProofs ------------------------------
(***************************************************************************)
(* Induction over numbers and over the subsets of a finite set, stated of  *)
(* the set of those for which a property holds, and with it what is proved *)
(* about the folds of the community modules.                               *)
(***************************************************************************)
EXTENDS Integers, SequencesExt, FiniteSetTheorems, SequenceTheorems, TLAPS

\* Every set of numbers has a least one.
LEMMA LeastNumber ==
  ASSUME NEW T, T \subseteq Nat, T # {}
  PROVE  \E x \in T : \A y \in T : x <= y
<1>1. IsWellFoundedOn(OpToRel(<, Nat), Nat)
  BY NatLessThanWellFounded
<1>2. PICK x \in T : \A y \in T : <<y, x>> \notin OpToRel(<, Nat)
  BY <1>1, WFMin
<1>3. \A y \in T : ~(y < x)
  BY <1>2 DEF OpToRel
<1> QED BY <1>3

\* Induction on the numbers up to n.
LEMMA UpTo ==
  ASSUME NEW n \in Nat, NEW T, 0 \in T,
         \A k \in 1..n : k - 1 \in T => k \in T
  PROVE  \A k \in 0..n : k \in T
<1> DEFINE Bad == {k \in 0..n : k \notin T}
<1>1. CASE Bad = {}
  BY <1>1
<1>2. CASE Bad # {}
  <2>0. Bad \subseteq Nat
    OBVIOUS
  <2> HIDE DEF Bad
  <2>1. PICK k \in Bad : \A m \in Bad : k <= m
    BY <1>2, <2>0, LeastNumber
  <2> USE DEF Bad
  <2>2. k # 0 /\ k - 1 \in 0..n /\ k - 1 \notin Bad
    BY <2>1
  <2> QED BY <2>1, <2>2
<1> QED BY <1>1, <1>2

\* Induction on the subsets of a finite set.
LEMMA OverSubsets ==
  ASSUME NEW S, IsFiniteSet(S), NEW T,
         \A x \in SUBSET S : (\A y \in SUBSET x : y # x => y \in T) => x \in T
  PROVE  \A x \in SUBSET S : x \in T
<1> DEFINE Bad == {x \in SUBSET S : x \notin T}
<1>1. CASE Bad = {}
  BY <1>1
<1>2. CASE Bad # {}
  <2>1. IsWellFoundedOn(StrictSubsetOrdering(S), SUBSET S)
    BY FS_StrictSubsetOrderingWellFounded, FS_FiniteSubsetsOfFinite
  <2>0. Bad \subseteq SUBSET S
    OBVIOUS
  <2> HIDE DEF Bad
  <2>2. PICK x \in Bad : \A y \in Bad : <<y, x>> \notin StrictSubsetOrdering(S)
    BY <1>2, <2>0, <2>1, WFMin
  <2> USE DEF Bad
  <2>3. \A y \in SUBSET x : y # x => y \notin Bad
    BY <2>2 DEF StrictSubsetOrdering
  <2> QED BY <2>2, <2>3
<1> QED BY <1>1, <1>2
-----------------------------------------------------------------------------
\* What a fold over the subsets of S is, when c says which element is last and
\* F what it does.
FoldsTo(it, S, V, base, c, F) ==
  /\ it \in [SUBSET S -> V]
  /\ \A s \in SUBSET S : it[s] = IF s = {} THEN base ELSE F[<<c[s], it[s \ {c[s]}]>>]

Chooser(c, S) == \A s \in SUBSET S : s # {} => c[s] \in s

\* Two folds agree where both are defined.
LEMMA FoldsAgree ==
  ASSUME NEW S, IsFiniteSet(S), NEW V, NEW base, NEW c, NEW F, Chooser(c, S),
         NEW X \in SUBSET S, NEW Y \in SUBSET S, NEW it1, NEW it2,
         FoldsTo(it1, X, V, base, c, F), FoldsTo(it2, Y, V, base, c, F)
  PROVE  \A s \in (SUBSET X) \cap (SUBSET Y) : it1[s] = it2[s]
<1> DEFINE T == {s \in SUBSET S : s \in SUBSET X /\ s \in SUBSET Y => it1[s] = it2[s]}
<1>1. ASSUME NEW x \in SUBSET S, \A y \in SUBSET x : y # x => y \in T
      PROVE  x \in T
  <2> SUFFICES ASSUME x \in SUBSET X, x \in SUBSET Y PROVE it1[x] = it2[x]
    OBVIOUS
  <2>1. CASE x = {}
    BY <2>1 DEF FoldsTo
  <2>2. CASE x # {}
    <3>1. c[x] \in x
      BY <2>2 DEF Chooser
    <3> DEFINE y == x \ {c[x]}
    <3>2. it1[y] = it2[y]
      BY <1>1, <3>1
    <3> QED BY <2>2, <3>2 DEF FoldsTo
  <2> QED BY <2>1, <2>2
<1> HIDE DEF T
<1>2. \A x \in SUBSET S : x \in T
  BY <1>1, OverSubsets
<1> QED BY <1>2 DEF T

\* There is such a fold.
LEMMA FoldExists ==
  ASSUME NEW S, IsFiniteSet(S), NEW V, NEW base \in V, NEW c, NEW F \in [S \X V -> V],
         Chooser(c, S)
  PROVE  \E it : FoldsTo(it, S, V, base, c, F)
<1> DEFINE T == {x \in SUBSET S : \E it : FoldsTo(it, x, V, base, c, F)}
           of(x) == CHOOSE it : FoldsTo(it, x, V, base, c, F)
<1>1. ASSUME NEW x \in SUBSET S, \A y \in SUBSET x : y # x => y \in T
      PROVE  x \in T
  <2> DEFINE before(s) == s \ {c[s]}
             it == [s \in SUBSET x |->
                      IF s = {} THEN base ELSE F[<<c[s], of(before(s))[before(s)]>>]]
  <2>1. \A s \in SUBSET x : s # {} => before(s) \in SUBSET x /\ before(s) # x /\ c[s] \in S
    BY DEF Chooser
  <2>2. \A y \in SUBSET x : y # x => FoldsTo(of(y), y, V, base, c, F)
    BY <1>1
  <2> HIDE DEF of
  <2>3. ASSUME NEW y \in SUBSET x, y # x
        PROVE  of(y)[y] \in V
    <3>1. y \in SUBSET y
      OBVIOUS
    <3> QED BY <2>2, <2>3, <3>1 DEF FoldsTo
  <2>4. it \in [SUBSET x -> V]
    <3>1. \A s \in SUBSET x : s # {} => F[<<c[s], of(before(s))[before(s)]>>] \in V
      BY <2>1, <2>3
    <3> QED BY <3>1
  <2>5. ASSUME NEW y \in SUBSET x, y # x
        PROVE  it[y] = of(y)[y]
    <3>1. CASE y = {}
      BY <2>2, <2>5, <3>1 DEF FoldsTo
    <3>2. CASE y # {}
      <4>1. y \in SUBSET y /\ before(y) \in SUBSET y
        OBVIOUS
      <4>2. of(y)[y] = F[<<c[y], of(y)[before(y)]>>]
        BY <2>2, <2>5, <3>2, <4>1 DEF FoldsTo
      <4>3. FoldsTo(of(before(y)), before(y), V, base, c, F)
        BY <2>1, <2>2, <3>2
      <4>4. before(y) \in SUBSET S /\ y \in SUBSET S
        OBVIOUS
      <4>5. before(y) \in (SUBSET y) \cap (SUBSET before(y))
        OBVIOUS
      <4>6. FoldsTo(of(y), y, V, base, c, F)
        BY <2>2, <2>5
      <4> HIDE DEF before
      <4>7. \A s \in (SUBSET y) \cap (SUBSET before(y)) :
              of(y)[s] = of(before(y))[s]
        BY <4>3, <4>4, <4>5, <4>6, FoldsAgree
      <4> QED BY <3>2, <4>2, <4>5, <4>7
    <3> QED BY <3>1, <3>2
  <2>6. \A s \in SUBSET x : it[s] = IF s = {} THEN base ELSE F[<<c[s], it[before(s)]>>]
    BY <2>1, <2>5
  <2>7. FoldsTo(it, x, V, base, c, F)
    BY <2>4, <2>6 DEF FoldsTo
  <2> QED BY <2>7
<1> HIDE DEF T
<1>2. S \in T
  <2>1. \A x \in SUBSET S : x \in T
    BY <1>1, OverSubsets
  <2> QED BY <2>1
<1> QED BY <1>2 DEF T
-----------------------------------------------------------------------------
\* Max, of the community modules, is the greatest of some numbers up to n.
LEMMA MaxOf ==
  ASSUME NEW n \in Nat, NEW s \in SUBSET (1..n), s # {}
  PROVE  Max(s) \in s /\ \A y \in s : y <= Max(s)
<1> DEFINE T == {x \in Nat : n - x \in s}
<1>1. T \subseteq Nat /\ T # {}
  <2>1. PICK y \in s : TRUE
    OBVIOUS
  <2>2. n - y \in Nat /\ n - (n - y) = y
    OBVIOUS
  <2> QED BY <2>1, <2>2
<1> HIDE DEF T
<1>2. PICK x \in T : \A y \in T : x <= y
  BY <1>1, LeastNumber
<1> USE DEF T
<1>3. \A y \in s : n - y \in T /\ n - x >= y
  <2>1. \A y \in s : n - y \in Nat /\ n - (n - y) = y
    OBVIOUS
  <2> QED BY <1>2, <2>1
<1>4. n - x \in s /\ \A y \in s : n - x >= y
  BY <1>3
<1> QED BY <1>4 DEF Max

LEMMA MaxUpTo ==
  ASSUME NEW k \in Nat \ {0}
  PROVE  Max(1..k) = k
<1>2. k \in 1..k /\ 1..k \in SUBSET (1..k)
  OBVIOUS
<1>1. Max(1..k) \in 1..k /\ \A y \in 1..k : y <= Max(1..k)
  BY <1>2, MaxOf
<1> QED BY <1>1, <1>2

\* The function that FoldLeft computes with, when F is what is folded.
LeftFold(it, V, base, seq, F) ==
  /\ it \in [SUBSET DOMAIN seq -> V]
  /\ it = [s \in SUBSET DOMAIN seq |->
             IF s = {} THEN base ELSE F[<<it[s \ {Max(s)}], seq[Max(s)]>>]]

LEMMA FoldLeftExists ==
  ASSUME NEW V, NEW E, NEW base \in V, NEW seq \in Seq(E), NEW F \in [V \X E -> V]
  PROVE  \E it : LeftFold(it, V, base, seq, F)
<1> DEFINE D == 1..Len(seq)
           c == [s \in SUBSET D |-> Max(s)]
           G == [p \in D \X V |-> F[<<p[2], seq[p[1]]>>]]
<1>1. DOMAIN seq = D /\ Len(seq) \in Nat
  BY LenProperties
<1>2. IsFiniteSet(D)
  BY <1>1, FS_Interval
<1>3. Chooser(c, D)
  BY <1>1, MaxOf DEF Chooser
<1>4. G \in [D \X V -> V]
  BY ElementOfSeq
<1> HIDE DEF G, c
<1>5. PICK it : FoldsTo(it, D, V, base, c, G)
  BY <1>2, <1>3, <1>4, FoldExists
<1> USE DEF G, c
<1>6. it \in [SUBSET D -> V]
  BY <1>5 DEF FoldsTo
<1>7. ASSUME NEW s \in SUBSET D, s # {}
      PROVE  it[s] = F[<<it[s \ {Max(s)}], seq[Max(s)]>>]
  <2>1. Max(s) \in D /\ s \ {Max(s)} \in SUBSET D
    BY <1>1, <1>7, MaxOf
  <2>2. it[s] = G[<<Max(s), it[s \ {Max(s)}]>>]
    BY <1>5, <1>7 DEF FoldsTo
  <2> QED BY <1>6, <2>1, <2>2
<1>8. it[{}] = base
  BY <1>5 DEF FoldsTo
<1>9. it = [s \in SUBSET D |-> IF s = {} THEN base
                               ELSE F[<<it[s \ {Max(s)}], seq[Max(s)]>>]]
  BY <1>6, <1>7, <1>8
<1> QED BY <1>1, <1>6, <1>9 DEF LeftFold

\* A run through a sequence of n: what is there at first, and after each element.
IsRun(r, n, V, base) == r \in [0..n -> V] /\ r[0] = base

\* The values of such a function on the beginnings of the sequence are a run.
RunOf(it, n) == [k \in 0..n |-> it[1..k]]

\* One more element keeps it in V; what a run and such a function have in common.
StaysIn(it, n, V) == \A k \in 1..n : it[(1..k) \ {k}] \in V => it[1..k] \in V
FollowsRun(it, r, n) ==
  \A k \in 1..n : r[k - 1] = it[(1..k) \ {k}] /\ r[k] = it[1..k]

LEMMA RunOfFold ==
  ASSUME NEW n \in Nat, NEW V, NEW base \in V, NEW it, it[{}] = base, StaysIn(it, n, V)
  PROVE  /\ IsRun(RunOf(it, n), n, V, base)
         /\ FollowsRun(it, RunOf(it, n), n)
         /\ RunOf(it, n)[n] = it[1..n]
<1> DEFINE r == RunOf(it, n)
           T == {k \in 0..n : it[1..k] \in V}
<1>1. 1..0 = {} /\ \A k \in 1..n : (1..k) \ {k} = 1..(k - 1) /\ k - 1 \in 0..n
  OBVIOUS
<1>2. 0 \in T /\ \A k \in 1..n : k - 1 \in T => k \in T
  <2>1. ASSUME NEW k \in 1..n, k - 1 \in T PROVE k \in T
    <3>1. (1..k) \ {k} = 1..(k - 1)
      BY <1>1
    <3> QED BY <2>1, <3>1 DEF StaysIn
  <2> QED BY <1>1, <2>1
<1> HIDE DEF T
<1>3. \A k \in 0..n : k \in T
  BY <1>2, UpTo
<1>4. r \in [0..n -> V] /\ r[0] = base
  BY <1>1, <1>3 DEF T, RunOf
<1>5. \A k \in 1..n : r[k - 1] = it[(1..k) \ {k}] /\ r[k] = it[1..k]
  <2>1. ASSUME NEW k \in 1..n PROVE r[k - 1] = it[(1..k) \ {k}] /\ r[k] = it[1..k]
    <3>1. (1..k) \ {k} = 1..(k - 1)
      BY <1>1
    <3>2. k \in 0..n /\ k - 1 \in 0..n
      OBVIOUS
    <3> QED BY <3>1, <3>2 DEF RunOf
  <2> QED BY <2>1
<1>6. r[n] = it[1..n]
  BY DEF RunOf
<1> QED BY <1>4, <1>5, <1>6 DEF IsRun, FollowsRun
-----------------------------------------------------------------------------
\* The function that MapThenSumSet adds the values of f with.
IsSum(it, S, f) ==
  /\ it \in [SUBSET S -> Nat]
  /\ it = [s \in SUBSET S |-> IF s = {} THEN 0
                              ELSE f[CHOOSE x \in s : TRUE]
                                   + it[s \ {CHOOSE x \in s : TRUE}]]

LEMMA SumExists ==
  ASSUME NEW S, IsFiniteSet(S), NEW f \in [S -> Nat]
  PROVE  \E it : IsSum(it, S, f)
<1> DEFINE c == [s \in SUBSET S |-> CHOOSE x \in s : TRUE]
           F == [p \in S \X Nat |-> f[p[1]] + p[2]]
<1>1. Chooser(c, S)
  BY DEF Chooser
<1>2. F \in [S \X Nat -> Nat]
  OBVIOUS
<1> HIDE DEF c, F
<1>3. PICK it : FoldsTo(it, S, Nat, 0, c, F)
  BY <1>1, <1>2, FoldExists
<1>4. it \in [SUBSET S -> Nat]
  BY <1>3 DEF FoldsTo
<1>5. ASSUME NEW s \in SUBSET S, s # {}
      PROVE  it[s] = f[c[s]] + it[s \ {c[s]}]
  <2>1. c[s] \in S /\ it[s \ {c[s]}] \in Nat
    BY <1>1, <1>4, <1>5 DEF Chooser
  <2>2. it[s] = F[<<c[s], it[s \ {c[s]}]>>]
    BY <1>3, <1>5 DEF FoldsTo
  <2> QED BY <2>1, <2>2 DEF F
<1>6. it[{}] = 0
  BY <1>3 DEF FoldsTo
<1>7. it = [s \in SUBSET S |-> IF s = {} THEN 0 ELSE f[c[s]] + it[s \ {c[s]}]]
  BY <1>4, <1>5, <1>6
<1>8. \A s \in SUBSET S : c[s] = CHOOSE x \in s : TRUE
  BY DEF c
<1>9. it = [s \in SUBSET S |-> IF s = {} THEN 0
                               ELSE f[CHOOSE x \in s : TRUE]
                                    + it[s \ {CHOOSE x \in s : TRUE}]]
  BY <1>7, <1>8, Zenon
<1> QED BY <1>4, <1>9 DEF IsSum

\* A sum may be taken apart at any element.
LEMMA SumWithout ==
  ASSUME NEW S, IsFiniteSet(S), NEW f \in [S -> Nat], NEW it, IsSum(it, S, f),
         NEW s \in SUBSET S, NEW x \in s
  PROVE  it[s] = f[x] + it[s \ {x}]
<1> DEFINE T == {u \in SUBSET S : \A e \in u : it[u] = f[e] + it[u \ {e}]}
<1>1. ASSUME NEW u \in SUBSET S, \A y \in SUBSET u : y # u => y \in T
      PROVE  u \in T
  <2> SUFFICES ASSUME NEW e \in u PROVE it[u] = f[e] + it[u \ {e}]
    OBVIOUS
  <2> DEFINE d == CHOOSE z \in u : TRUE
  <2>1. d \in u /\ it[u] = f[d] + it[u \ {d}]
    BY DEF IsSum
  <2> HIDE DEF d
  <2>2. CASE d = e
    BY <2>1, <2>2
  <2>3. CASE d # e
    <3>1. u \ {d} \in T /\ u \ {e} \in T
      BY <1>1, <2>1
    <3>2. it[u \ {d}] = f[e] + it[(u \ {d}) \ {e}]
      BY <2>3, <3>1
    <3>3. it[u \ {e}] = f[d] + it[(u \ {e}) \ {d}]
      BY <2>1, <2>3, <3>1
    <3>4. (u \ {d}) \ {e} = (u \ {e}) \ {d}
      OBVIOUS
    <3>5. f[d] \in Nat /\ f[e] \in Nat /\ it[(u \ {e}) \ {d}] \in Nat
      BY <2>1 DEF IsSum
    <3> DEFINE w == it[(u \ {e}) \ {d}]
    <3>6. it[u \ {d}] = f[e] + w
      BY <3>2, <3>4
    <3> HIDE DEF w
    <3> QED BY <2>1, <3>3, <3>5, <3>6 DEF w
  <2> QED BY <2>2, <2>3
<1> HIDE DEF T
<1>2. s \in T
  BY <1>1, OverSubsets
<1> QED BY <1>2 DEF T

\* It is the same in a smaller set, and for a function that agrees there.
LEMMA SumsAgree ==
  ASSUME NEW S, IsFiniteSet(S), NEW f \in [S -> Nat], NEW it1, IsSum(it1, S, f),
         NEW S2 \in SUBSET S, NEW g \in [S2 -> Nat], NEW it2, IsSum(it2, S2, g),
         \A x \in S2 : f[x] = g[x]
  PROVE  it1[S2] = it2[S2]
<1> DEFINE T == {u \in SUBSET S2 : it1[u] = it2[u]}
<1>1. ASSUME NEW u \in SUBSET S2, \A y \in SUBSET u : y # u => y \in T
      PROVE  u \in T
  <2>1. CASE u = {}
    BY <2>1 DEF IsSum
  <2>2. CASE u # {}
    <3> DEFINE d == CHOOSE z \in u : TRUE
    <3>1. d \in u /\ it1[u] = f[d] + it1[u \ {d}] /\ it2[u] = g[d] + it2[u \ {d}]
      BY <2>2 DEF IsSum
    <3> HIDE DEF d
    <3>2. it1[u \ {d}] = it2[u \ {d}] /\ f[d] = g[d]
      BY <1>1, <3>1
    <3> QED BY <3>1, <3>2
  <2> QED BY <2>1, <2>2
<1> HIDE DEF T
<1>2. IsFiniteSet(S2)
  BY FS_Subset
<1>3. \A u \in SUBSET S2 : u \in T
  BY <1>1, <1>2, OverSubsets
<1> QED BY <1>3 DEF T
-----------------------------------------------------------------------------
\* Induction from b down to a.
LEMMA DownTo ==
  ASSUME NEW a \in Int, NEW b \in Int, NEW T,
         \A k \in a..b : (\A j \in (k + 1)..b : j \in T) => k \in T
  PROVE  \A k \in a..b : k \in T
<1> DEFINE Bad == {m \in Nat : \E k \in a..b : k \notin T /\ m = b - k}
<1>1. Bad \subseteq Nat
  OBVIOUS
<1>2. CASE Bad = {}
  <2>1. \A k \in a..b : b - k \in Nat
    OBVIOUS
  <2> QED BY <1>2, <2>1
<1>3. CASE Bad # {}
  <2> HIDE DEF Bad
  <2>1. PICK m \in Bad : \A x \in Bad : m <= x
    BY <1>1, <1>3, LeastNumber
  <2> USE DEF Bad
  <2>2. PICK k \in a..b : k \notin T /\ m = b - k
    BY <2>1
  <2>3. \A j \in (k + 1)..b : j \in T
    <3>1. ASSUME NEW j \in (k + 1)..b, j \notin T PROVE FALSE
      <4>1. b - j \in Bad
        BY <3>1
      <4> QED BY <2>1, <2>2, <4>1
    <3> QED BY <3>1
  <2> QED BY <2>2, <2>3
<1> QED BY <1>2, <1>3

\* What F makes of x and r depends on those of lower rank only.
DependsOnLower(F, rank, S, V) ==
  \A x \in S, g \in [S -> V], h \in [S -> V] :
    (\A y \in S : rank[y] < rank[x] => g[y] = h[y]) => F[<<x, g>>] = F[<<x, h>>]

\* The recursive function that F defines.
Recursive(r, F, S, V) == r \in [S -> V] /\ \A x \in S : r[x] = F[<<x, r>>]

\* A recursive function whose calls go down in rank exists.
LEMMA RecursionExists ==
  ASSUME NEW n \in Nat, NEW S, NEW rank \in [S -> 0..n], NEW V, NEW v \in V,
         NEW F \in [S \X [S -> V] -> V], DependsOnLower(F, rank, S, V)
  PROVE  \E r : Recursive(r, F, S, V)
<1> DEFINE Upto(m, r) == r \in [S -> V] /\ \A x \in S : rank[x] < m => r[x] = F[<<x, r>>]
           T == {m \in 0..(n + 1) : \E r : Upto(m, r)}
<1>1. 0 \in T
  <2>1. Upto(0, [x \in S |-> v])
    OBVIOUS
  <2>2. 0 \in 0..(n + 1)
    OBVIOUS
  <2> HIDE DEF Upto
  <2> QED BY <2>1, <2>2
<1>2. ASSUME NEW m \in 1..(n + 1), m - 1 \in T
      PROVE  m \in T
  <2>1. PICK r : Upto(m - 1, r)
    BY <1>2
  <2> DEFINE q == [x \in S |-> IF rank[x] < m - 1 THEN r[x] ELSE F[<<x, r>>]]
  <2>2. q \in [S -> V] /\ r \in [S -> V]
    BY <2>1
  <2>3. ASSUME NEW x \in S, rank[x] < m PROVE q[x] = F[<<x, q>>]
    <3>1. \A y \in S : rank[y] < rank[x] => q[y] = r[y]
      BY <2>3
    <3> HIDE DEF q
    <3>2. F[<<x, q>>] = F[<<x, r>>]
      BY <2>2, <3>1 DEF DependsOnLower
    <3> USE DEF q
    <3>3. q[x] = F[<<x, r>>]
      BY <2>1
    <3> QED BY <3>2, <3>3
  <2> HIDE DEF q
  <2>4. Upto(m, q)
    BY <2>2, <2>3
  <2> QED BY <2>4
<1>3. n + 1 \in Nat
  OBVIOUS
<1> HIDE DEF T
<1>4. n + 1 \in T
  <2>1. \A m \in 0..(n + 1) : m \in T
    BY <1>1, <1>2, <1>3, UpTo
  <2> QED BY <2>1
<1>5. PICK r : Upto(n + 1, r)
  BY <1>4 DEF T
<1>6. \A x \in S : rank[x] < n + 1
  OBVIOUS
<1> QED BY <1>5, <1>6 DEF Recursive
-----------------------------------------------------------------------------
\* A function on 1..n is a sequence.
LEMMA IsSequence ==
  ASSUME NEW n \in Nat, NEW V, NEW q \in [1..n -> V]
  PROVE  q \in Seq(V) /\ Len(q) = n
OBVIOUS

\* What FlattenSeq computes with: f[k] is what the first k sequences come to.
Flattens(f, seqs, E) ==
  /\ f \in [0..Len(seqs) -> Seq(E)] /\ f[0] = <<>>
  /\ \A k \in 1..Len(seqs) : f[k] = f[k - 1] \o seqs[k]

LEMMA FlattenRun ==
  ASSUME NEW E, NEW seqs \in Seq(Seq(E))
  PROVE  \E f : Flattens(f, seqs, E) /\ FlattenSeq(seqs) = f[Len(seqs)]
<1> DEFINE n == Len(seqs)
           S == 1..n
           V == Seq(E)
           Step(r, i) == IF i = 1 THEN seqs[i] ELSE r[i - 1] \o seqs[i]
           f == CHOOSE r : r = [i \in S |-> Step(r, i)]
           g == [i \in 0..n |-> IF i = 0 THEN <<>> ELSE f[i]]
<1>1. n \in Nat /\ \A i \in S : seqs[i] \in V
  BY LenProperties, ElementOfSeq
<1>2. \E r \in [S -> V] : r = [i \in S |-> Step(r, i)]
  <2> DEFINE rank == [i \in S |-> i]
             F == [p \in S \X [S -> V] |-> Step(p[2], p[1])]
             v == <<>>
  <2> HIDE DEF V, n
  <2>1. rank \in [S -> 0..n]
    BY <1>1
  <2>2. ASSUME NEW i \in S, NEW r \in [S -> V] PROVE Step(r, i) \in V
    <3>1. CASE i = 1
      BY <1>1, <3>1
    <3>2. CASE i # 1
      <4>1. r[i - 1] \in V /\ seqs[i] \in V
        BY <1>1, <3>2
      <4> QED BY <3>2, <4>1, ConcatProperties DEF V
    <3> QED BY <3>1, <3>2
  <2>3. F \in [S \X [S -> V] -> V]
    <3> HIDE DEF Step
    <3> QED BY <2>2
  <2>4. DependsOnLower(F, rank, S, V)
    BY <1>1 DEF DependsOnLower
  <2>5. v \in V
    BY EmptySeq DEF V
  <2> HIDE DEF F, rank, v, Step
  <2>6. PICK r : Recursive(r, F, S, V)
    <3> HIDE DEF S
    <3>1. n \in Nat
      BY <1>1
    <3> QED BY <3>1, <2>1, <2>3, <2>4, <2>5, RecursionExists
  <2>7. \A i \in S : F[<<i, r>>] = Step(r, i)
    BY <2>6 DEF F, Recursive
  <2>8. r = [i \in S |-> Step(r, i)]
    BY <2>6, <2>7 DEF Recursive
  <2> QED BY <2>6, <2>8 DEF Recursive
<1>3. f = [i \in S |-> Step(f, i)]
  BY <1>2
<1>4. \A i \in S : f[i] = IF i = 1 THEN seqs[i] ELSE f[i - 1] \o seqs[i]
  <2> HIDE DEF f
  <2> QED BY <1>3
<1> HIDE DEF f
<1> DEFINE T == {k \in 0..n : k # 0 => f[k] \in V}
<1>5. 0 \in T
  BY <1>1
<1>6. ASSUME NEW k \in 1..n, k - 1 \in T PROVE k \in T
  <2>1. CASE k = 1
    BY <1>1, <1>4, <2>1
  <2>2. CASE k # 1
    <3>1. f[k - 1] \in V /\ seqs[k] \in V
      BY <1>1, <1>6, <2>2
    <3>2. f[k - 1] \o seqs[k] \in V
      BY <3>1, ConcatProperties
    <3>3. f[k] \in V
      BY <1>4, <2>2, <3>2
    <3> HIDE DEF V, n
    <3> QED BY <3>3
  <2> QED BY <2>1, <2>2
<1>7. \A k \in 0..n : k \in T
  <2> HIDE DEF T, n
  <2> QED BY <1>1, <1>5, <1>6, UpTo
<1>8. g \in [0..n -> V] /\ g[0] = <<>>
  BY <1>1, <1>7, EmptySeq
<1>9. ASSUME NEW k \in 1..n PROVE g[k] = g[k - 1] \o seqs[k]
  <2>1. CASE k = 1
    <3>1. g[k] = seqs[k] /\ g[k - 1] = <<>>
      BY <1>1, <1>4, <2>1
    <3>2. <<>> \o seqs[k] = seqs[k]
      BY <1>1, ConcatEmptySeq
    <3> QED BY <3>1, <3>2
  <2>2. CASE k # 1
    <3>1. k \in S /\ k - 1 \in 0..n /\ k \in 0..n /\ k - 1 # 0 /\ k # 0
      BY <1>1, <2>2
    <3>2. g[k] = f[k] /\ g[k - 1] = f[k - 1]
      BY <3>1
    <3>3. f[k] = f[k - 1] \o seqs[k]
      BY <1>4, <2>2, <3>1
    <3> QED BY <3>2, <3>3
  <2> QED BY <2>1, <2>2
<1>10. FlattenSeq(seqs) = g[n]
  <2>1. CASE n = 0
    <3>1. seqs = <<>>
      BY <2>1, EmptySeq
    <3> QED BY <2>1, <3>1 DEF FlattenSeq
  <2>2. CASE n # 0
    BY <1>1, <2>2 DEF FlattenSeq, f
  <2> QED BY <2>1, <2>2
<1>11. Flattens(g, seqs, E)
  <2> HIDE DEF g
  <2> QED BY <1>8, <1>9 DEF Flattens
<1> QED BY <1>10, <1>11

\* FlattenSeq keeps to the set that the sequences are over.
LEMMA FlattenType ==
  ASSUME NEW E, NEW seqs \in Seq(Seq(E))
  PROVE  FlattenSeq(seqs) \in Seq(E)
<1>1. PICK f : Flattens(f, seqs, E) /\ FlattenSeq(seqs) = f[Len(seqs)]
  BY FlattenRun
<1>2. Len(seqs) \in Nat
  BY LenProperties
<1> QED BY <1>1, <1>2 DEF Flattens

\* c is a followed by b.
Joins(c, a, b, E) ==
  /\ a \in Seq(E) /\ b \in Seq(E) /\ c \in Seq(E)
  /\ Len(a) \in Nat /\ Len(b) \in Nat /\ Len(c) = Len(a) + Len(b)
  /\ \A i \in 1..Len(a) : c[i] = a[i]
  /\ \A j \in 1..Len(b) : c[Len(a) + j] = b[j]

LEMMA ConcatJoins ==
  ASSUME NEW E, NEW a \in Seq(E), NEW b \in Seq(E)
  PROVE  Joins(a \o b, a, b, E)
<1>1. PICK c : c = a \o b
  OBVIOUS
<1>2. /\ c \in Seq(E) /\ Len(c) = Len(a) + Len(b) /\ Len(a) \in Nat /\ Len(b) \in Nat
      /\ \A i \in 1..(Len(a) + Len(b)) : c[i] = IF i <= Len(a) THEN a[i] ELSE b[i - Len(a)]
  BY <1>1, ConcatProperties, LenProperties
<1>3. \A i \in 1..Len(a) : c[i] = a[i]
  <2> TAKE i \in 1..Len(a)
  <2>1. i \in 1..(Len(a) + Len(b)) /\ i <= Len(a)
    BY <1>2
  <2> QED BY <1>2, <2>1
<1>4. \A j \in 1..Len(b) : c[Len(a) + j] = b[j]
  <2> TAKE j \in 1..Len(b)
  <2>1. /\ Len(a) + j \in 1..(Len(a) + Len(b)) /\ ~(Len(a) + j <= Len(a))
        /\ (Len(a) + j) - Len(a) = j
    BY <1>2
  <2> QED BY <1>2, <2>1
<1> QED BY <1>1, <1>2, <1>3, <1>4 DEF Joins

\* The k-th of the sequences comes behind the first k - 1.
LEMMA FlattenStep ==
  ASSUME NEW E, NEW seqs \in Seq(Seq(E)), NEW f, Flattens(f, seqs, E),
         NEW k \in 1..Len(seqs)
  PROVE  Joins(f[k], f[k - 1], seqs[k], E)
<1>1. Len(seqs) \in Nat
  BY LenProperties
<1>2. f[k - 1] \in Seq(E) /\ f[k] = f[k - 1] \o seqs[k]
  <2>1. k - 1 \in 0..Len(seqs)
    BY <1>1
  <2>2. f \in [0..Len(seqs) -> Seq(E)] /\ f[k] = f[k - 1] \o seqs[k]
    BY Zenon DEF Flattens
  <2> QED BY <2>1, <2>2
<1>3. seqs[k] \in Seq(E)
  BY ElementOfSeq
<1> QED BY <1>2, <1>3, ConcatJoins

\* What the first k come to is a prefix of the whole.
LEMMA FlattenPrefix ==
  ASSUME NEW E, NEW seqs \in Seq(Seq(E)), NEW f, Flattens(f, seqs, E),
         NEW k \in 0..Len(seqs)
  PROVE  LET all == f[Len(seqs)] IN
         /\ f[k] \in Seq(E) /\ Len(f[k]) \in Nat /\ Len(f[k]) <= Len(all)
         /\ \A i \in 1..Len(f[k]) : all[i] = f[k][i]
<1>0. \A m \in 1..Len(seqs) : Joins(f[m], f[m - 1], seqs[m], E)
  BY FlattenStep
<1> DEFINE n == Len(seqs)
           all == f[n]
           Prefix(j) == /\ f[j] \in Seq(E) /\ Len(f[j]) \in Nat /\ Len(f[j]) <= Len(all)
                        /\ \A i \in 1..Len(f[j]) : all[i] = f[j][i]
           T == {j \in 0..n : Prefix(j)}
<1>1. n \in Nat /\ \A j \in 0..n : f[j] \in Seq(E) /\ Len(f[j]) \in Nat
  <2>1. n \in Nat /\ \A j \in 0..n : f[j] \in Seq(E)
    BY LenProperties DEF Flattens
  <2> QED BY <2>1, LenProperties
<1>2. ASSUME NEW j \in 0..n, \A m \in (j + 1)..n : m \in T PROVE j \in T
  <2>1. CASE j = n
    BY <1>1, <2>1
  <2>2. CASE j # n
    <3>1. j + 1 \in 1..n /\ j + 1 \in (j + 1)..n /\ (j + 1) - 1 = j
      BY <1>1, <2>2
    <3>2. Prefix(j + 1)
      BY <1>2, <3>1
    <3>3. PICK m \in 1..n : m = j + 1 /\ m - 1 = j
      BY <3>1
    <3>4. /\ Len(f[m]) = Len(f[j]) + Len(seqs[m]) /\ Len(seqs[m]) \in Nat
          /\ \A i \in 1..Len(f[j]) : f[m][i] = f[j][i]
      <4>1. Joins(f[m], f[j], seqs[m], E)
        BY <1>0, <3>3
      <4> QED BY <4>1 DEF Joins
    <3>5. f[j] \in Seq(E) /\ Len(f[j]) \in Nat
      BY <1>1
    <3>6. Prefix(m)
      BY <3>2, <3>3
    <3> DEFINE a == Len(f[j])
               b == Len(f[m])
               c == Len(all)
               d == Len(seqs[m])
    <3>7. a \in Nat /\ d \in Nat /\ b = a + d /\ b <= c /\ c \in Nat
      <4>1. c \in Nat
        BY <1>1
      <4> QED BY <3>4, <3>5, <3>6, <4>1
    <3>8. \A i \in 1..a : f[m][i] = f[j][i]
      BY <3>4
    <3>10. \A i \in 1..b : all[i] = f[m][i]
      BY <3>6
    <3> HIDE DEF a, b, c, d, all
    <3>9. a <= c /\ \A i \in 1..a : i \in 1..b
      BY <3>7
    <3>11. \A i \in 1..a : all[i] = f[j][i]
      BY <3>8, <3>9, <3>10
    <3> USE DEF a, b, c, d, all
    <3> QED BY <3>5, <3>9, <3>11
  <2> QED BY <2>1, <2>2
<1>3. 0 \in Int /\ n \in Int
  BY <1>1
<1> HIDE DEF T, n
<1>4. \A j \in 0..n : j \in T
  BY <1>2, <1>3, DownTo
<1> USE DEF n
<1>5. k \in T
  BY <1>4
<1> QED BY <1>5 DEF T
=============================================================================
