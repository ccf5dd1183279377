-------------------------- MODULE JsonForestProofs --------------------------
(***************************************************************************)
(* The lists of JsonTree implement the sequences of JsonForest, for any    *)
(* number of items: what get_array_item walks over is a sequence, what is  *)
(* found by number or by name is at its place there, and each call is the  *)
(* step that has its name, arguments and answer.                           *)
(***************************************************************************)
EXTENDS JsonTreeProofs, FoldProofs

-----------------------------------------------------------------------------
(* The list of an item as a sequence. *)

\* s is the list that begins with head, or the first of it.
Walk(n, head, s) ==
  /\ s \in Seq(Items) /\ Len(s) >= 1 /\ s[1] = head
  /\ \A i \in 1..(Len(s) - 1) : n[s[i]] = s[i + 1]

\* s is all of it.
After(s, i) == IF i < Len(s) THEN s[i + 1] ELSE NULL
Listing(n, head, s) ==
  /\ s \in Seq(Items) /\ head = After(s, 0)
  /\ \A i \in 1..Len(s) : n[s[i]] = After(s, i)

Run(s) == {s[i] : i \in 1..Len(s)}
From(s, i) == {s[j] : j \in i..Len(s)}

LEMMA ListingWalk ==
  ASSUME NEW n, NEW head, NEW s, Listing(n, head, s)
  PROVE  /\ head = NULL => s = <<>>
         /\ head # NULL => Walk(n, head, s) /\ n[s[Len(s)]] = NULL
<1>1. Len(s) \in Nat /\ s \in [1..Len(s) -> Items] /\ NULL \notin Items /\ s \in Seq(Items)
  BY TreeAssumption, LenProperties DEF Listing
<1>2. CASE Len(s) = 0
  <2>1. head = NULL /\ s = <<>>
    BY <1>1, <1>2, EmptySeq DEF Listing, After
  <2> QED BY <2>1
<1>3. CASE Len(s) # 0
  <2>1. 1 \in 1..Len(s) /\ Len(s) \in 1..Len(s) /\ 0 < Len(s) /\ ~(Len(s) < Len(s))
        /\ Len(s) >= 1
    BY <1>1, <1>3
  <2>2. head = s[1] /\ head # NULL /\ n[s[Len(s)]] = NULL
    BY <1>1, <2>1 DEF Listing, After
  <2>3. \A i \in 1..(Len(s) - 1) : i \in 1..Len(s) /\ i < Len(s)
    BY <1>1
  <2>4. \A i \in 1..(Len(s) - 1) : n[s[i]] = s[i + 1]
    BY <2>3 DEF Listing, After
  <2> QED BY <1>1, <2>1, <2>2, <2>4 DEF Walk
<1> QED BY <1>2, <1>3

LEMMA WalkListing ==
  ASSUME NEW n, NEW head, NEW s, Walk(n, head, s), n[s[Len(s)]] = NULL
  PROVE  Listing(n, head, s)
<1>1. Len(s) \in Nat /\ s \in Seq(Items) /\ 0 < Len(s)
  BY LenProperties DEF Walk
<1>2. head = After(s, 0)
  BY <1>1 DEF Walk, After
<1>3. \A i \in 1..Len(s) : n[s[i]] = After(s, i)
  <2> TAKE i \in 1..Len(s)
  <2>1. CASE i = Len(s)
    <3>1. ~(i < Len(s))
      BY <1>1, <2>1
    <3> QED BY <2>1, <3>1 DEF After
  <2>2. CASE i # Len(s)
    <3>1. i \in 1..(Len(s) - 1) /\ i < Len(s)
      BY <1>1, <2>2
    <3> QED BY <3>1 DEF Walk, After
  <2> QED BY <2>1, <2>2
<1> QED BY <1>1, <1>2, <1>3 DEF Listing

LEMMA NoListing == ASSUME NEW n PROVE Listing(n, NULL, <<>>)
  BY DEF Listing, After

LEMMA WalkInList ==
  ASSUME NEW h, Good(h), NEW a \in h.live, NEW s, Walk(h.next, h.child[a], s)
  PROVE  \A i \in 1..Len(s) : s[i] \in h.live /\ h.parent[s[i]] = a
<1> DEFINE T == {i \in Nat : i \in 1..Len(s) => s[i] \in h.live /\ h.parent[s[i]] = a}
<1>1. Len(s) \in Nat /\ s \in [1..Len(s) -> Items] /\ NULL \notin Items
  BY HeapFields, LenProperties DEF Walk, Good
<1>2. Links(h.live, h.next, h.prev, h.child, h.parent)
  BY DEF Good, ListsOf, Lists
<1>3. ASSUME NEW k \in 1..Len(s), k - 1 \in T PROVE k \in T
  <2>1. CASE k = 1
    <3>1. s[1] = h.child[a] /\ s[1] # NULL
      BY <1>1 DEF Walk
    <3> QED BY <1>2, <2>1, <3>1 DEF Links
  <2>2. CASE k # 1
    <3>1. k - 1 \in 1..Len(s) /\ k - 1 \in 1..(Len(s) - 1) /\ (k - 1) + 1 = k
      BY <1>1, <2>2
    <3>2. s[k - 1] \in h.live /\ h.parent[s[k - 1]] = a
      BY <1>3, <3>1
    <3>3. h.next[s[k - 1]] = s[k] /\ s[k] # NULL
      BY <1>1, <3>1 DEF Walk
    <3> QED BY <1>2, <3>2, <3>3 DEF Links
  <2> QED BY <2>1, <2>2
<1>4. 0 \in T
  OBVIOUS
<1> HIDE DEF T
<1>5. \A k \in 0..Len(s) : k \in T
  BY <1>1, <1>3, <1>4, UpTo
<1> QED BY <1>1, <1>5 DEF T

\* A walk along a list comes to no item twice.
LEMMA WalkInjective ==
  ASSUME NEW h, Good(h), NEW a \in h.live, NEW s, Walk(h.next, h.child[a], s)
  PROVE  \A i, j \in 1..Len(s) : s[i] = s[j] => i = j
<1> DEFINE T == {i \in Nat : \A j \in 1..Len(s) : 1 <= i /\ i < j => s[i] # s[j]}
<1>1. Len(s) \in Nat /\ s \in [1..Len(s) -> Items] /\ NULL \notin Items
  BY HeapFields, LenProperties DEF Walk, Good
<1>2. Links(h.live, h.next, h.prev, h.child, h.parent)
  BY DEF Good, ListsOf, Lists
<1>3. \A i \in 1..Len(s) : s[i] \in h.live /\ h.parent[s[i]] = a
  BY WalkInList
<1>4. \A i \in 1..(Len(s) - 1) : h.next[s[i]] = s[i + 1] /\ h.prev[s[i + 1]] = s[i]
                                 /\ s[i + 1] # h.child[a]
  <2> TAKE i \in 1..(Len(s) - 1)
  <2>1. i \in 1..Len(s) /\ i + 1 \in 1..Len(s)
    BY <1>1
  <2>2. h.next[s[i]] = s[i + 1] /\ s[i + 1] # NULL
    BY <1>1, <2>1 DEF Walk
  <2> QED BY <1>2, <1>3, <2>1, <2>2 DEF Links
<1>5. ASSUME NEW k \in 1..Len(s), k - 1 \in T PROVE k \in T
  <2>1. SUFFICES ASSUME NEW j \in 1..Len(s), k < j, s[k] = s[j] PROVE FALSE
    BY <1>1
  <2>2. j - 1 \in 1..(Len(s) - 1) /\ (j - 1) + 1 = j
    BY <1>1, <2>1
  <2>3. s[j] # h.child[a] /\ h.prev[s[j]] = s[j - 1]
    BY <1>4, <2>2
  <2>4. k # 1
    BY <2>1, <2>3 DEF Walk
  <2>5. k - 1 \in 1..(Len(s) - 1) /\ (k - 1) + 1 = k /\ 1 <= k - 1 /\ k - 1 < j - 1
        /\ j - 1 \in 1..Len(s)
    BY <1>1, <2>1, <2>4
  <2>6. h.prev[s[k]] = s[k - 1]
    BY <1>4, <2>5
  <2>7. s[k - 1] = s[j - 1]
    BY <2>1, <2>3, <2>6
  <2> QED BY <1>5, <2>5, <2>7
<1>6. 0 \in T
  OBVIOUS
<1> HIDE DEF T
<1>7. \A k \in 0..Len(s) : k \in T
  BY <1>1, <1>5, <1>6, UpTo
<1>8. \A i, j \in 1..Len(s) : i < j => s[i] # s[j]
  BY <1>1, <1>7 DEF T
<1>9. \A i, j \in 1..Len(s) : i = j \/ i < j \/ j < i
  BY <1>1
<1> QED BY <1>8, <1>9

LEMMA ListingRun ==
  ASSUME NEW h, Good(h), NEW a \in h.live, NEW s, Listing(h.next, h.child[a], s)
  PROVE  /\ s \in Seq(h.live) /\ Run(s) = InList(h, a)
         /\ \A y : y \in Run(s) <=> y \in h.live /\ h.parent[y] = a
         /\ \A i, j \in 1..Len(s) : s[i] = s[j] => i = j
<1>1. NULL \notin h.live /\ a # NULL
  BY HeapFields DEF Good
<1>2. Links(h.live, h.next, h.prev, h.child, h.parent)
  BY DEF Good, ListsOf, Lists
<1>3. CASE h.child[a] = NULL
  <2>1. s = <<>> /\ Run(s) = {}
    BY <1>3, ListingWalk DEF Run
  <2>2. \A y \in h.live : h.parent[y] # a
    BY <1>1, <1>2, <1>3 DEF Links
  <2>3. \A y : y \notin InList(h, a)
    BY <2>2, InListIsParent
  <2>4. s \in Seq(h.live) /\ Len(s) = 0
    BY <2>1
  <2>5. \A y : y \in Run(s) <=> y \in h.live /\ h.parent[y] = a
    BY <2>1, <2>2
  <2>6. Run(s) = InList(h, a)
    BY <2>1, <2>3
  <2>7. \A i, j \in 1..Len(s) : s[i] = s[j] => i = j
    BY <2>4
  <2> QED BY <2>4, <2>5, <2>6, <2>7
<1>4. CASE h.child[a] # NULL
  <2>1. Walk(h.next, h.child[a], s) /\ h.next[s[Len(s)]] = NULL
    BY <1>4, ListingWalk
  <2>2. /\ \A i \in 1..Len(s) : s[i] \in h.live /\ h.parent[s[i]] = a
        /\ \A i, j \in 1..Len(s) : s[i] = s[j] => i = j
    BY <2>1, WalkInList, WalkInjective
  <2>3. Len(s) \in Nat /\ Len(s) >= 1 /\ s \in [1..Len(s) -> Items]
    BY <2>1, LenProperties DEF Walk
  <2>4. s \in Seq(h.live)
    <3>1. s \in [1..Len(s) -> h.live]
      BY <2>2, <2>3
    <3> QED BY <2>3, <3>1, SeqDef
  <2>5. ASSUME NEW y \in h.live, h.parent[y] = a PROVE y \in Run(s)
    <3>1. Run(s) \in SUBSET h.live
      BY <2>2 DEF Run
    <3>2. h.child[a] \in Run(s)
      BY <2>1, <2>3 DEF Run, Walk
    <3>3. ASSUME NEW z \in Run(s) PROVE h.next[z] \in Run(s) \cup {NULL}
      <4>1. PICK i \in 1..Len(s) : z = s[i]
        BY DEF Run
      <4>2. CASE i = Len(s)
        BY <2>1, <4>1, <4>2
      <4>3. CASE i # Len(s)
        <5>1. i \in 1..(Len(s) - 1) /\ i + 1 \in 1..Len(s)
          BY <2>3, <4>3
        <5> QED BY <2>1, <4>1, <5>1 DEF Walk, Run
      <4> QED BY <4>2, <4>3
    <3> QED BY <2>5, <3>1, <3>2, <3>3 DEF Good, ListsOf, Lists, Found, Closed
  <2>6. \A y : y \in Run(s) <=> y \in h.live /\ h.parent[y] = a
    BY <2>2, <2>5 DEF Run
  <2>7. Run(s) = InList(h, a)
    BY <2>6, InListIsParent
  <2> QED BY <2>2, <2>4, <2>6, <2>7
<1> QED BY <1>3, <1>4

\* Every list is the list of some sequence: the longest walk along it.
LEMMA ListingExists ==
  ASSUME NEW h, Good(h), NEW a \in h.live
  PROVE  \E s : Listing(h.next, h.child[a], s)
<1>1. CASE h.child[a] = NULL
  BY <1>1, NoListing
<1>2. CASE h.child[a] # NULL
  <2> DEFINE head == h.child[a]
             N == Cardinality(Items)
             Lengths == {m \in 1..N : \E s : Walk(h.next, head, s) /\ Len(s) = m}
  <2>1. Links(h.live, h.next, h.prev, h.child, h.parent)
    BY DEF Good, ListsOf, Lists
  <2>2. head \in h.live /\ h.live \in SUBSET Items /\ h.next \in [Items -> Items \cup {NULL}]
    BY <1>2, <2>1, HeapFields DEF Good, Links
  <2>3. N \in Nat
    BY TreeAssumption, FS_CardinalityType
  <2>4. ASSUME NEW s, Walk(h.next, head, s) PROVE Len(s) \in Lengths
    <3>1. \A i, j \in 1..Len(s) : s[i] = s[j] => i = j
      BY <2>4, WalkInjective
    <3>2. Len(s) \in Nat /\ Len(s) >= 1 /\ s \in [1..Len(s) -> Items]
      BY <2>4, LenProperties DEF Walk
    <3>3. s \in Injection(1..Len(s), Items)
      BY <3>1, <3>2 DEF Injection, IsInjective
    <3>4. Cardinality(1..Len(s)) <= N
      BY <3>3, TreeAssumption, FS_Injection
    <3>5. Cardinality(1..Len(s)) = Len(s)
      BY <3>2, FS_Interval
    <3> QED BY <2>3, <2>4, <3>2, <3>4, <3>5
  <2>5. Lengths # {}
    <3>1. Walk(h.next, head, <<head>>)
      BY <2>2 DEF Walk
    <3> HIDE DEF Lengths
    <3> QED BY <2>4, <3>1
  <2> DEFINE m == Max(Lengths)
  <2>6. m \in Lengths /\ \A k \in Lengths : k <= m
    <3>1. Lengths \in SUBSET (1..N)
      OBVIOUS
    <3> HIDE DEF Lengths, N
    <3> QED BY <2>3, <2>5, <3>1, MaxOf
  <2>7. PICK s : Walk(h.next, head, s) /\ Len(s) = m
    BY <2>6
  <2> HIDE DEF m
  <2>8. Len(s) \in Nat /\ Len(s) >= 1 /\ s \in Seq(Items)
    BY <2>7, LenProperties DEF Walk
  <2>9. h.next[s[Len(s)]] = NULL
    <3>1. SUFFICES ASSUME h.next[s[Len(s)]] # NULL PROVE FALSE
      OBVIOUS
    <3> DEFINE x == h.next[s[Len(s)]]
               t == Append(s, x)
    <3>2. s[Len(s)] \in h.live
      BY <2>7, <2>8, WalkInList
    <3>3. x \in Items
      BY <2>2, <3>1, <3>2
    <3>4. /\ t \in Seq(Items) /\ Len(t) = Len(s) + 1 /\ t[Len(s) + 1] = x
          /\ \A i \in 1..Len(s) : t[i] = s[i]
      BY <2>8, <3>3, AppendProperties
    <3>5. \A i \in 1..(Len(t) - 1) : h.next[t[i]] = t[i + 1]
      <4> TAKE i \in 1..(Len(t) - 1)
      <4>1. i \in 1..Len(s) /\ (i = Len(s) \/ (i \in 1..(Len(s) - 1) /\ i + 1 \in 1..Len(s)))
        BY <2>8, <3>4
      <4>2. CASE i = Len(s)
        BY <2>8, <3>4, <4>1, <4>2
      <4>3. CASE i \in 1..(Len(s) - 1) /\ i + 1 \in 1..Len(s)
        <5>1. h.next[s[i]] = s[i + 1]
          BY <2>7, <4>3 DEF Walk
        <5>2. t[i] = s[i] /\ t[i + 1] = s[i + 1]
          BY <3>4, <4>1, <4>3
        <5> QED BY <5>1, <5>2
      <4> QED BY <4>1, <4>2, <4>3
    <3> HIDE DEF t, x
    <3>6. Walk(h.next, head, t)
      BY <2>7, <2>8, <3>4, <3>5 DEF Walk
    <3>7. Len(t) \in Lengths
      BY <2>4, <3>6
    <3> HIDE DEF Lengths
    <3> QED BY <2>6, <2>7, <2>8, <3>4, <3>7
  <2> QED BY <2>7, <2>9, WalkListing
<1> QED BY <1>1, <1>2

\* From its i-th item on a list is what comes after i in the sequence.
LEMMA ChainOfListing ==
  ASSUME NEW h, Good(h), NEW a \in h.live, NEW s, Listing(h.next, h.child[a], s),
         NEW i \in 1..Len(s)
  PROVE  Chain(h, s[i]) = From(s, i)
<1> DEFINE R == From(s, i)
<1>1. s \in Seq(h.live)
  BY ListingRun
<1>2. Len(s) \in Nat /\ s \in [1..Len(s) -> h.live] /\ \A j \in i..Len(s) : j \in 1..Len(s)
  BY <1>1, LenProperties
<1>3. Walk(h.next, h.child[a], s) /\ h.next[s[Len(s)]] = NULL
  <2>1. s # <<>>
    BY <1>2
  <2> QED BY <2>1, ListingWalk
<1>4. R \in SUBSET h.live /\ s[i] \in R /\ s[i] \in h.live
  BY <1>2 DEF From
<1>5. \A z \in R : h.next[z] \in R \cup {NULL}
  <2> TAKE z \in R
  <2>1. PICK j \in i..Len(s) : z = s[j]
    BY DEF From
  <2>2. CASE j = Len(s)
    BY <1>3, <2>1, <2>2
  <2>3. CASE j # Len(s)
    <3>0. Len(s) \in Nat
      BY <1>2
    <3>1. j \in 1..(Len(s) - 1) /\ j + 1 \in i..Len(s)
      BY <2>3, <3>0
    <3>2. h.next[s[j]] = s[j + 1]
      BY <1>3, <3>1 DEF Walk
    <3> QED BY <2>1, <3>1, <3>2 DEF From
  <2> QED BY <2>2, <2>3
<1>6. Chain(h, s[i]) \subseteq R
  <2> HIDE DEF R
  <2> QED BY <1>4, <1>5 DEF Chain
<1>7. ASSUME NEW S \in SUBSET h.live, s[i] \in S,
             \A z \in S : h.next[z] \in S \cup {NULL}, NEW j \in i..Len(s)
      PROVE  s[j] \in S
  <2> DEFINE T == {k \in Nat : i + k <= Len(s) => s[i + k] \in S}
  <2>1. 0 \in T
    BY <1>7
  <2>2. ASSUME NEW k \in 1..(Len(s) - i), k - 1 \in T PROVE k \in T
    <3>1. i + (k - 1) \in 1..(Len(s) - 1) /\ (i + (k - 1)) + 1 = i + k /\ i + k \in 1..Len(s)
          /\ i + (k - 1) <= Len(s)
      BY <1>2
    <3>2. s[i + (k - 1)] \in S
      BY <2>2, <3>1
    <3>3. h.next[s[i + (k - 1)]] = s[i + k]
      BY <1>3, <3>1 DEF Walk
    <3>4. s[i + k] # NULL
      <4>1. NULL \notin h.live
        BY HeapFields DEF Good
      <4> QED BY <1>2, <3>1, <4>1
    <3> QED BY <1>7, <3>2, <3>3, <3>4
  <2> HIDE DEF T
  <2>3. Len(s) - i \in Nat
    BY <1>2
  <2>4. \A k \in 0..(Len(s) - i) : k \in T
    BY <2>1, <2>2, <2>3, UpTo
  <2>5. j - i \in 0..(Len(s) - i) /\ i + (j - i) = j /\ j <= Len(s)
    BY <1>2
  <2> QED BY <2>4, <2>5 DEF T
<1>8. R \subseteq Chain(h, s[i])
  BY <1>2, <1>4, <1>7 DEF Chain, From
<1> QED BY <1>6, <1>8

\* What get_array_item gives, and cJSON_GetArraySize, are the sequence.
LEMMA ElementsAre ==
  ASSUME NEW h, Good(h), NEW a \in h.live, NEW s, Listing(h.next, h.child[a], s)
  PROVE  /\ Elements(h, a) = s /\ GetArraySize(h, a) = Len(s)
         /\ \A i \in 1..Len(s) : Cardinality(Chain(h, s[i])) = Len(s) - i + 1
<1>1. /\ s \in Seq(h.live) /\ Run(s) = InList(h, a)
      /\ \A i, j \in 1..Len(s) : s[i] = s[j] => i = j
  BY ListingRun
<1>2. Len(s) \in Nat /\ s \in [1..Len(s) -> h.live]
  BY <1>1, LenProperties
<1>3. ASSUME NEW i \in 1..Len(s) PROVE Cardinality(Chain(h, s[i])) = Len(s) - i + 1
  <2> DEFINE f == [j \in i..Len(s) |-> s[j]]
             R == From(s, i)
  <2>1. f \in Bijection(i..Len(s), R)
    BY <1>1, <1>2 DEF From, Bijection, Injection, Surjection, IsInjective
  <2>2. IsFiniteSet(i..Len(s)) /\ Cardinality(i..Len(s)) = Len(s) - i + 1
    BY <1>2, FS_Interval
  <2> HIDE DEF f, R
  <2>3. ExistsBijection(i..Len(s), R)
    BY <2>1 DEF ExistsBijection
  <2>4. Cardinality(R) = Len(s) - i + 1
    BY <2>2, <2>3, FS_Bijection
  <2>5. Chain(h, s[i]) = R
    BY ChainOfListing DEF R
  <2> QED BY <2>4, <2>5
<1>4. GetArraySize(h, a) = Len(s)
  <2>1. CASE Len(s) = 0
    <3>1. Run(s) = {}
      BY <2>1 DEF Run
    <3> QED BY <1>1, <2>1, <3>1, FS_EmptySet DEF GetArraySize
  <2>2. CASE Len(s) # 0
    <3>1. 1 \in 1..Len(s) /\ s # <<>>
      BY <1>2, <2>2
    <3>2. s[1] = h.child[a]
      BY <3>1, ListingWalk DEF Walk
    <3>3. Cardinality(Chain(h, s[1])) = Len(s) - 1 + 1
      BY <1>3, <3>1
    <3> QED BY <1>2, <3>2, <3>3 DEF GetArraySize, InList
  <2> QED BY <2>1, <2>2
<1>5. ASSUME NEW n \in 1..Len(s) PROVE GetArrayItem(h, a, n - 1) = s[n]
  <2> DEFINE Y == {y \in InList(h, a) :
                     Cardinality(Chain(h, y)) = GetArraySize(h, a) - (n - 1)}
  <2>1. \A i \in 1..Len(s) : Len(s) - i + 1 = Len(s) - (n - 1) <=> i = n
    BY <1>2
  <2>2. \A i \in 1..Len(s) : s[i] \in Y <=> i = n
    BY <1>1, <1>3, <1>4, <2>1 DEF Run
  <2>3. Y = {s[n]}
    BY <1>1, <2>2 DEF Run
  <2> HIDE DEF Y
  <2>4. GetArrayItem(h, a, n - 1) = One(Y)
    BY DEF GetArrayItem, Y
  <2> QED BY <2>3, <2>4, OneOf
<1>6. Elements(h, a) = [n \in 1..Len(s) |-> s[n]]
  BY <1>4, <1>5 DEF Elements
<1> QED BY <1>2, <1>3, <1>4, <1>6

-----------------------------------------------------------------------------
(* What is done to a list and to its sequence. *)

LEMMA InsertAtIs ==
  ASSUME NEW S, NEW s \in Seq(S), NEW k \in 1..(Len(s) + 1), NEW x \in S
  PROVE  /\ InsertAt(s, k, x) \in Seq(S) /\ Len(InsertAt(s, k, x)) = Len(s) + 1
         /\ \A i \in 1..(Len(s) + 1) :
              InsertAt(s, k, x)[i] = IF i < k THEN s[i] ELSE IF i = k THEN x ELSE s[i - 1]
<1> DEFINE l == SubSeq(s, 1, k - 1)
           m == <<x>>
           r == SubSeq(s, k, Len(s))
<1>1. Len(s) \in Nat /\ s \in [1..Len(s) -> S] /\ k \in Nat
  BY LenProperties
<1>2. /\ l \in Seq(S) /\ Len(l) = k - 1 /\ \A i \in 1..(k - 1) : l[i] = s[i]
  <2>1. 1 \in Int /\ k - 1 \in Int /\ \A i \in 1..(k - 1) : s[i] \in S
    BY <1>1
  <2> HIDE DEF l
  <2>2. /\ l \in Seq(S) /\ Len(l) = IF 1 <= k - 1 THEN (k - 1) - 1 + 1 ELSE 0
        /\ \A i \in 1..((k - 1) - 1 + 1) : l[i] = s[1 + i - 1]
    BY <2>1, SubSeqProperties DEF l
  <2> QED BY <1>1, <2>2
<1>3. /\ r \in Seq(S) /\ Len(r) = Len(s) - k + 1
      /\ \A i \in 1..(Len(s) - k + 1) : r[i] = s[k + i - 1]
  <2>1. k \in Int /\ Len(s) \in Int /\ \A i \in k..Len(s) : s[i] \in S
    BY <1>1
  <2> HIDE DEF r
  <2>2. /\ r \in Seq(S) /\ Len(r) = IF k <= Len(s) THEN Len(s) - k + 1 ELSE 0
        /\ \A i \in 1..(Len(s) - k + 1) : r[i] = s[k + i - 1]
    BY <2>1, SubSeqProperties DEF r
  <2> QED BY <1>1, <2>2
<1>4. m \in Seq(S) /\ Len(m) = 1 /\ m[1] = x
  OBVIOUS
<1>5. InsertAt(s, k, x) = (l \o m) \o r
  BY DEF InsertAt
<1> HIDE DEF l, m, r
<1>6. /\ l \o m \in Seq(S) /\ Len(l \o m) = k
      /\ \A i \in 1..k : (l \o m)[i] = IF i <= k - 1 THEN l[i] ELSE m[i - (k - 1)]
  <2>1. /\ l \o m \in Seq(S) /\ Len(l \o m) = Len(l) + Len(m)
        /\ \A i \in 1..(Len(l) + Len(m)) :
             (l \o m)[i] = IF i <= Len(l) THEN l[i] ELSE m[i - Len(l)]
    BY <1>2, <1>4, ConcatProperties
  <2>2. Len(l) = k - 1 /\ Len(l) + Len(m) = k
    BY <1>1, <1>2, <1>4
  <2> QED BY <2>1, <2>2
<1>7. /\ (l \o m) \o r \in Seq(S) /\ Len((l \o m) \o r) = Len(s) + 1
      /\ \A i \in 1..(Len(s) + 1) :
           ((l \o m) \o r)[i] = IF i <= k THEN (l \o m)[i] ELSE r[i - k]
  <2> DEFINE lm == l \o m
  <2>0. lm \in Seq(S) /\ Len(lm) = k
    BY <1>6
  <2> HIDE DEF lm
  <2>1. /\ lm \o r \in Seq(S) /\ Len(lm \o r) = Len(lm) + Len(r)
        /\ \A i \in 1..(Len(lm) + Len(r)) :
             (lm \o r)[i] = IF i <= Len(lm) THEN lm[i] ELSE r[i - Len(lm)]
    BY <1>3, <2>0, ConcatProperties
  <2>2. Len(lm) = k /\ Len(lm) + Len(r) = Len(s) + 1
    BY <1>1, <1>3, <2>0
  <2>3. /\ lm \o r \in Seq(S) /\ Len(lm \o r) = Len(s) + 1
        /\ \A i \in 1..(Len(s) + 1) : (lm \o r)[i] = IF i <= k THEN lm[i] ELSE r[i - k]
    BY <2>1, <2>2
  <2> QED BY <2>3 DEF lm
<1>8. ASSUME NEW i \in 1..(Len(s) + 1)
      PROVE  ((l \o m) \o r)[i] = IF i < k THEN s[i] ELSE IF i = k THEN x ELSE s[i - 1]
  <2>1. CASE i < k
    <3>1. i \in 1..k /\ i <= k - 1 /\ i \in 1..(k - 1) /\ i <= k
      BY <1>1, <2>1
    <3> QED BY <1>2, <1>6, <1>7, <2>1, <3>1
  <2>2. CASE i = k
    <3>1. i \in 1..k /\ ~(i <= k - 1) /\ i - (k - 1) = 1 /\ i <= k /\ ~(i < k)
      BY <1>1, <2>2
    <3> QED BY <1>4, <1>6, <1>7, <2>2, <3>1
  <2>3. CASE i > k
    <3>1. ~(i <= k) /\ i - k \in 1..(Len(s) - k + 1) /\ k + (i - k) - 1 = i - 1
          /\ ~(i < k) /\ i # k
      BY <1>1, <2>3
    <3>2. r[i - k] = s[k + (i - k) - 1]
      BY <1>3, <3>1
    <3>3. ((l \o m) \o r)[i] = r[i - k]
      BY <1>7, <3>1
    <3> QED BY <3>1, <3>2, <3>3
  <2>4. i < k \/ i = k \/ i > k
    BY <1>1
  <2> QED BY <2>1, <2>2, <2>3, <2>4
<1> QED BY <1>5, <1>7, <1>8

LEMMA RemoveAtIs ==
  ASSUME NEW S, NEW s \in Seq(S), NEW k \in 1..Len(s)
  PROVE  /\ RemoveAt(s, k) \in Seq(S) /\ Len(RemoveAt(s, k)) = Len(s) - 1
         /\ \A i \in 1..(Len(s) - 1) :
              RemoveAt(s, k)[i] = IF i < k THEN s[i] ELSE s[i + 1]
<1> DEFINE l == SubSeq(s, 1, k - 1)
           r == SubSeq(s, k + 1, Len(s))
<1>1. Len(s) \in Nat /\ s \in [1..Len(s) -> S] /\ k \in Nat
  BY LenProperties
<1>2. /\ l \in Seq(S) /\ Len(l) = k - 1 /\ \A i \in 1..(k - 1) : l[i] = s[i]
  <2>1. 1 \in Int /\ k - 1 \in Int /\ \A i \in 1..(k - 1) : s[i] \in S
    BY <1>1
  <2> HIDE DEF l
  <2>2. /\ l \in Seq(S) /\ Len(l) = IF 1 <= k - 1 THEN (k - 1) - 1 + 1 ELSE 0
        /\ \A i \in 1..((k - 1) - 1 + 1) : l[i] = s[1 + i - 1]
    BY <2>1, SubSeqProperties DEF l
  <2> QED BY <1>1, <2>2
<1>3. /\ r \in Seq(S) /\ Len(r) = Len(s) - k
      /\ \A i \in 1..(Len(s) - k) : r[i] = s[k + i]
  <2>1. k + 1 \in Int /\ Len(s) \in Int /\ \A i \in (k + 1)..Len(s) : s[i] \in S
    BY <1>1
  <2> HIDE DEF r
  <2>2. /\ r \in Seq(S) /\ Len(r) = IF k + 1 <= Len(s) THEN Len(s) - (k + 1) + 1 ELSE 0
        /\ \A i \in 1..(Len(s) - (k + 1) + 1) : r[i] = s[(k + 1) + i - 1]
    BY <2>1, SubSeqProperties DEF r
  <2>3. Len(s) - (k + 1) + 1 = Len(s) - k
    BY <1>1
  <2>4. Len(r) = Len(s) - k
    <3>0. Len(s) \in Nat /\ k \in Nat /\ k <= Len(s)
      BY <1>1
    <3>1. k + 1 <= Len(s) \/ (~(k + 1 <= Len(s)) /\ Len(s) - k = 0)
      BY <3>0
    <3> QED BY <2>2, <2>3, <3>1
  <2>5. \A i \in 1..(Len(s) - k) : (k + 1) + i - 1 = k + i
    BY <1>1
  <2> QED BY <2>2, <2>3, <2>4, <2>5
<1>4. RemoveAt(s, k) = l \o r
  BY DEF RemoveAt
<1> HIDE DEF l, r
<1>5. /\ l \o r \in Seq(S) /\ Len(l \o r) = Len(s) - 1
      /\ \A i \in 1..(Len(s) - 1) :
           (l \o r)[i] = IF i <= k - 1 THEN l[i] ELSE r[i - (k - 1)]
  <2>1. /\ l \o r \in Seq(S) /\ Len(l \o r) = Len(l) + Len(r)
        /\ \A i \in 1..(Len(l) + Len(r)) :
             (l \o r)[i] = IF i <= Len(l) THEN l[i] ELSE r[i - Len(l)]
    BY <1>2, <1>3, ConcatProperties
  <2>2. Len(l) = k - 1 /\ Len(l) + Len(r) = Len(s) - 1
    BY <1>1, <1>2, <1>3
  <2> QED BY <2>1, <2>2
<1>6. ASSUME NEW i \in 1..(Len(s) - 1)
      PROVE  (l \o r)[i] = IF i < k THEN s[i] ELSE s[i + 1]
  <2>1. CASE i < k
    <3>1. i <= k - 1 /\ i \in 1..(k - 1)
      BY <1>1, <2>1
    <3> QED BY <1>2, <1>5, <2>1, <3>1
  <2>2. CASE ~(i < k)
    <3>1. ~(i <= k - 1) /\ i - (k - 1) \in 1..(Len(s) - k) /\ k + (i - (k - 1)) = i + 1
      BY <1>1, <2>2
    <3> QED BY <1>3, <1>5, <2>2, <3>1
  <2> QED BY <2>1, <2>2
<1> QED BY <1>4, <1>5, <1>6

LEMMA ReplaceAtIs ==
  ASSUME NEW S, NEW s \in Seq(S), NEW k \in 1..Len(s), NEW x \in S
  PROVE  /\ ReplaceAt(s, k, x) \in Seq(S) /\ Len(ReplaceAt(s, k, x)) = Len(s)
         /\ \A i \in 1..Len(s) : ReplaceAt(s, k, x)[i] = IF i = k THEN x ELSE s[i]
  BY LenProperties DEF ReplaceAt

\* x comes to be the k-th item.
LEMMA ListingInsert ==
  ASSUME NEW n, NEW head, NEW s, Listing(n, head, s), NEW k \in 1..(Len(s) + 1),
         NEW x \in Items, NEW nn, NEW newhead,
         nn[x] = After(s, k - 1), k > 1 => nn[s[k - 1]] = x,
         \A i \in 1..Len(s) : i # k - 1 => nn[s[i]] = n[s[i]],
         newhead = IF k = 1 THEN x ELSE head
  PROVE  Listing(nn, newhead, InsertAt(s, k, x))
<1> DEFINE t == InsertAt(s, k, x)
<1>1. s \in Seq(Items) /\ Len(s) \in Nat /\ k \in Nat
  BY LenProperties DEF Listing
<1>2. /\ t \in Seq(Items) /\ Len(t) = Len(s) + 1
      /\ \A i \in 1..(Len(s) + 1) : t[i] = IF i < k THEN s[i] ELSE IF i = k THEN x ELSE s[i - 1]
  BY <1>1, InsertAtIs
<1> HIDE DEF t
<1>3. newhead = After(t, 0)
  <2>1. 0 < Len(t) /\ 1 \in 1..(Len(s) + 1) /\ (k # 1 => 1 < k /\ 0 < Len(s))
    BY <1>1, <1>2
  <2> QED BY <1>2, <2>1 DEF After, Listing
<1>4. ASSUME NEW i \in 1..Len(t) PROVE nn[t[i]] = After(t, i)
  <2>0. i \in 1..(Len(s) + 1) /\ i \in Nat /\ i + 1 > i
    BY <1>1, <1>2
  <2>1. CASE i < k - 1
    <3>1. i \in 1..Len(s) /\ i # k - 1 /\ i < k /\ i < Len(s) /\ i < Len(t)
          /\ i + 1 < k /\ i + 1 \in 1..(Len(s) + 1)
      BY <1>1, <1>2, <2>0, <2>1
    <3>2. nn[s[i]] = n[s[i]] /\ n[s[i]] = s[i + 1]
      BY <3>1 DEF Listing, After
    <3> QED BY <1>2, <2>0, <3>1, <3>2 DEF After
  <2>2. CASE i = k - 1
    <3>1. k > 1 /\ i < k /\ i + 1 = k /\ k \in 1..(Len(s) + 1) /\ ~(k < k) /\ i < Len(t)
      BY <1>1, <1>2, <2>0, <2>2
    <3> QED BY <1>2, <2>0, <2>2, <3>1 DEF After
  <2>3. CASE i = k
    <3>1. CASE k < Len(s) + 1
      <4>1. k - 1 < Len(s) /\ (k - 1) + 1 = k /\ k < Len(t) /\ ~(k < k)
            /\ k + 1 \in 1..(Len(s) + 1) /\ ~(k + 1 < k) /\ k + 1 # k /\ (k + 1) - 1 = k
        BY <1>1, <1>2, <3>1
      <4> QED BY <1>2, <2>0, <2>3, <4>1 DEF After
    <3>2. CASE ~(k < Len(s) + 1)
      <4>1. ~(k - 1 < Len(s)) /\ ~(k < Len(t)) /\ ~(k < k)
        BY <1>1, <1>2, <3>2
      <4> QED BY <1>2, <2>0, <2>3, <4>1 DEF After
    <3> QED BY <3>1, <3>2
  <2>4. CASE i > k
    <3>1. i - 1 \in 1..Len(s) /\ i - 1 # k - 1 /\ ~(i < k) /\ i # k /\ (i - 1) + 1 = i
      BY <1>1, <1>2, <2>0, <2>4
    <3>2. nn[t[i]] = After(s, i - 1)
      BY <1>2, <2>0, <3>1 DEF Listing
    <3>3. CASE i < Len(t)
      <4>1. i - 1 < Len(s) /\ i + 1 \in 1..(Len(s) + 1) /\ ~(i + 1 < k) /\ i + 1 # k
            /\ (i + 1) - 1 = i
        BY <1>1, <1>2, <2>0, <2>4, <3>3
      <4> QED BY <1>2, <3>1, <3>2, <3>3, <4>1 DEF After
    <3>4. CASE ~(i < Len(t))
      <4>1. ~(i - 1 < Len(s))
        BY <1>1, <1>2, <2>0, <3>4
      <4> QED BY <3>2, <3>4, <4>1 DEF After
    <3> QED BY <3>3, <3>4
  <2> QED BY <1>1, <2>0, <2>1, <2>2, <2>3, <2>4
<1>5. Listing(nn, newhead, t)
  BY <1>2, <1>3, <1>4 DEF Listing
<1> QED BY <1>5 DEF t

\* The k-th item is taken out.
LEMMA ListingRemove ==
  ASSUME NEW n, NEW head, NEW s, Listing(n, head, s), NEW k \in 1..Len(s),
         NEW nn, NEW newhead,
         k > 1 => nn[s[k - 1]] = n[s[k]],
         \A i \in 1..Len(s) : i # k - 1 /\ i # k => nn[s[i]] = n[s[i]],
         newhead = IF k = 1 THEN n[s[k]] ELSE head
  PROVE  Listing(nn, newhead, RemoveAt(s, k))
<1> DEFINE t == RemoveAt(s, k)
<1>1. s \in Seq(Items) /\ Len(s) \in Nat /\ k \in Nat
  BY LenProperties DEF Listing
<1>2. /\ t \in Seq(Items) /\ Len(t) = Len(s) - 1
      /\ \A i \in 1..(Len(s) - 1) : t[i] = IF i < k THEN s[i] ELSE s[i + 1]
  BY <1>1, RemoveAtIs
<1> HIDE DEF t
<1>3. newhead = After(t, 0)
  <2>1. CASE k = 1
    <3>1. /\ n[s[k]] = After(s, 1)
          /\ 0 < Len(t) <=> 1 < Len(s)
          /\ 0 < Len(t) => 1 \in 1..(Len(s) - 1) /\ ~(1 < k)
      BY <1>1, <1>2, <2>1 DEF Listing
    <3> QED BY <1>2, <2>1, <3>1 DEF After
  <2>2. CASE k # 1
    <3>1. 1 < k /\ 0 < Len(s) /\ 0 < Len(t) /\ 1 \in 1..(Len(s) - 1)
      BY <1>1, <1>2, <2>2
    <3> QED BY <1>2, <2>2, <3>1 DEF After, Listing
  <2> QED BY <2>1, <2>2
<1>4. ASSUME NEW i \in 1..Len(t) PROVE nn[t[i]] = After(t, i)
  <2>0. i \in 1..(Len(s) - 1) /\ i \in Nat
    BY <1>1, <1>2
  <2>1. CASE i < k - 1
    <3>1. i \in 1..Len(s) /\ i # k - 1 /\ i # k /\ i < k /\ i < Len(s) /\ i < Len(t)
          /\ i + 1 < k /\ i + 1 \in 1..(Len(s) - 1)
      BY <1>1, <1>2, <2>0, <2>1
    <3>2. nn[s[i]] = n[s[i]] /\ n[s[i]] = s[i + 1]
      BY <3>1 DEF Listing, After
    <3> QED BY <1>2, <2>0, <3>1, <3>2 DEF After
  <2>2. CASE i = k - 1
    <3>1. k > 1 /\ i < k /\ i + 1 = k /\ (i < Len(t) <=> k < Len(s)) /\ k \in 1..Len(s)
          /\ ~(k < k) /\ (i < Len(t) => k \in 1..(Len(s) - 1))
      BY <1>1, <1>2, <2>0, <2>2
    <3>2. nn[t[i]] = After(s, k)
      BY <1>2, <2>0, <2>2, <3>1 DEF Listing
    <3> QED BY <1>2, <3>1, <3>2 DEF After
  <2>3. CASE i >= k
    <3>1. i + 1 \in 1..Len(s) /\ i + 1 # k - 1 /\ i + 1 # k /\ ~(i < k) /\ ~(i + 1 < k)
          /\ (i < Len(t) <=> i + 1 < Len(s)) /\ (i < Len(t) => i + 1 \in 1..(Len(s) - 1))
      BY <1>1, <1>2, <2>0, <2>3
    <3>2. nn[t[i]] = After(s, i + 1)
      BY <1>2, <2>0, <3>1 DEF Listing
    <3> QED BY <1>2, <3>1, <3>2 DEF After
  <2> QED BY <1>1, <2>0, <2>1, <2>2, <2>3
<1>5. Listing(nn, newhead, t)
  BY <1>2, <1>3, <1>4 DEF Listing
<1> QED BY <1>5 DEF t

\* x takes the place of the k-th item.
LEMMA ListingReplace ==
  ASSUME NEW n, NEW head, NEW s, Listing(n, head, s), NEW k \in 1..Len(s),
         NEW x \in Items, NEW nn, NEW newhead,
         nn[x] = n[s[k]], k > 1 => nn[s[k - 1]] = x,
         \A i \in 1..Len(s) : i # k - 1 /\ i # k => nn[s[i]] = n[s[i]],
         newhead = IF k = 1 THEN x ELSE head
  PROVE  Listing(nn, newhead, ReplaceAt(s, k, x))
<1> DEFINE t == ReplaceAt(s, k, x)
<1>1. s \in Seq(Items) /\ Len(s) \in Nat /\ k \in Nat
  BY LenProperties DEF Listing
<1>2. /\ t \in Seq(Items) /\ Len(t) = Len(s)
      /\ \A i \in 1..Len(s) : t[i] = IF i = k THEN x ELSE s[i]
  BY <1>1, ReplaceAtIs
<1> HIDE DEF t
<1>3. newhead = After(t, 0)
  <2>1. 0 < Len(t) /\ 0 < Len(s) /\ 1 \in 1..Len(s)
    BY <1>1, <1>2
  <2> QED BY <1>2, <2>1 DEF After, Listing
<1>4. ASSUME NEW i \in 1..Len(t) PROVE nn[t[i]] = After(t, i)
  <2>0. i \in 1..Len(s) /\ i \in Nat /\ (i < Len(t) => i + 1 \in 1..Len(s))
    BY <1>1, <1>2
  <2>1. CASE i = k - 1
    <3>1. k > 1 /\ i + 1 = k /\ i < Len(t) /\ i # k
      BY <1>1, <1>2, <2>0, <2>1
    <3> QED BY <1>2, <2>0, <2>1, <3>1 DEF After
  <2>2. CASE i # k - 1
    <3>1. i + 1 # k
      BY <1>1, <2>0, <2>2
    <3>2. nn[t[i]] = After(s, i)
      BY <1>2, <2>0, <2>2 DEF Listing
    <3> QED BY <1>2, <2>0, <3>1, <3>2 DEF After
  <2> QED BY <2>1, <2>2
<1>5. Listing(nn, newhead, t)
  BY <1>2, <1>3, <1>4 DEF Listing
<1> QED BY <1>5 DEF t

\* The items of the list are copied one by one.
LEMMA ListingCopy ==
  ASSUME NEW n, NEW head, NEW s, Listing(n, head, s), NEW nn, NEW newhead, NEW c,
         \A i \in 1..Len(s) : c[s[i]] \in Items,
         \A i \in 1..Len(s) : nn[c[s[i]]] = IF n[s[i]] = NULL THEN NULL ELSE c[n[s[i]]],
         newhead = IF head = NULL THEN NULL ELSE c[head]
  PROVE  Listing(nn, newhead, [i \in 1..Len(s) |-> c[s[i]]])
<1> DEFINE t == [i \in 1..Len(s) |-> c[s[i]]]
<1>1. s \in Seq(Items) /\ Len(s) \in Nat /\ s \in [1..Len(s) -> Items] /\ NULL \notin Items
  BY TreeAssumption, LenProperties DEF Listing
<1>2. t \in Seq(Items) /\ Len(t) = Len(s) /\ \A i \in 1..Len(s) : t[i] = c[s[i]]
  BY <1>1
<1> HIDE DEF t
<1>3. \A i \in 0..Len(s) : After(t, i) = IF After(s, i) = NULL THEN NULL ELSE c[After(s, i)]
  <2> TAKE i \in 0..Len(s)
  <2>1. CASE i < Len(s)
    <3>1. i + 1 \in 1..Len(s) /\ i < Len(t)
      BY <1>1, <1>2, <2>1
    <3> QED BY <1>1, <1>2, <2>1, <3>1 DEF After
  <2>2. CASE ~(i < Len(s))
    BY <1>2, <2>2 DEF After
  <2> QED BY <2>1, <2>2
<1>4. 0 \in 0..Len(s) /\ \A i \in 1..Len(s) : i \in 0..Len(s)
  BY <1>1
<1>5. Listing(nn, newhead, t)
  BY <1>2, <1>3, <1>4 DEF Listing
<1> QED BY <1>5 DEF t

-----------------------------------------------------------------------------
(* What each operation does to the sequences. *)

\* The elements of an item are what is in its list, each once.
LEMMA ElementsList ==
  ASSUME NEW h, Good(h), NEW a \in h.live, NEW s, s = Elements(h, a)
  PROVE  /\ Listing(h.next, h.child[a], s)
         /\ s \in Seq(h.live) /\ Len(s) \in Nat /\ DOMAIN s = 1..Len(s) /\ IsInjective(s)
         /\ \A y : y \in ToSet(s) <=> y \in h.live /\ h.parent[y] = a
         /\ \A i \in 1..Len(s) : s[i] \in h.live /\ h.parent[s[i]] = a
<1>1. PICK t : Listing(h.next, h.child[a], t)
  BY ListingExists
<1>2. Listing(h.next, h.child[a], s)
  BY <1>1, ElementsAre
<1>3. /\ s \in Seq(h.live)
      /\ \A y : y \in Run(s) <=> y \in h.live /\ h.parent[y] = a
      /\ \A i, j \in 1..Len(s) : s[i] = s[j] => i = j
  BY <1>2, ListingRun
<1>4. Len(s) \in Nat /\ DOMAIN s = 1..Len(s)
  BY <1>3, LenProperties
<1>5. ToSet(s) = Run(s) /\ \A i \in 1..Len(s) : s[i] \in Run(s)
  BY <1>4 DEF ToSet, Run
<1> QED BY <1>2, <1>3, <1>4, <1>5 DEF IsInjective

LEMMA PlaceInList ==
  ASSUME NEW h, Good(h), NEW a \in h.live, NEW y \in h.live, h.parent[y] = a
  PROVE  \E k \in 1..Len(Elements(h, a)) : Elements(h, a)[k] = y
<1> DEFINE s == Elements(h, a)
<1>1. DOMAIN s = 1..Len(s) /\ \A z : z \in ToSet(s) <=> z \in h.live /\ h.parent[z] = a
  BY ElementsList
<1>2. y \in ToSet(s)
  BY <1>1
<1> HIDE DEF s
<1>3. \E k \in 1..Len(s) : s[k] = y
  BY <1>1, <1>2 DEF ToSet
<1> QED BY <1>3 DEF s

\* What get_array_item gives is the item counted n from 0, if there is one.
LEMMA ArrayItemIs ==
  ASSUME NEW h, Good(h), NEW a \in h.live, NEW n \in Nat
  PROVE  IF n + 1 \in 1..Len(Elements(h, a)) THEN GetArrayItem(h, a, n) = Elements(h, a)[n + 1]
         ELSE GetArrayItem(h, a, n) = NULL
<1>1. PICK s : Listing(h.next, h.child[a], s)
  BY ListingExists
<1>2. /\ Elements(h, a) = s /\ GetArraySize(h, a) = Len(s)
      /\ \A i \in 1..Len(s) : Cardinality(Chain(h, s[i])) = Len(s) - i + 1
  BY <1>1, ElementsAre
<1>3. Run(s) = InList(h, a) /\ s \in Seq(h.live)
  BY <1>1, ListingRun
<1>4. Len(s) \in Nat
  BY <1>3, LenProperties
<1> DEFINE Y == {y \in InList(h, a) : Cardinality(Chain(h, y)) = GetArraySize(h, a) - n}
<1>5. \A i \in 1..Len(s) : Len(s) - i + 1 = Len(s) - n <=> i = n + 1
  BY <1>4
<1>6. \A i \in 1..Len(s) : s[i] \in Y <=> i = n + 1
  BY <1>2, <1>3, <1>5 DEF Run
<1>7. \A y \in Y : \E i \in 1..Len(s) : y = s[i]
  BY <1>3 DEF Run
<1> HIDE DEF Y
<1>8. GetArrayItem(h, a, n) = One(Y)
  BY DEF GetArrayItem, Y
<1>9. CASE n + 1 \in 1..Len(s)
  <2>1. Y = {s[n + 1]}
    BY <1>6, <1>7, <1>9
  <2> QED BY <1>2, <1>8, <1>9, <2>1, OneOf
<1>10. CASE n + 1 \notin 1..Len(s)
  <2>1. Y = {}
    BY <1>6, <1>7, <1>10
  <2>2. One(Y) = NULL
    BY <2>1 DEF One
  <2> QED BY <1>2, <1>8, <1>10, <2>2
<1> QED BY <1>9, <1>10

\* The search by name ends at an item with name s.
Stops(s, k, sensitive) ==
  IF sensitive THEN s \in {k, NULL} ELSE s # NULL /\ Lower[s] = Lower[k]

\* What get_object_item gives is the first item at which its search ends, if
\* that has a name.
LEMMA ObjectItemIs ==
  ASSUME NEW h, Good(h), NEW a \in h.live, NEW k, NEW sensitive \in BOOLEAN,
         NEW s, s = Elements(h, a), NEW T, T = {i \in 1..Len(s) : Stops(h.string[s[i]], k, sensitive)}
  PROVE  /\ T = {} => GetObjectItem(h, a, k, sensitive) = NULL
         /\ T # {} =>
              \E m \in T : /\ \A i \in T : m <= i
                          /\ GetObjectItem(h, a, k, sensitive) =
                               IF h.string[s[m]] = NULL THEN NULL ELSE s[m]
<1>1. /\ Listing(h.next, h.child[a], s) /\ s \in Seq(h.live) /\ Len(s) \in Nat
      /\ \A i \in 1..Len(s) : s[i] \in h.live
  BY ElementsList
<1>2. Run(s) = InList(h, a) /\ \A i, j \in 1..Len(s) : s[i] = s[j] => i = j
  BY <1>1, ListingRun
<1>3. NULL \notin h.live
  BY HeapFields DEF Good
<1> DEFINE stops == {y \in InList(h, a) :
                       IF sensitive THEN h.string[y] \in {k, NULL}
                       ELSE h.string[y] # NULL /\ Lower[h.string[y]] = Lower[k]}
           leading == {y \in stops : stops \subseteq Chain(h, y)}
<1>4. GetObjectItem(h, a, k, sensitive) =
        IF One(leading) = NULL \/ h.string[One(leading)] = NULL THEN NULL ELSE One(leading)
  BY Zenon DEF GetObjectItem
<1>5. \A y : y \in stops <=> \E i \in T : y = s[i]
  BY <1>2 DEF Run, Stops
<1>6. \A i \in 1..Len(s) : Chain(h, s[i]) = From(s, i)
  BY <1>1, ChainOfListing
<1>7. \A y : y \in leading <=> y \in stops /\ stops \subseteq Chain(h, y)
  OBVIOUS
<1> HIDE DEF stops, leading
<1>8. CASE T = {}
  <2>1. leading = {}
    BY <1>5, <1>7, <1>8
  <2>2. One(leading) = NULL
    BY <2>1 DEF One
  <2> QED BY <1>4, <1>8, <2>2
<1>9. CASE T # {}
  <2>1. T \subseteq Nat
    BY <1>1
  <2>2. PICK m \in T : \A i \in T : m <= i
    BY <1>9, <2>1, LeastNumber
  <2>3. m \in 1..Len(s) /\ T \subseteq 1..Len(s)
    OBVIOUS
  <2>4. stops \subseteq Chain(h, s[m])
    <3>1. \A i \in T : i \in m..Len(s)
      BY <1>1, <2>2, <2>3
    <3>2. \A i \in T : s[i] \in From(s, m)
      BY <3>1 DEF From
    <3> QED BY <1>5, <1>6, <2>3, <3>2
  <2>5. ASSUME NEW y \in leading PROVE y = s[m]
    <3>1. PICK j \in T : y = s[j]
      BY <1>5, <1>7
    <3>2. s[m] \in From(s, j)
      BY <1>5, <1>6, <1>7, <2>3, <3>1
    <3>3. PICK i \in j..Len(s) : s[m] = s[i]
      BY <3>2 DEF From
    <3>4. i \in 1..Len(s) /\ j <= i /\ j \in Nat /\ i \in Nat /\ m \in Nat
      BY <1>1, <2>3, <3>3
    <3>5. i = m
      BY <1>2, <2>3, <3>3, <3>4
    <3> QED BY <2>2, <3>1, <3>4, <3>5
  <2>6. leading = {s[m]}
    BY <1>5, <1>7, <2>2, <2>4, <2>5
  <2>7. One(leading) = s[m] /\ s[m] # NULL
    BY <1>1, <1>3, <2>3, <2>6, OneOf
  <2> QED BY <1>4, <2>2, <2>7
<1> QED BY <1>8, <1>9

\* A list that an operation leaves alone.
LEMMA ElementsSame ==
  ASSUME NEW h, Good(h), NEW g, Good(g), NEW b \in h.live, b \in g.live,
         g.child[b] = h.child[b],
         \A z \in h.live : h.parent[z] = b => g.next[z] = h.next[z]
  PROVE  Elements(g, b) = Elements(h, b)
<1> DEFINE s == Elements(h, b)
<1>1. Listing(h.next, h.child[b], s) /\ \A i \in 1..Len(s) : s[i] \in h.live /\ h.parent[s[i]] = b
  BY ElementsList
<1> HIDE DEF s
<1>2. Listing(g.next, g.child[b], s)
  BY <1>1 DEF Listing
<1> QED BY <1>2, ElementsAre DEF s

\* g is h but for the sequence of a, which is s.
Becomes(h, g, a, s) ==
  /\ g.live = h.live /\ g.string = h.string /\ Elements(g, a) = s
  /\ \A b \in h.live \ {a} : Elements(g, b) = Elements(h, b)

\* The item before y in its list is what prev says.
LEMMA PrevInList ==
  ASSUME NEW h, Good(h), NEW a \in h.live, NEW s, s = Elements(h, a),
         NEW k \in 1..Len(s), NEW y, y = s[k]
  PROVE  /\ y \in h.live /\ h.parent[y] = a
         /\ k = 1 <=> y = h.child[a]
         /\ k > 1 => /\ s[k - 1] = h.prev[y] /\ k - 1 \in 1..Len(s)
                     /\ \A i \in 1..Len(s) : i # k - 1 => s[i] # h.prev[y]
         /\ k = Len(s) => h.next[y] = NULL /\ y = h.prev[h.child[a]]
         /\ \A i \in 1..Len(s) : i # k => s[i] # y
         /\ y = After(s, k - 1)
<1>0. /\ Listing(h.next, h.child[a], s) /\ Len(s) \in Nat
      /\ DOMAIN s = 1..Len(s) /\ IsInjective(s)
      /\ \A i \in 1..Len(s) : s[i] \in h.live /\ h.parent[s[i]] = a
  BY ElementsList
<1>1. /\ Listing(h.next, h.child[a], s) /\ Len(s) \in Nat
      /\ \A i \in 1..Len(s) : s[i] \in h.live /\ h.parent[s[i]] = a
      /\ \A i, j \in 1..Len(s) : s[i] = s[j] => i = j
  BY <1>0 DEF IsInjective
<1>2. Links(h.live, h.next, h.prev, h.child, h.parent) /\ NULL \notin h.live /\ a # NULL
  BY HeapFields DEF Good, ListsOf, Lists
<1>3. h.child[a] = s[1] /\ 1 \in 1..Len(s)
  <2>1. 0 < Len(s) /\ 1 \in 1..Len(s)
    BY <1>1
  <2> QED BY <1>1, <2>1 DEF Listing, After
<1>4. k > 1 => /\ s[k - 1] = h.prev[y] /\ k - 1 \in 1..Len(s)
               /\ \A i \in 1..Len(s) : i # k - 1 => s[i] # h.prev[y]
  <2>1. SUFFICES ASSUME k > 1
                 PROVE  /\ s[k - 1] = h.prev[y] /\ k - 1 \in 1..Len(s)
                        /\ \A i \in 1..Len(s) : i # k - 1 => s[i] # h.prev[y]
    OBVIOUS
  <2>2. k - 1 \in 1..Len(s) /\ k - 1 < Len(s) /\ (k - 1) + 1 = k
    BY <1>1, <2>1
  <2>3. h.next[s[k - 1]] = y
    BY <1>1, <2>2 DEF Listing, After
  <2> QED BY <1>1, <1>2, <2>2, <2>3 DEF Links
<1>5. k = Len(s) => h.next[y] = NULL
  <2>1. ~(Len(s) < Len(s))
    BY <1>1
  <2> QED BY <1>1, <2>1 DEF Listing, After
<1>6. h.next[y] = NULL => y = h.prev[h.child[a]]
  BY <1>1, <1>2 DEF Links
<1>7. k - 1 < Len(s) /\ (k - 1) + 1 = k
  BY <1>1
<1> QED BY <1>1, <1>3, <1>4, <1>5, <1>6, <1>7 DEF After

LEMMA AppendedSeq ==
  ASSUME NEW h, Good(h), NEW a \in h.live, NEW x \in Roots(h), a \notin Reach(h, x),
         NEW s, s = Elements(h, a)
  PROVE  Becomes(h, Appended(h, a, x), a, InsertAt(s, Len(s) + 1, x))
<1> DEFINE g == Appended(h, a, x)
           head == h.child[a]
<1>1. /\ h \in Heap /\ x \in h.live /\ h.parent[x] = NULL /\ x \in Items /\ a \in Items
      /\ a # x /\ a # NULL /\ h.next[x] = NULL /\ h.live \in SUBSET Items
  BY HeapFields, ReachClosed DEF Good, Roots, ListsOf, Lists, Links
<1>2. Good(g)
  BY GoodAppended
<1>3. /\ head = NULL => AppendedFirst(h, g, a, x)
      /\ head # NULL => AppendedLast(h, g, a, x, head)
  BY <1>1, AppendedFields
<1>4. g.live = h.live /\ g.string = h.string
  BY <1>3 DEF AppendedFirst, AppendedLast
<1>5. /\ Listing(h.next, head, s) /\ Len(s) \in Nat
      /\ \A i \in 1..Len(s) : s[i] \in h.live /\ h.parent[s[i]] = a
  BY ElementsList
<1> HIDE DEF g
<1>6. Listing(g.next, g.child[a], InsertAt(s, Len(s) + 1, x))
  <2> DEFINE k == Len(s) + 1
  <2>1. k \in 1..(Len(s) + 1) /\ k - 1 = Len(s) /\ ~(Len(s) < Len(s))
        /\ (Len(s) = 0 => k = 1) /\ (Len(s) >= 1 => k > 1 /\ k # 1)
    BY <1>5
  <2> HIDE DEF k
  <2>2. CASE head = NULL
    <3>1. s = <<>>
      BY <1>5, <2>2, ListingWalk
    <3>2. Len(s) = 0 /\ k = 1
      BY <2>1, <3>1
    <3>3. g.next[x] = After(s, k - 1) /\ g.child[a] = x
      BY <1>1, <1>3, <2>1, <2>2 DEF AppendedFirst, After, Heap, Link
    <3> HIDE DEF head
    <3>4. Listing(g.next, g.child[a], InsertAt(s, k, x))
      <4>1. \A i \in 1..Len(s) : i # k - 1 => g.next[s[i]] = h.next[s[i]]
        BY <3>2
      <4>2. ~(k > 1)
        BY <3>2
      <4>3. x \in Items /\ g.child[a] = IF k = 1 THEN x ELSE head
        BY <1>1, <3>2, <3>3
      <4> QED BY <1>5, <2>1, <3>3, <4>1, <4>2, <4>3, ListingInsert
    <3> QED BY <3>4 DEF k
  <2>3. CASE head # NULL
    <3>1. Walk(h.next, head, s)
      BY <1>5, <2>3, ListingWalk
    <3>2. Len(s) \in 1..Len(s) /\ k > 1 /\ k # 1
      BY <1>5, <2>1, <3>1 DEF Walk
    <3>3. s[k - 1] = h.prev[head] /\ \A i \in 1..Len(s) : i # k - 1 => s[i] # h.prev[head]
      <4>1. PICK l \in 1..Len(s) : l = Len(s)
        BY <3>2
      <4>2. PICK y : y = s[l]
        OBVIOUS
      <4>3. y = h.prev[head] /\ \A i \in 1..Len(s) : i # l => s[i] # y
        BY <4>1, <4>2, PrevInList
      <4>4. l = k - 1
        BY <2>1, <4>1
      <4> QED BY <4>2, <4>3, <4>4
    <3>4. /\ g.next = [h.next EXCEPT ![h.prev[head]] = x] /\ g.child = h.child
      BY <1>3, <2>3 DEF AppendedLast
    <3>5. s[k - 1] \in h.live /\ s[k - 1] # x
      BY <1>1, <1>5, <2>1, <3>2
    <3>6. g.next[x] = After(s, k - 1)
      BY <1>1, <2>1, <3>3, <3>4, <3>5, HeapFields DEF After
    <3>7. g.next[s[k - 1]] = x /\ \A i \in 1..Len(s) : i # k - 1 => g.next[s[i]] = h.next[s[i]]
      BY <1>1, <1>5, <3>3, <3>4, <3>5, HeapFields
    <3>8. g.child[a] = IF k = 1 THEN x ELSE head
      BY <3>2, <3>4
    <3> HIDE DEF head
    <3>9. Listing(g.next, g.child[a], InsertAt(s, k, x))
      <4>1. /\ Listing(h.next, head, s) /\ k \in 1..(Len(s) + 1) /\ x \in Items
            /\ (k > 1 => g.next[s[k - 1]] = x)
            /\ \A i \in 1..Len(s) : i # k - 1 => g.next[s[i]] = h.next[s[i]]
        BY <1>1, <1>5, <2>1, <3>7
      <4> QED BY <3>6, <3>8, <4>1, ListingInsert
    <3> QED BY <3>9 DEF k
  <2> QED BY <2>2, <2>3
<1>7. Elements(g, a) = InsertAt(s, Len(s) + 1, x)
  BY <1>2, <1>4, <1>6, ElementsAre
<1>8. ASSUME NEW b \in h.live \ {a} PROVE Elements(g, b) = Elements(h, b)
  <2>1. g.child[b] = h.child[b] /\ \A z \in h.live : h.parent[z] = b => g.next[z] = h.next[z]
    <3>1. CASE head = NULL
      <4>1. b # NULL /\ b \in Items
        BY <1>1, HeapFields
      <4> QED BY <1>1, <1>3, <3>1, <4>1, HeapFields DEF AppendedFirst
    <3>2. CASE head # NULL
      <4>1. h.parent[h.prev[head]] = a
        BY <1>1, <3>2 DEF Good, ListsOf, Lists, Links
      <4> QED BY <1>1, <1>3, <3>2, <4>1, HeapFields DEF AppendedLast
    <3> QED BY <3>1, <3>2
  <2> QED BY <1>2, <1>4, <2>1, ElementsSame
<1> QED BY <1>4, <1>7, <1>8 DEF Becomes, g

LEMMA InsertedSeq ==
  ASSUME NEW h, Good(h), NEW a \in h.live, NEW x \in Roots(h), a \notin Reach(h, x),
         NEW y \in h.live, h.parent[y] = a, NEW s, s = Elements(h, a)
  PROVE  \E k \in 1..Len(s) : s[k] = y /\ Becomes(h, Inserted(h, a, y, x), a, InsertAt(s, k, x))
<1> DEFINE g == Inserted(h, a, y, x)
           head == h.child[a]
<1>1. /\ h \in Heap /\ x \in h.live /\ h.parent[x] = NULL /\ x \in Items /\ a \in Items
      /\ a # x /\ a # NULL /\ h.next[x] = NULL /\ h.live \in SUBSET Items /\ y # x
  BY HeapFields, ReachClosed DEF Good, Roots, ListsOf, Lists, Links
<1>2. Good(g)
  BY GoodInserted
<1>3. InsertedBefore(h, g, a, y, x)
  BY <1>1, InsertedFields
<1>4. g.live = h.live /\ g.string = h.string
  BY <1>3 DEF InsertedBefore
<1>5. /\ Listing(h.next, head, s) /\ Len(s) \in Nat
      /\ \A i \in 1..Len(s) : s[i] \in h.live /\ h.parent[s[i]] = a
  BY ElementsList
<1>6. PICK k \in 1..Len(s) : s[k] = y
  BY PlaceInList
<1>7. /\ k = 1 <=> y = head
      /\ k > 1 => /\ s[k - 1] = h.prev[y] /\ k - 1 \in 1..Len(s)
                  /\ \A i \in 1..Len(s) : i # k - 1 => s[i] # h.prev[y]
      /\ y = After(s, k - 1)
  BY <1>6, PrevInList
<1>8. k \in 1..(Len(s) + 1) /\ (k # 1 => k > 1) /\ (k = 1 => ~(k > 1))
  BY <1>5
<1>9. y # head => h.prev[y] \in h.live /\ h.parent[h.prev[y]] = a
  BY <1>1 DEF Good, ListsOf, Lists, Links
<1> HIDE DEF g
<1>10. Listing(g.next, g.child[a], InsertAt(s, k, x))
  <2>1. g.next[x] = After(s, k - 1)
    <3>1. y # head => x # h.prev[y]
      BY <1>1, <1>9
    <3> QED BY <1>1, <1>3, <1>7, <3>1, HeapFields DEF InsertedBefore
  <2>2. k > 1 => g.next[s[k - 1]] = x
    BY <1>1, <1>3, <1>5, <1>7, <1>8, HeapFields DEF InsertedBefore
  <2>3. \A i \in 1..Len(s) : i # k - 1 => g.next[s[i]] = h.next[s[i]]
    <3> TAKE i \in 1..Len(s)
    <3>1. s[i] # x /\ s[i] \in Items
      BY <1>1, <1>5
    <3> QED BY <1>1, <1>3, <1>7, <1>8, <3>1, HeapFields DEF InsertedBefore
  <2>4. g.child[a] = IF k = 1 THEN x ELSE head
    BY <1>1, <1>3, <1>7, HeapFields DEF InsertedBefore
  <2>5. Listing(h.next, head, s) /\ k \in 1..(Len(s) + 1) /\ x \in Items
    BY <1>1, <1>5, <1>8
  <2> HIDE DEF head
  <2> QED BY <2>1, <2>2, <2>3, <2>4, <2>5, ListingInsert
<1>11. Elements(g, a) = InsertAt(s, k, x)
  BY <1>2, <1>4, <1>10, ElementsAre
<1>12. ASSUME NEW b \in h.live \ {a} PROVE Elements(g, b) = Elements(h, b)
  <2>1. g.child[b] = h.child[b] /\ \A z \in h.live : h.parent[z] = b => g.next[z] = h.next[z]
    <3>1. b # NULL /\ b \in Items /\ b # a
      BY <1>1, HeapFields
    <3> QED BY <1>1, <1>3, <1>9, <3>1, HeapFields DEF InsertedBefore
  <2> QED BY <1>2, <1>4, <2>1, ElementsSame
<1> QED BY <1>4, <1>6, <1>11, <1>12 DEF Becomes, g

LEMMA DetachedSeq ==
  ASSUME NEW h, Good(h), NEW a \in h.live, NEW y \in h.live, h.parent[y] = a,
         NEW s, s = Elements(h, a)
  PROVE  \E k \in 1..Len(s) : s[k] = y /\ Becomes(h, Detached(h, a, y), a, RemoveAt(s, k))
<1> DEFINE g == Detached(h, a, y)
           head == h.child[a]
<1>1. /\ h \in Heap /\ y \in Items /\ a \in Items /\ a # NULL /\ h.live \in SUBSET Items
  BY HeapFields DEF Good
<1>2. Good(g)
  BY GoodDetached
<1>3. /\ g.live = h.live /\ g.string = h.string
      /\ g.next = OutNext(h.next, h.prev, h.child, a, y)
      /\ g.child = OutChild(h.next, h.child, a, y)
  BY <1>1, DetachedFields
<1>5. /\ Listing(h.next, head, s) /\ Len(s) \in Nat
      /\ \A i \in 1..Len(s) : s[i] \in h.live /\ h.parent[s[i]] = a
  BY ElementsList
<1>6. PICK k \in 1..Len(s) : s[k] = y
  BY PlaceInList
<1>7. /\ k = 1 <=> y = head
      /\ k > 1 => /\ s[k - 1] = h.prev[y] /\ k - 1 \in 1..Len(s)
                  /\ \A i \in 1..Len(s) : i # k - 1 => s[i] # h.prev[y]
      /\ \A i \in 1..Len(s) : i # k => s[i] # y
  BY <1>6, PrevInList
<1>8. (k # 1 => k > 1) /\ (k = 1 => ~(k > 1)) /\ k - 1 # k
  BY <1>5
<1>9. y # head => h.prev[y] \in h.live /\ h.parent[h.prev[y]] = a
  BY <1>1 DEF Good, ListsOf, Lists, Links
<1> HIDE DEF g
<1>10. Listing(g.next, g.child[a], RemoveAt(s, k))
  <2>1. k > 1 => g.next[s[k - 1]] = h.next[s[k]]
    <3>1. k > 1 => s[k - 1] # y /\ s[k - 1] \in Items
      BY <1>1, <1>5, <1>7, <1>8
    <3> QED BY <1>1, <1>3, <1>6, <1>7, <1>8, <3>1, HeapFields DEF OutNext
  <2>2. \A i \in 1..Len(s) : i # k - 1 /\ i # k => g.next[s[i]] = h.next[s[i]]
    <3> TAKE i \in 1..Len(s)
    <3>1. s[i] \in Items
      BY <1>1, <1>5
    <3> QED BY <1>1, <1>3, <1>7, <1>8, <3>1, HeapFields DEF OutNext
  <2>3. g.child[a] = IF k = 1 THEN h.next[s[k]] ELSE head
    BY <1>1, <1>3, <1>6, <1>7, HeapFields DEF OutChild
  <2>4. Listing(h.next, head, s)
    BY <1>5
  <2> HIDE DEF head
  <2> QED BY <2>1, <2>2, <2>3, <2>4, ListingRemove
<1>11. Elements(g, a) = RemoveAt(s, k)
  BY <1>2, <1>3, <1>10, ElementsAre
<1>12. ASSUME NEW b \in h.live \ {a} PROVE Elements(g, b) = Elements(h, b)
  <2>1. g.child[b] = h.child[b] /\ \A z \in h.live : h.parent[z] = b => g.next[z] = h.next[z]
    <3>1. b # a
      OBVIOUS
    <3> QED BY <1>1, <1>3, <1>9, <3>1, HeapFields DEF OutNext, OutChild
  <2> QED BY <1>2, <1>3, <2>1, ElementsSame
<1> QED BY <1>3, <1>6, <1>11, <1>12 DEF Becomes, g

LEMMA ReplacedSeq ==
  ASSUME NEW h, Good(h), NEW a \in h.live, NEW x \in Roots(h), a \notin Reach(h, x),
         NEW y \in h.live, h.parent[y] = a, NEW s, s = Elements(h, a)
  PROVE  \E k \in 1..Len(s) :
           s[k] = y /\ Becomes(h, Replaced(h, a, y, x), a, ReplaceAt(s, k, x))
<1> DEFINE g == Replaced(h, a, y, x)
           head == h.child[a]
<1>1. /\ h \in Heap /\ x \in h.live /\ h.parent[x] = NULL /\ x \in Items /\ a \in Items
      /\ y \in Items /\ x # y /\ a # NULL /\ h.live \in SUBSET Items
  BY HeapFields DEF Good, Roots
<1>2. Good(g)
  BY GoodReplaced
<1>3. /\ g.live = h.live /\ g.string = h.string
      /\ g.next = SwapNext(h.next, h.prev, h.child, a, y, x)
      /\ g.child = SwapChild(h.child, a, y, x)
  BY <1>1, ReplacedFields
<1>5. /\ Listing(h.next, head, s) /\ Len(s) \in Nat
      /\ \A i \in 1..Len(s) : s[i] \in h.live /\ h.parent[s[i]] = a
  BY ElementsList
<1>6. PICK k \in 1..Len(s) : s[k] = y
  BY PlaceInList
<1>7. /\ k = 1 <=> y = head
      /\ k > 1 => /\ s[k - 1] = h.prev[y] /\ k - 1 \in 1..Len(s)
                  /\ \A i \in 1..Len(s) : i # k - 1 => s[i] # h.prev[y]
      /\ \A i \in 1..Len(s) : i # k => s[i] # y
  BY <1>6, PrevInList, SMTT(60)
<1>8. (k # 1 => k > 1) /\ (k = 1 => ~(k > 1)) /\ k - 1 # k
  BY <1>5
<1>9. /\ y # head => h.prev[y] \in h.live /\ h.parent[h.prev[y]] = a /\ h.prev[y] # NULL
      /\ y # head => h.prev[y] # y
  <2>1. Lists(h.live, h.next, h.prev, h.child, h.parent)
    BY DEF Good, ListsOf
  <2>2. y # head => h.prev[y] # y
    BY <1>1, <2>1, NotItself
  <2> QED BY <1>1, <2>1, <2>2, HeapFields DEF Lists, Links
<1> HIDE DEF g
<1>10. Listing(g.next, g.child[a], ReplaceAt(s, k, x))
  <2>0. y # head => h.prev[y] # x
    BY <1>1, <1>9
  <2>1. g.next[x] = h.next[s[k]]
    BY <1>1, <1>3, <1>6, <2>0, HeapFields DEF SwapNext
  <2>2. k > 1 => g.next[s[k - 1]] = x
    BY <1>1, <1>3, <1>7, <1>8, <1>9, <2>0, HeapFields DEF SwapNext
  <2>3. \A i \in 1..Len(s) : i # k - 1 /\ i # k => g.next[s[i]] = h.next[s[i]]
    <3> TAKE i \in 1..Len(s)
    <3>1. s[i] \in Items /\ s[i] # x
      BY <1>1, <1>5
    <3> QED BY <1>1, <1>3, <1>7, <1>8, <3>1, HeapFields DEF SwapNext
  <2>4. g.child[a] = IF k = 1 THEN x ELSE head
    BY <1>1, <1>3, <1>7, HeapFields DEF SwapChild
  <2>5. Listing(h.next, head, s) /\ x \in Items
    BY <1>1, <1>5
  <2> HIDE DEF head
  <2> QED BY <2>1, <2>2, <2>3, <2>4, <2>5, ListingReplace
<1>11. Elements(g, a) = ReplaceAt(s, k, x)
  BY <1>2, <1>3, <1>10, ElementsAre
<1>12. ASSUME NEW b \in h.live \ {a} PROVE Elements(g, b) = Elements(h, b)
  <2>1. g.child[b] = h.child[b] /\ \A z \in h.live : h.parent[z] = b => g.next[z] = h.next[z]
    <3>1. b # a /\ b # NULL
      BY <1>1, HeapFields
    <3> QED BY <1>1, <1>3, <1>9, <3>1, HeapFields DEF SwapNext, SwapChild
  <2> QED BY <1>2, <1>3, <2>1, ElementsSame
<1> QED BY <1>3, <1>6, <1>11, <1>12 DEF Becomes, g

LEMMA NoElements ==
  ASSUME NEW h, Good(h), NEW b \in h.live, h.child[b] = NULL
  PROVE  Elements(h, b) = <<>>
<1>1. Listing(h.next, h.child[b], <<>>)
  BY NoListing
<1> QED BY <1>1, ElementsAre

\* h1 is h, but that the name of x is k.
Renames(h, h1, x, k) ==
  /\ h1.live = h.live /\ h1.string[x] = k
  /\ \A b \in h.live : Elements(h1, b) = Elements(h, b)
  /\ \A b \in h.live \ {x} : h1.string[b] = h.string[b]

LEMMA NamedRenames ==
  ASSUME NEW h, Good(h), NEW x \in h.live, NEW k \in Names \cup {NULL}
  PROVE  Renames(h, Named(h, x, k), x, k)
<1> DEFINE g == Named(h, x, k)
<1>1. Good(g) /\ h \in Heap /\ x \in Items
  BY GoodNamed, HeapFields DEF Good
<1>2. /\ g.live = h.live /\ g.next = h.next /\ g.child = h.child
      /\ g.string = [h.string EXCEPT ![x] = k]
  BY <1>1, NamedFields
<1> HIDE DEF g
<1>3. \A b \in h.live : Elements(g, b) = Elements(h, b)
  BY <1>1, <1>2, ElementsSame
<1>4. g.string[x] = k /\ \A b \in h.live \ {x} : g.string[b] = h.string[b]
  BY <1>1, <1>2, HeapFields
<1>5. Renames(h, g, x, k)
  BY <1>2, <1>3, <1>4 DEF Renames
<1> QED BY <1>5 DEF g

LEMMA AllocatedSeq ==
  ASSUME NEW h, Good(h), NEW x \in Items \ h.live, NEW xs, xs = {x},
         NEW g, g = Allocated(h, xs)
  PROVE  /\ Good(g) /\ g.live = h.live \cup {x} /\ g.string = h.string
         /\ Elements(g, x) = <<>>
         /\ \A b \in h.live : Elements(g, b) = Elements(h, b)
<1>1. Good(g) /\ h \in Heap /\ h.live \in SUBSET Items
  BY GoodAllocated, HeapFields DEF Good
<1>2. /\ g.live = h.live \cup {x} /\ g.next = h.next /\ g.child = h.child
      /\ g.string = h.string
  BY <1>1, AllocatedFields
<1>3. h.child[x] = NULL
  BY DEF Good, Blanked
<1>4. Elements(g, x) = <<>>
  BY <1>1, <1>2, <1>3, NoElements
<1>5. \A b \in h.live : Elements(g, b) = Elements(h, b)
  BY <1>1, <1>2, ElementsSame
<1> QED BY <1>1, <1>2, <1>4, <1>5

\* What is left when a root is deleted is as it was.
LEMMA FreedSeq ==
  ASSUME NEW h, Good(h), NEW x \in Roots(h), NEW g, g = Freed(h, x)
  PROVE  /\ g.live = h.live \ Reach(h, x)
         /\ \A b \in g.live : Elements(g, b) = Elements(h, b) /\ g.string[b] = h.string[b]
<1>1. Good(g) /\ h.live \in SUBSET Items
  BY GoodFreed, HeapFields DEF Good
<1>2. /\ g.live = h.live \ Reach(h, x)
      /\ \A y \in Items \ Reach(h, x) : /\ g.next[y] = h.next[y] /\ g.child[y] = h.child[y]
                                        /\ g.string[y] = h.string[y]
  BY DEF Freed, Cleared
<1>3. x \in h.live /\ h.parent[x] = NULL /\ NULL \notin h.live
  BY HeapFields DEF Roots, Good
<1>4. ASSUME NEW b \in g.live PROVE Elements(g, b) = Elements(h, b)
  <2>1. b \in h.live /\ b \notin Reach(h, x)
    BY <1>2
  <2>2. \A z \in h.live : h.parent[z] = b => z \notin Reach(h, x)
    BY <1>3, <2>1, ReachFromRoot
  <2>3. /\ g.child[b] = h.child[b]
        /\ \A z \in h.live : h.parent[z] = b => g.next[z] = h.next[z]
    BY <1>1, <1>2, <2>1, <2>2
  <2> QED BY <1>1, <2>1, <2>3, ElementsSame
<1>5. \A b \in g.live : g.string[b] = h.string[b]
  BY <1>1, <1>2
<1> QED BY <1>2, <1>4, <1>5

-----------------------------------------------------------------------------
(* The forest of the heap. *)

LEMMA ForestFields ==
  ASSUME NEW h, NEW f, f = ForestOf(h)
  PROVE  /\ Forest!Live(f) = h.live
         /\ \A a \in h.live : f.kids[a] = Elements(h, a) /\ f.keys[a] = h.string[a]
  BY DEF ForestOf, Forest!Live

LEMMA SameToSet == ASSUME NEW s PROVE Forest!ToSet(s) = ToSet(s)
  BY DEF ToSet, Forest!ToSet

LEMMA ForestRoots ==
  ASSUME NEW h, Good(h) PROVE Forest!Roots(ForestOf(h)) = Roots(h)
<1>1. PICK f : f = ForestOf(h)
  OBVIOUS
<1>2. Forest!Live(f) = h.live /\ \A a \in h.live : f.kids[a] = Elements(h, a)
  BY <1>1, ForestFields
<1>3. \A a \in h.live : \A y : y \in ToSet(f.kids[a]) <=> y \in h.live /\ h.parent[y] = a
  BY <1>2, ElementsList
<1>4. \A y \in h.live : h.parent[y] # NULL => h.parent[y] \in h.live
  BY DEF Good, ListsOf, Lists, Links
<1>5. NULL \notin h.live
  BY HeapFields DEF Good
<1>6. \A y : y \in UNION {ToSet(f.kids[a]) : a \in h.live} <=> y \in h.live /\ h.parent[y] # NULL
  BY <1>3, <1>4, <1>5
<1>7. Forest!Roots(f) = h.live \ UNION {ToSet(f.kids[a]) : a \in h.live}
  BY <1>2, SameToSet DEF Forest!Roots
<1>8. Forest!Roots(f) = Roots(h)
  BY <1>6, <1>7 DEF Roots
<1> QED BY <1>1, <1>8

\* What is in x, at any depth, is the set that has x, what is in its items, and
\* of no other item.
LEMMA BelowIs ==
  ASSUME NEW h, Good(h), NEW x, NEW F \in SUBSET h.live, x \in F,
         \A y \in F : y # x => h.parent[y] \in F,
         \A y \in h.live : h.parent[y] \in F => y \in F
  PROVE  Forest!Below(ForestOf(h), x) = F
<1>0. PICK f : f = ForestOf(h)
  OBVIOUS
<1>1. Forest!Live(f) = h.live /\ \A a \in h.live : f.kids[a] = Elements(h, a)
  BY <1>0, ForestFields
<1>2. \A a \in h.live : \A y : y \in ToSet(Elements(h, a)) <=> y \in h.live /\ h.parent[y] = a
  BY ElementsList
<1>3. \A S \in SUBSET h.live :
        (\A z \in S : ToSet(f.kids[z]) \subseteq S) <=> \A y \in h.live : h.parent[y] \in S => y \in S
  <2> TAKE S \in SUBSET h.live
  <2>1. \A z \in S : \A y : y \in ToSet(f.kids[z]) <=> y \in h.live /\ h.parent[y] = z
    BY <1>1, <1>2
  <2> QED BY <2>1
<1>4. Forest!Below(f, x) = {y \in h.live : \A S \in SUBSET h.live :
        x \in S /\ (\A z \in h.live : h.parent[z] \in S => z \in S) => y \in S}
  <2>1. Forest!Below(f, x) = {y \in h.live : \A S \in SUBSET h.live :
          x \in S /\ (\A z \in S : ToSet(f.kids[z]) \subseteq S) => y \in S}
    BY <1>1, SameToSet DEF Forest!Below
  <2> QED BY <1>3, <2>1
<1>5. Forest!Below(f, x) \subseteq F
  BY <1>4
<1>6. ASSUME NEW S \in SUBSET h.live, x \in S,
             \A z \in h.live : h.parent[z] \in S => z \in S
      PROVE  F \subseteq S
  <2> DEFINE D == F \ S
  <2>1. D \in SUBSET h.live /\ \A y \in D : h.parent[y] \in D
    BY <1>6
  <2> HIDE DEF D
  <2>2. D = {}
    BY <2>1 DEF Good, Grounded
  <2> QED BY <2>2 DEF D
<1>7. F \subseteq Forest!Below(f, x)
  BY <1>4, <1>6
<1> QED BY <1>0, <1>5, <1>7

\* A set with x, and with the item in whose list an item of the set is, cannot
\* have the item that x is in.
LEMMA AboveIsOut ==
  ASSUME NEW h, Good(h), NEW x, NEW F \in SUBSET h.live, x \in F,
         \A y \in F : y # x => h.parent[y] \in F
  PROVE  h.parent[x] \notin F
  BY DEF Good, Grounded

LEMMA BelowRoot ==
  ASSUME NEW h, Good(h), NEW x \in Roots(h)
  PROVE  Forest!Below(ForestOf(h), x) = Reach(h, x)
<1>1. x \in h.live
  BY DEF Roots
<1>2. /\ x \in Reach(h, x) /\ Reach(h, x) \in SUBSET h.live
      /\ \A y \in h.live : h.parent[y] \in Reach(h, x) => y \in Reach(h, x)
  BY <1>1, ReachClosed
<1>3. \A y \in Reach(h, x) : y # x => h.parent[y] \in Reach(h, x)
  BY ReachFromRoot
<1> QED BY <1>2, <1>3, BelowIs

\* What cJSON_Duplicate copies has all that is in any of its items.
LEMMA CopiedDown ==
  ASSUME NEW h, Good(h), NEW x \in h.live, NEW F, F = Copied(h, x, TRUE),
         NEW y \in h.live, h.parent[y] \in F
  PROVE  y \in F
<1>1. F = {x} \cup Reach(h, h.child[x])
  BY DEF Copied
<1>2. Lists(h.live, h.next, h.prev, h.child, h.parent) /\ NULL \notin h.live
  BY HeapFields DEF Good, ListsOf
<1>3. h.child[x] # NULL
  <2>1. SUFFICES ASSUME h.child[x] = NULL PROVE FALSE
    OBVIOUS
  <2>2. Reach(h, h.child[x]) = {}
    BY <1>2, <2>1 DEF Reach
  <2>3. h.parent[y] = x
    BY <1>1, <2>2
  <2> QED BY <1>2, <2>1, <2>3 DEF Lists, Links
<1>4. h.child[x] \in h.live
  BY <1>2, <1>3 DEF Lists, Links
<1> DEFINE R == Reach(h, h.child[x])
<1>5. /\ h.child[x] \in R /\ R \in SUBSET h.live
      /\ \A z \in R : h.next[z] \in R \cup {NULL}
      /\ \A z \in h.live : h.parent[z] \in R => z \in R
  BY <1>4, ReachClosed
<1> HIDE DEF R
<1>6. \A z \in h.live : h.parent[z] = x => z \in R
  BY <1>2, <1>5 DEF Lists, Found, Closed
<1> QED BY <1>1, <1>5, <1>6 DEF R

LEMMA BelowCopied ==
  ASSUME NEW h, Good(h), NEW x \in h.live
  PROVE  Forest!Below(ForestOf(h), x) = Copied(h, x, TRUE)
<1>1. PICK F : F = Copied(h, x, TRUE)
  OBVIOUS
<1>2. F \in SUBSET h.live /\ x \in F /\ \A y \in F : y # x => h.parent[y] \in F
  <2>1. PICK recurse \in BOOLEAN : recurse = TRUE
    OBVIOUS
  <2>2. F = Copied(h, x, recurse)
    BY <1>1, <2>1
  <2> QED BY <2>2, CopiedClosed
<1>3. \A y \in h.live : h.parent[y] \in F => y \in F
  BY <1>1, CopiedDown
<1> QED BY <1>1, <1>2, <1>3, BelowIs

\* The operations on sequences, as JsonForest names them.
LEMMA SameOperators ==
  ASSUME NEW s, NEW k, NEW x
  PROVE  /\ Forest!InsertAt(s, k, x) = InsertAt(s, k, x)
         /\ Forest!RemoveAt(s, k) = RemoveAt(s, k)
         /\ Forest!ReplaceAt(s, k, x) = ReplaceAt(s, k, x)
  BY DEF InsertAt, RemoveAt, ReplaceAt, Forest!InsertAt, Forest!RemoveAt, Forest!ReplaceAt

\* The sequence of a is s, and those of the other items are what they were.
SetsKids(h, g, a, s) ==
  Elements(g, a) = s /\ \A b \in (h.live \cap g.live) \ {a} : Elements(g, b) = Elements(h, b)
KeepsKeys(h, g, x) == \A b \in (h.live \cap g.live) \ {x} : g.string[b] = h.string[b]

LEMMA ForestChange ==
  ASSUME NEW h, NEW g, NEW a, NEW x, NEW s, NEW f, f = ForestOf(h), NEW e, e = ForestOf(g)
  PROVE  /\ KeepsKeys(h, g, x) => Forest!SameKeys(f, e, x)
         /\ SetsKids(h, g, a, s) /\ a \in g.live => Forest!Only(f, e, a, s)
<1>1. /\ Forest!Live(f) = h.live
      /\ \A b \in h.live : f.kids[b] = Elements(h, b) /\ f.keys[b] = h.string[b]
  BY ForestFields
<1>2. /\ Forest!Live(e) = g.live
      /\ \A b \in g.live : e.kids[b] = Elements(g, b) /\ e.keys[b] = g.string[b]
  BY ForestFields
<1>3. KeepsKeys(h, g, x) => Forest!SameKeys(f, e, x)
  BY <1>1, <1>2 DEF KeepsKeys, Forest!SameKeys
<1>4. SetsKids(h, g, a, s) /\ a \in g.live => Forest!Only(f, e, a, s)
  BY <1>1, <1>2 DEF SetsKids, Forest!Only, Forest!SameKids
<1> QED BY <1>3, <1>4

\* A root is put in the list of a, after it has got a name perhaps.
LEMMA ForestAdd ==
  ASSUME NEW h, Good(h), NEW a \in h.live, NEW x \in Roots(h), a \notin Reach(h, x),
         NEW n, NEW k, NEW h1, Renames(h, h1, x, k),
         NEW g, Becomes(h1, g, a, InsertAt(Elements(h, a), n, x))
  PROVE  Forest!Add(ForestOf(h), ForestOf(g), a, n, x, k)
<1>1. PICK f : f = ForestOf(h)
  OBVIOUS
<1>2. PICK e : e = ForestOf(g)
  OBVIOUS
<1>3. Forest!Live(f) = h.live /\ f.kids[a] = Elements(h, a)
  BY <1>1, ForestFields
<1>4. x \in h.live /\ g.live = h.live /\ g.string[x] = k
  BY DEF Renames, Becomes, Roots
<1>5. Forest!Live(e) = h.live /\ e.keys[x] = k
  BY <1>2, <1>4, ForestFields
<1>6. KeepsKeys(h, g, x) /\ SetsKids(h, g, a, InsertAt(Elements(h, a), n, x))
  BY DEF Renames, Becomes, KeepsKeys, SetsKids
<1>7. Forest!SameKeys(f, e, x) /\ Forest!Only(f, e, a, InsertAt(Elements(h, a), n, x))
  BY <1>1, <1>2, <1>4, <1>6, ForestChange
<1>8. Forest!Only(f, e, a, Forest!InsertAt(f.kids[a], n, x))
  BY <1>3, <1>7, SameOperators
<1>9. x \in Forest!Roots(f) /\ a \in Forest!Live(f) \ Forest!Below(f, x)
  BY <1>1, <1>3, ForestRoots, BelowRoot
<1>10. Forest!Add(f, e, a, n, x, k)
  BY <1>3, <1>5, <1>7, <1>8, <1>9 DEF Forest!Add, Forest!Addable, Forest!Rename
<1> QED BY <1>1, <1>2, <1>10

LEMMA RenamesItself == ASSUME NEW h, NEW x PROVE Renames(h, h, x, h.string[x])
  BY DEF Renames

\* A root has got a name, and nothing else has changed.
LEMMA ForestRename ==
  ASSUME NEW h, NEW x \in Roots(h), NEW k, NEW g, Renames(h, g, x, k)
  PROVE  /\ ForestOf(g).kids = ForestOf(h).kids
         /\ Forest!Rename(ForestOf(h), ForestOf(g), x, k)
<1>1. PICK f : f = ForestOf(h)
  OBVIOUS
<1>2. PICK e : e = ForestOf(g)
  OBVIOUS
<1>3. g.live = h.live /\ KeepsKeys(h, g, x) /\ x \in h.live /\ g.string[x] = k
  BY DEF Renames, KeepsKeys, Roots
<1>4. e.kids = f.kids
  BY <1>1, <1>2, <1>3 DEF ForestOf, Renames
<1>5. Forest!SameKeys(f, e, x) /\ e.keys[x] = k
  <2>1. Forest!SameKeys(f, e, x)
    BY <1>1, <1>2, <1>3, ForestChange
  <2> QED BY <1>2, <1>3, <2>1, ForestFields
<1>6. Forest!Rename(f, e, x, k)
  BY <1>5 DEF Forest!Rename
<1> QED BY <1>1, <1>2, <1>4, <1>6

LEMMA OnePlace ==
  ASSUME NEW h, Good(h), NEW a \in h.live, NEW s, s = Elements(h, a),
         NEW i \in 1..Len(s), NEW j \in 1..Len(s), s[i] = s[j]
  PROVE  i = j
  BY ElementsList DEF IsInjective

LEMMA ForestTakeOut ==
  ASSUME NEW h, Good(h), NEW a \in h.live, NEW y \in h.live, h.parent[y] = a,
         NEW n \in 1..Len(Elements(h, a)), Elements(h, a)[n] = y
  PROVE  Forest!TakeOut(ForestOf(h), ForestOf(Detached(h, a, y)), a, n)
<1>1. PICK g : g = Detached(h, a, y)
  OBVIOUS
<1>2. PICK s : s = Elements(h, a)
  OBVIOUS
<1>3. Becomes(h, g, a, RemoveAt(s, n))
  <2>1. PICK k \in 1..Len(s) : s[k] = y /\ Becomes(h, g, a, RemoveAt(s, k))
    BY <1>1, <1>2, DetachedSeq
  <2>2. k = n
    BY <1>2, <2>1, OnePlace
  <2> QED BY <2>1, <2>2
<1>4. PICK f : f = ForestOf(h)
  OBVIOUS
<1>5. PICK e : e = ForestOf(g)
  OBVIOUS
<1>6. Forest!Live(f) = h.live /\ f.kids[a] = s
  BY <1>2, <1>4, ForestFields
<1>7. g.live = h.live /\ g.string = h.string /\ Forest!Live(e) = h.live
  BY <1>3, <1>5, ForestFields DEF Becomes
<1>8. e.keys = f.keys
  BY <1>4, <1>5, <1>7 DEF ForestOf
<1>9. SetsKids(h, g, a, RemoveAt(s, n))
  BY <1>3 DEF Becomes, SetsKids
<1>10. Forest!Only(f, e, a, Forest!RemoveAt(f.kids[a], n))
  <2>1. Forest!Only(f, e, a, RemoveAt(s, n))
    BY <1>4, <1>5, <1>7, <1>9, ForestChange
  <2> QED BY <1>6, <2>1, SameOperators
<1>11. Forest!TakeOut(f, e, a, n)
  BY <1>6, <1>7, <1>8, <1>10 DEF Forest!TakeOut
<1> QED BY <1>1, <1>4, <1>5, <1>11

LEMMA ForestDelete ==
  ASSUME NEW h, Good(h), NEW x \in Roots(h)
  PROVE  Forest!Delete(ForestOf(h), ForestOf(Freed(h, x)), x)
<1>1. PICK g : g = Freed(h, x)
  OBVIOUS
<1>2. PICK f : f = ForestOf(h)
  OBVIOUS
<1>3. PICK e : e = ForestOf(g)
  OBVIOUS
<1>4. /\ g.live = h.live \ Reach(h, x)
      /\ \A b \in g.live : Elements(g, b) = Elements(h, b) /\ g.string[b] = h.string[b]
  BY <1>1, FreedSeq
<1>5. /\ Forest!Live(f) = h.live
      /\ \A b \in h.live : f.kids[b] = Elements(h, b) /\ f.keys[b] = h.string[b]
  BY <1>2, ForestFields
<1>6. /\ Forest!Live(e) = g.live
      /\ \A b \in g.live : e.kids[b] = Elements(g, b) /\ e.keys[b] = g.string[b]
  BY <1>3, ForestFields
<1>7. Forest!Kept(e, f)
  BY <1>4, <1>5, <1>6 DEF Forest!Kept
<1>8. x \in Forest!Roots(f)
  BY <1>2, ForestRoots
<1>9. Forest!Delete(f, e, x)
  BY <1>2, <1>4, <1>5, <1>6, <1>7, <1>8, BelowRoot DEF Forest!Delete
<1> QED BY <1>1, <1>2, <1>3, <1>9

LEMMA ForestDrop ==
  ASSUME NEW h, Good(h), NEW a \in h.live, NEW y \in h.live, h.parent[y] = a,
         NEW n \in 1..Len(Elements(h, a)), Elements(h, a)[n] = y
  PROVE  Forest!Drop(ForestOf(h), ForestOf(Freed(Detached(h, a, y), y)), a, n)
<1>1. PICK g : g = Detached(h, a, y)
  OBVIOUS
<1>2. PICK d : d = Freed(g, y)
  OBVIOUS
<1>3. PICK s : s = Elements(h, a)
  OBVIOUS
<1>4. s[n] = y /\ Becomes(h, g, a, RemoveAt(s, n))
  <2>1. PICK k \in 1..Len(s) : s[k] = y /\ Becomes(h, g, a, RemoveAt(s, k))
    BY <1>1, <1>3, DetachedSeq
  <2>2. k = n
    BY <1>3, <2>1, OnePlace
  <2> QED BY <1>3, <2>1, <2>2
<1>5. PICK f : f = ForestOf(h)
  OBVIOUS
<1>6. PICK e : e = ForestOf(d)
  OBVIOUS
<1>7. Good(g) /\ y \in Roots(g) /\ y \in g.live /\ a \in Items /\ y \in Items
  BY <1>1, <1>4, GoodDetached, HeapFields DEF Good, Becomes
<1>8. PICK R : R = Reach(g, y)
  OBVIOUS
<1>9. /\ y \in R /\ R \in SUBSET h.live
      /\ \A z \in R : z # y => h.parent[z] \in R
      /\ \A z \in h.live : h.parent[z] \in R => z \in R
  <2>1. g.live = h.live /\ g.parent = [h.parent EXCEPT ![y] = NULL]
    BY <1>1, <1>4, <1>7, DetachedFields DEF Good, Becomes
  <2>2. /\ y \in R /\ R \in SUBSET g.live
        /\ \A z \in g.live : g.parent[z] \in R => z \in R
    BY <1>7, <1>8, ReachClosed
  <2>3. \A z \in R : z # y => g.parent[z] \in R
    BY <1>7, <1>8, ReachFromRoot
  <2>4. \A z \in h.live : z # y => g.parent[z] = h.parent[z]
    BY <2>1, HeapFields DEF Good
  <2> QED BY <2>1, <2>2, <2>3, <2>4
<1>10. a \notin R
  BY <1>9, AboveIsOut
<1>11. Forest!Below(f, y) = R
  BY <1>5, <1>9, BelowIs
<1>12. /\ d.live = h.live \ R
       /\ \A b \in d.live : Elements(d, b) = Elements(g, b) /\ d.string[b] = h.string[b]
  BY <1>2, <1>4, <1>7, <1>8, FreedSeq DEF Becomes
<1>13. Forest!Live(f) = h.live /\ f.kids[a] = s /\ \A b \in h.live : f.keys[b] = h.string[b]
  BY <1>3, <1>5, ForestFields
<1>14. Forest!Live(e) = d.live
  BY <1>6, ForestFields
<1>15. e.keys = [b \in Forest!Live(e) |-> f.keys[b]]
  <2>1. e.keys = [b \in d.live |-> d.string[b]]
    BY <1>6 DEF ForestOf
  <2>2. \A b \in d.live : d.string[b] = f.keys[b]
    BY <1>12, <1>13
  <2> QED BY <1>14, <2>1, <2>2
<1>16. a \in d.live /\ SetsKids(h, d, a, RemoveAt(s, n))
  BY <1>4, <1>10, <1>12 DEF Becomes, SetsKids
<1>17. Forest!Only(f, e, a, Forest!RemoveAt(f.kids[a], n))
  <2>1. Forest!Only(f, e, a, RemoveAt(s, n))
    BY <1>5, <1>6, <1>16, ForestChange
  <2> QED BY <1>13, <2>1, SameOperators
<1>18. Forest!Drop(f, e, a, n)
  BY <1>4, <1>11, <1>12, <1>13, <1>14, <1>15, <1>17 DEF Forest!Drop
<1> QED BY <1>1, <1>2, <1>5, <1>6, <1>18

LEMMA ReplacedParent ==
  ASSUME NEW h \in Heap, NEW a \in Items, NEW y \in Items, NEW x \in Items, x # y
  PROVE  /\ \A z \in Items : z \notin {x, y} => Replaced(h, a, y, x).parent[z] = h.parent[z]
         /\ Replaced(h, a, y, x).parent[x] = a
<1> DEFINE uu == [h.parent EXCEPT ![y] = NULL, ![x] = a]
<1>1. Replaced(h, a, y, x) =
        [live |-> h.live, next |-> SwapNext(h.next, h.prev, h.child, a, y, x),
         prev |-> SwapPrev(h.next, h.prev, h.child, a, y, x),
         child |-> SwapChild(h.child, a, y, x), string |-> h.string, parent |-> uu]
  BY ReplacedFields
<1>2. Replaced(h, a, y, x).parent = uu
  BY <1>1
<1> QED BY <1>2, HeapFields

\* A root, which may have got a name, takes the place of y.
LEMMA ForestReplace ==
  ASSUME NEW h, Good(h), NEW a \in h.live, NEW x \in Roots(h), a \notin Reach(h, x),
         NEW y \in h.live, h.parent[y] = a,
         NEW n \in 1..Len(Elements(h, a)), Elements(h, a)[n] = y,
         NEW k, NEW h1, Good(h1), Renames(h, h1, x, k), h1.parent = h.parent,
         a \notin Reach(h1, x)
  PROVE  Forest!Replace(ForestOf(h), ForestOf(Freed(Replaced(h1, a, y, x), y)), a, n, x, k)
<1>1. PICK g : g = Replaced(h1, a, y, x)
  OBVIOUS
<1>2. PICK d : d = Freed(g, y)
  OBVIOUS
<1>3. PICK s : s = Elements(h, a)
  OBVIOUS
<1>4. /\ h1.live = h.live /\ s = Elements(h1, a)
      /\ x \in Roots(h1) /\ x \in h.live /\ x \in Items /\ a \in Items /\ y \in Items
      /\ h.parent[x] = NULL /\ x # y /\ NULL \notin h.live
  BY <1>3, HeapFields DEF Good, Renames, Roots
<1>5. s[n] = y /\ Becomes(h1, g, a, ReplaceAt(s, n, x))
  <2>1. PICK i \in 1..Len(s) : s[i] = y /\ Becomes(h1, g, a, ReplaceAt(s, i, x))
    BY <1>1, <1>4, ReplacedSeq
  <2>2. i = n
    BY <1>3, <2>1, OnePlace
  <2> QED BY <1>3, <2>1, <2>2
<1>6. PICK f : f = ForestOf(h)
  OBVIOUS
<1>7. PICK e : e = ForestOf(d)
  OBVIOUS
<1>8. Good(g) /\ y \in Roots(g) /\ g.live = h.live
  BY <1>1, <1>4, <1>5, GoodReplaced DEF Becomes
<1>9. PICK R : R = Reach(g, y)
  OBVIOUS
<1>10. /\ y \in R /\ R \in SUBSET h.live /\ a \notin R /\ x \notin R
       /\ \A z \in R : z # y => h.parent[z] \in R
       /\ \A z \in h.live : h.parent[z] \in R => z \in R
  <2>2. /\ y \in R /\ R \in SUBSET h.live
        /\ \A z \in h.live : g.parent[z] \in R => z \in R
    BY <1>8, <1>9, ReachClosed
  <2>3. \A z \in R : z # y => g.parent[z] \in R
    BY <1>8, <1>9, ReachFromRoot
  <2>4. /\ \A z \in h.live : z \notin {x, y} => g.parent[z] = h.parent[z]
        /\ g.parent[x] = a
    <3>1. h1 \in Heap /\ h.live \in SUBSET Items
      BY HeapFields DEF Good
    <3> QED BY <1>1, <1>4, <3>1, ReplacedParent
  <2>5. a \notin R
    <3> DEFINE D == R \ Reach(h, x)
    <3>1. \A z \in h.live : h.parent[z] \in Reach(h, x) => z \in Reach(h, x)
      BY <1>4, ReachClosed
    <3>2. SUFFICES ASSUME a \in R PROVE FALSE
      OBVIOUS
    <3>3. x \in Reach(h, x)
      BY <1>4, ReachClosed
    <3>4. ASSUME NEW z \in D PROVE h.parent[z] \in D
      <4>1. z # x /\ z \in h.live
        BY <2>2, <3>3
      <4>2. h.parent[z] \in R
        BY <2>3, <2>4, <3>2, <4>1
      <4> QED BY <3>1, <4>1, <4>2
    <3>5. D \in SUBSET h.live /\ a \in D
      BY <2>2, <3>2
    <3> HIDE DEF D
    <3> QED BY <3>4, <3>5 DEF Good, Grounded
  <2>6. x \notin R
    BY <1>4, <2>3, <2>4, <2>5
  <2> QED BY <1>4, <2>2, <2>3, <2>4, <2>5, <2>6
<1>11. Forest!Below(f, y) = R
  BY <1>6, <1>10, BelowIs
<1>12. /\ d.live = h.live \ R
       /\ \A b \in d.live : Elements(d, b) = Elements(g, b) /\ d.string[b] = h1.string[b]
  BY <1>2, <1>5, <1>8, <1>9, FreedSeq DEF Becomes
<1>13. Forest!Live(f) = h.live /\ f.kids[a] = s
  BY <1>3, <1>6, ForestFields
<1>14. Forest!Live(e) = d.live
  BY <1>7, ForestFields
<1>15. /\ a \in d.live /\ SetsKids(h, d, a, ReplaceAt(s, n, x))
       /\ KeepsKeys(h, d, x) /\ d.string[x] = k
  <2>1. \A b \in h.live \ {a} : Elements(g, b) = Elements(h, b)
    BY <1>4, <1>5 DEF Becomes, Renames
  <2>2. \A b \in h.live \ {x} : h1.string[b] = h.string[b]
    BY DEF Renames
  <2>3. a \in d.live /\ Elements(d, a) = ReplaceAt(s, n, x)
    BY <1>5, <1>10, <1>12 DEF Becomes
  <2>4. d.string[x] = k
    BY <1>4, <1>10, <1>12 DEF Renames
  <2> QED BY <1>12, <2>1, <2>2, <2>3, <2>4 DEF SetsKids, KeepsKeys
<1>16. Forest!SameKeys(f, e, x) /\ Forest!Only(f, e, a, Forest!ReplaceAt(f.kids[a], n, x))
  BY <1>6, <1>7, <1>13, <1>15, ForestChange, SameOperators
<1>17. Forest!Rename(f, e, x, k)
  BY <1>4, <1>7, <1>10, <1>12, <1>15, <1>16, ForestFields DEF Forest!Rename
<1>18. Forest!Replace(f, e, a, n, x, k)
  BY <1>5, <1>11, <1>12, <1>13, <1>14, <1>16, <1>17 DEF Forest!Replace
<1> QED BY <1>1, <1>2, <1>6, <1>7, <1>18

LEMMA SameInjective == ASSUME NEW s PROVE Forest!IsInjective(s) <=> IsInjective(s)
  BY DEF IsInjective, Forest!IsInjective

\* g has all that h has, and as it is in h.
Keeps(h, g) ==
  /\ h.live \subseteq g.live
  /\ \A b \in h.live : Elements(g, b) = Elements(h, b) /\ g.string[b] = h.string[b]

KeepsFields(h, g) ==
  /\ h.live \subseteq g.live
  /\ \A z \in h.live : /\ g.next[z] = h.next[z] /\ g.child[z] = h.child[z]
                       /\ g.string[z] = h.string[z]
LEMMA FieldsKept ==
  ASSUME NEW h, Good(h), NEW g, Good(g), KeepsFields(h, g) PROVE Keeps(h, g)
<1>1. \A b \in h.live : Elements(g, b) = Elements(h, b)
  BY ElementsSame DEF KeepsFields
<1> QED BY <1>1 DEF Keeps, KeepsFields

LEMMA ForestKept ==
  ASSUME NEW h, NEW g, Keeps(h, g)
  PROVE  Forest!Kept(ForestOf(h), ForestOf(g))
<1>1. PICK f : f = ForestOf(h)
  OBVIOUS
<1>2. PICK e : e = ForestOf(g)
  OBVIOUS
<1>3. /\ Forest!Live(f) = h.live
      /\ \A b \in h.live : f.kids[b] = Elements(h, b) /\ f.keys[b] = h.string[b]
  BY <1>1, ForestFields
<1>4. /\ Forest!Live(e) = g.live
      /\ \A b \in g.live : e.kids[b] = Elements(g, b) /\ e.keys[b] = g.string[b]
  BY <1>2, ForestFields
<1> QED BY <1>1, <1>2, <1>3, <1>4 DEF Keeps, Forest!Kept

LEMMA ForestNewRoot ==
  ASSUME NEW h, NEW g, Keeps(h, g), NEW x \in g.live \ h.live, g.string[x] = NULL,
         NEW s, s = Elements(g, x), NEW xs, IsInjective(s), ToSet(s) = xs,
         xs = g.live \ (h.live \cup {x}),
         \A y \in xs : Elements(g, y) = <<>> /\ g.string[y] = NULL
  PROVE  Forest!NewRoot(ForestOf(h), ForestOf(g), x, xs)
<1>1. PICK f : f = ForestOf(h)
  OBVIOUS
<1>2. PICK e : e = ForestOf(g)
  OBVIOUS
<1>3. Forest!Kept(f, e)
  BY <1>1, <1>2, ForestKept
<1>4. Forest!Live(f) = h.live /\ Forest!Live(e) = g.live
  BY <1>1, <1>2, ForestFields
<1>5. \A b \in g.live : e.kids[b] = Elements(g, b) /\ e.keys[b] = g.string[b]
  BY <1>2, ForestFields
<1>6. /\ Forest!IsInjective(e.kids[x]) /\ Forest!ToSet(e.kids[x]) = xs /\ e.keys[x] = NULL
      /\ \A y \in xs : e.kids[y] = <<>> /\ e.keys[y] = NULL
  BY <1>5, SameToSet, SameInjective
<1>7. /\ Forest!Live(e) = Forest!Live(f) \cup {x} \cup xs /\ x \notin Forest!Live(f) \cup xs
      /\ xs \cap Forest!Live(f) = {}
  BY <1>4 DEF Keeps
<1>8. Forest!NewRoot(f, e, x, xs)
  BY <1>3, <1>6, <1>7 DEF Forest!NewRoot
<1> QED BY <1>1, <1>2, <1>8

LEMMA ForestCreateItem ==
  ASSUME NEW h, Good(h), NEW x \in Items \ h.live
  PROVE  Forest!NewRoot(ForestOf(h), ForestOf(Allocated(h, {x})), x, {})
<1>0. PICK xs : xs = {x}
  OBVIOUS
<1>1. PICK g : g = Allocated(h, xs)
  OBVIOUS
<1>2. /\ g.live = h.live \cup {x} /\ g.string = h.string /\ Elements(g, x) = <<>>
      /\ \A b \in h.live : Elements(g, b) = Elements(h, b)
  BY <1>0, <1>1, AllocatedSeq
<1>3. PICK s : s = Elements(g, x)
  OBVIOUS
<1>4. IsInjective(s) /\ ToSet(s) = {}
  BY <1>2, <1>3 DEF IsInjective, ToSet
<1>5. /\ Keeps(h, g) /\ x \in g.live \ h.live /\ {} = g.live \ (h.live \cup {x})
      /\ g.string[x] = NULL
  BY <1>2 DEF Keeps, Good, Blanked
<1>6. Forest!NewRoot(ForestOf(h), ForestOf(g), x, {})
  BY <1>3, <1>4, <1>5, ForestNewRoot
<1> QED BY <1>0, <1>1, <1>6

\* The elements of a new array are all there, each once, and empty.
LEMMA ForestCreateArray ==
  ASSUME NEW h, Good(h), NEW x \in Items \ h.live, NEW xs \in SUBSET (Items \ h.live),
         x \notin xs, NEW first \in xs,
         NEW after \in Bijection(xs, (xs \ {first}) \cup {NULL}),
         NEW g, g = ArrayOf(h, x, xs, first, after), InList(g, x) = xs
  PROVE  Forest!NewRoot(ForestOf(h), ForestOf(g), x, xs)
<1>1. Good(g)
  BY GoodArray
<1>2. /\ g.live = h.live \cup {x} \cup xs /\ g.string = h.string
      /\ g.child = [h.child EXCEPT ![x] = first]
      /\ g.next = [y \in Items |-> IF y \in xs THEN after[y] ELSE h.next[y]]
  BY HeapIsRecord DEF ArrayOf, Good
<1>3. h.live \in SUBSET Items /\ h.child \in [Items -> Items \cup {NULL}]
  BY HeapFields DEF Good
<1>4. PICK s : s = Elements(g, x)
  OBVIOUS
<1>5. IsInjective(s) /\ \A y : y \in ToSet(s) <=> y \in g.live /\ g.parent[y] = x
  BY <1>1, <1>2, <1>4, ElementsList
<1>6. \A y : y \in xs <=> y \in g.live /\ g.parent[y] = x
  BY <1>1, <1>2, InListIsParent
<1>7. ToSet(s) = xs
  BY <1>5, <1>6
<1>8. ASSUME NEW y \in xs PROVE Elements(g, y) = <<>> /\ g.string[y] = NULL
  <2>1. g.child[y] = NULL /\ y \in g.live /\ g.string[y] = NULL
    BY <1>2, <1>3 DEF Good, Blanked
  <2> QED BY <1>1, <2>1, NoElements
<1>9. ASSUME NEW b \in h.live PROVE Elements(g, b) = Elements(h, b)
  <2>1. g.child[b] = h.child[b] /\ b \in g.live
    BY <1>2, <1>3
  <2>2. \A z \in h.live : h.parent[z] = b => g.next[z] = h.next[z]
    BY <1>2, <1>3
  <2> QED BY <1>1, <2>1, <2>2, ElementsSame
<1>10. Keeps(h, g)
  BY <1>2, <1>9 DEF Keeps
<1>11. /\ x \in g.live \ h.live /\ xs = g.live \ (h.live \cup {x}) /\ g.string[x] = NULL
  BY <1>2 DEF Good, Blanked
<1> QED BY <1>4, <1>5, <1>7, <1>8, <1>10, <1>11, ForestNewRoot

LEMMA InsertAtEnd ==
  ASSUME NEW S, NEW s \in Seq(S), NEW x \in S, NEW k \in 1..(Len(s) + 1)
  PROVE  k = Len(s) + 1 => InsertAt(s, k, x) = Append(s, x)
<1>1. /\ InsertAt(s, k, x) \in Seq(S) /\ Len(InsertAt(s, k, x)) = Len(s) + 1
      /\ \A i \in 1..(Len(s) + 1) :
           InsertAt(s, k, x)[i] = IF i < k THEN s[i] ELSE IF i = k THEN x ELSE s[i - 1]
  BY InsertAtIs, SMTT(60)
<1>2. PICK t : t = InsertAt(s, k, x)
  OBVIOUS
<1>3. PICK u : u = Append(s, x)
  OBVIOUS
<1>4. /\ t \in Seq(S) /\ Len(t) = Len(s) + 1
      /\ \A i \in 1..(Len(s) + 1) : t[i] = IF i < k THEN s[i] ELSE IF i = k THEN x ELSE s[i - 1]
  BY <1>1, <1>2, Zenon
<1>5. /\ u \in Seq(S) /\ Len(u) = Len(s) + 1 /\ u[Len(s) + 1] = x
      /\ \A i \in 1..Len(s) : u[i] = s[i]
  BY <1>3, AppendProperties
<1>6. Len(s) \in Nat /\ k \in Nat
  BY LenProperties
<1>7. SUFFICES ASSUME k = Len(s) + 1 PROVE t = u
  BY <1>2, <1>3
<1>8. \A i \in 1..Len(u) : t[i] = u[i]
  <2> TAKE i \in 1..Len(u)
  <2>1. i \in 1..(Len(s) + 1) /\ (i < k => i \in 1..Len(s)) /\ (~(i < k) => i = k)
    BY <1>5, <1>6, <1>7
  <2> QED BY <1>4, <1>5, <1>7, <2>1
<1> QED BY <1>4, <1>5, <1>8, SeqEqual

\* What cJSON_AddNumberToObject and its like create goes to the end of the list.
LEMMA ForestGrow ==
  ASSUME TreeInv, NEW x \in Unused, NEW a \in heap.live, NEW k \in Names
  PROVE  Forest!AddNewToObject(ForestOf(heap),
           ForestOf(Appended(Named(Allocated(heap, {x}), x, k), a, x)), a, k, x)
<1>1. PICK h : h = heap
  OBVIOUS
<1>2. PICK xs : xs = {x}
  OBVIOUS
<1>3. PICK h1 : h1 = Allocated(h, xs)
  OBVIOUS
<1>4. PICK h2 : h2 = Named(h1, x, k)
  OBVIOUS
<1>5. PICK g : g = Appended(h2, a, x)
  OBVIOUS
<1>6. Good(h) /\ x \in Items \ h.live /\ a \in h.live /\ a # x
  BY <1>1 DEF TreeInv, Unused
<1>7. /\ Good(h1) /\ h1.live = h.live \cup {x} /\ h1.string = h.string
      /\ Elements(h1, x) = <<>>
      /\ \A b \in h.live : Elements(h1, b) = Elements(h, b)
  BY <1>2, <1>3, <1>6, AllocatedSeq
<1>8. x \in Roots(h1) /\ a \notin Reach(h1, x)
  BY <1>1, <1>2, <1>3, AllocatedAlone
<1>9. /\ Good(h2) /\ Roots(h2) = Roots(h1) /\ h2.live = h1.live /\ Reach(h2, x) = Reach(h1, x)
      /\ Renames(h1, h2, x, k)
  BY <1>4, <1>7, GoodNamed, NamedRenames
<1>10. PICK s : s = Elements(h2, a)
  OBVIOUS
<1>11. Becomes(h2, g, a, InsertAt(s, Len(s) + 1, x)) /\ s \in Seq(Items)
  BY <1>5, <1>6, <1>7, <1>8, <1>9, <1>10, AppendedSeq, ElementsList DEF Listing
<1>12. Becomes(h2, g, a, Append(s, x))
  <2>1. x \in Items
    BY <1>6
  <2>2. Len(s) \in Nat
    BY <1>11, LenProperties
  <2>3. PICK n \in 1..(Len(s) + 1) : n = Len(s) + 1
    BY <2>2
  <2>4. InsertAt(s, n, x) = Append(s, x)
    BY <1>11, <2>1, <2>3, InsertAtEnd
  <2> QED BY <1>11, <2>3, <2>4
<1>13. s = Elements(h, a)
  BY <1>6, <1>7, <1>9, <1>10 DEF Renames
<1>14. /\ g.live = h.live \cup {x} /\ Elements(g, x) = <<>> /\ g.string[x] = k
       /\ SetsKids(h, g, a, Append(s, x)) /\ KeepsKeys(h, g, x)
  BY <1>6, <1>7, <1>9, <1>12 DEF Becomes, Renames, SetsKids, KeepsKeys
<1>15. PICK f : f = ForestOf(h)
  OBVIOUS
<1>16. PICK e : e = ForestOf(g)
  OBVIOUS
<1>17. Forest!Live(f) = h.live /\ f.kids[a] = s
  BY <1>6, <1>13, <1>15, ForestFields
<1>18. Forest!Live(e) = h.live \cup {x} /\ e.kids[x] = <<>> /\ e.keys[x] = k
  BY <1>14, <1>16, ForestFields
<1>19. Forest!SameKeys(f, e, x) /\ Forest!Only(f, e, a, Append(f.kids[a], x))
  BY <1>6, <1>14, <1>15, <1>16, <1>17, ForestChange
<1>20. x # NULL
  BY <1>6, TreeAssumption
<1>21. Forest!AddNewToObject(f, e, a, k, x)
  BY <1>6, <1>17, <1>18, <1>19, <1>20 DEF Forest!AddNewToObject, Forest!Rename
<1> QED BY <1>1, <1>2, <1>3, <1>4, <1>5, <1>15, <1>16, <1>21

\* g is h with a copy of the items of F, of which x is the topmost: c gives each
\* its copy.
CopiesTo(h, g, x, F, new, c) ==
  /\ c \in [F -> new] /\ IsInjective(c) /\ ToSet(c) = new
  /\ g.live = h.live \cup new
  /\ \A z \in h.live : /\ g.next[z] = h.next[z] /\ g.child[z] = h.child[z]
                       /\ g.string[z] = h.string[z]
  /\ \A y \in F : /\ g.string[c[y]] = h.string[y]
                  /\ g.child[c[y]] = IF h.child[y] \in F THEN c[h.child[y]] ELSE NULL
                  /\ y # x /\ h.next[y] = NULL => g.next[c[y]] = NULL
                  /\ y # x /\ h.next[y] # NULL => g.next[c[y]] = c[h.next[y]]

LEMMA DuplicatedCopies ==
  ASSUME NEW h, Good(h), NEW x \in h.live, NEW recurse \in BOOLEAN,
         NEW new \in SUBSET (Items \ h.live), NEW F, F = Copied(h, x, recurse),
         NEW orig \in Bijection(new, F), NEW g, g = Duplicated(h, {x}, orig)
  PROVE  \E c : CopiesTo(h, g, x, F, new, c) /\ \A y \in F : orig[c[y]] = y
<1> DEFINE Copy(y) == One({z \in new : orig[z] = y})
           InPlace(y) == IF y \in {x} THEN NULL ELSE Copy(y)
           c == [y \in F |-> Copy(y)]
<1>1. /\ orig \in [new -> F] /\ DOMAIN orig = new
      /\ \A y, z \in new : orig[y] = orig[z] => y = z
      /\ \A t \in F : \E z \in new : orig[z] = t
  BY DEF Bijection, Injection, Surjection, IsInjective
<1>2. h.live \in SUBSET Items /\ new \in SUBSET Items /\ NULL \notin Items
  BY HeapFields DEF Good
<1>3. /\ g.live = h.live \cup new
      /\ \A z \in Items : z \notin new => /\ g.next[z] = h.next[z] /\ g.child[z] = h.child[z]
                                        /\ g.string[z] = h.string[z]
      /\ \A z \in new : /\ g.next[z] = IF orig[z] \in {x} THEN NULL ELSE InPlace(h.next[orig[z]])
                        /\ g.child[z] = InPlace(h.child[orig[z]])
                        /\ g.string[z] = h.string[orig[z]]
  BY <1>1, <1>2 DEF Duplicated
<1>4. \A z \in new : Copy(orig[z]) = z
  <2>1. SUFFICES ASSUME NEW z \in new PROVE Copy(orig[z]) = z
    OBVIOUS
  <2>2. {w \in new : orig[w] = orig[z]} = {z}
    BY <1>1
  <2> QED BY <2>2, OneOf
<1>5. \A y : y \notin F => Copy(y) = NULL
  <2>1. SUFFICES ASSUME NEW y, y \notin F PROVE Copy(y) = NULL
    OBVIOUS
  <2>2. {w \in new : orig[w] = y} = {}
    BY <1>1, <2>1
  <2> QED BY <2>2 DEF One
<1> HIDE DEF Copy
<1>6. \A y \in F : Copy(y) \in new /\ orig[Copy(y)] = y
  BY <1>1, <1>4
<1>7. c \in [F -> new] /\ \A y \in F : c[y] = Copy(y) /\ orig[c[y]] = y
  BY <1>6
<1> HIDE DEF c
<1>8. IsInjective(c)
  BY <1>7 DEF IsInjective
<1>9. ToSet(c) = new
  <2>1. \A z \in new : z = c[orig[z]] /\ orig[z] \in F
    BY <1>1, <1>4, <1>7
  <2> QED BY <1>7, <2>1 DEF ToSet
<1>10. \A z \in h.live : /\ g.next[z] = h.next[z] /\ g.child[z] = h.child[z]
                         /\ g.string[z] = h.string[z]
  BY <1>2, <1>3
<1>11. ASSUME NEW y \in F
       PROVE  /\ g.string[c[y]] = h.string[y]
              /\ g.child[c[y]] = IF h.child[y] \in F THEN c[h.child[y]] ELSE NULL
              /\ y # x /\ h.next[y] = NULL => g.next[c[y]] = NULL
              /\ y # x /\ h.next[y] # NULL => g.next[c[y]] = c[h.next[y]]
  <2>1. c[y] \in new /\ orig[c[y]] = y
    BY <1>7
  <2>2. /\ g.string[c[y]] = h.string[y] /\ g.child[c[y]] = Copy(h.child[y])
        /\ y # x => g.next[c[y]] = Copy(h.next[y])
    <3>1. h.child[y] # x /\ (y # x => h.next[y] # x)
      BY <1>2, CopiedClosed
    <3> QED BY <1>3, <2>1, <3>1
  <2>3. NULL \notin F /\ (y # x => h.next[y] \in F \cup {NULL})
    BY <1>2, CopiedClosed
  <2>4. \A z : Copy(z) = IF z \in F THEN c[z] ELSE NULL
    BY <1>5, <1>7
  <2>5. g.child[c[y]] = IF h.child[y] \in F THEN c[h.child[y]] ELSE NULL
    BY <2>2, <2>4
  <2>6. y # x => g.next[c[y]] = IF h.next[y] \in F THEN c[h.next[y]] ELSE NULL
    BY <2>2, <2>4
  <2> QED BY <2>2, <2>3, <2>5, <2>6
<1>12. CopiesTo(h, g, x, F, new, c)
  BY <1>3, <1>7, <1>8, <1>9, <1>10, <1>11 DEF CopiesTo
<1> QED BY <1>7, <1>12

\* The copies have the sequences of what they copy.
LEMMA CopiedSeq ==
  ASSUME NEW h, Good(h), NEW g, Good(g), NEW x \in h.live, NEW F \in SUBSET h.live,
         x \in F, \A y \in F : y # x => h.parent[y] \in F,
         \A y \in h.live : h.parent[y] \in F => y \in F,
         NEW new \in SUBSET Items, NEW c, CopiesTo(h, g, x, F, new, c),
         NEW y \in F, NEW s, s = Elements(h, y)
  PROVE  Elements(g, c[y]) = [i \in 1..Len(s) |-> c[s[i]]]
<1>0. y \in h.live
  OBVIOUS
<1>1. /\ Listing(h.next, h.child[y], s)
      /\ \A i \in 1..Len(s) : s[i] \in h.live /\ h.parent[s[i]] = y
  BY <1>0, ElementsList
<1>2. h.parent[x] \notin F
  BY AboveIsOut
<1>3. \A i \in 1..Len(s) : s[i] \in F /\ s[i] # x
  BY <1>1, <1>2
<1>4. Links(h.live, h.next, h.prev, h.child, h.parent) /\ NULL \notin h.live
  BY HeapFields DEF Good, ListsOf, Lists
<1>5. \A i \in 1..Len(s) :
        g.next[c[s[i]]] = IF h.next[s[i]] = NULL THEN NULL ELSE c[h.next[s[i]]]
  BY <1>3 DEF CopiesTo
<1>6. \A i \in 1..Len(s) : c[s[i]] \in Items
  BY <1>3 DEF CopiesTo
<1>7. g.child[c[y]] = IF h.child[y] = NULL THEN NULL ELSE c[h.child[y]]
  <2>1. h.child[y] # NULL => h.child[y] \in F
    BY <1>4 DEF Links
  <2>2. NULL \notin F
    BY <1>4
  <2> QED BY <2>1, <2>2 DEF CopiesTo
<1>8. Listing(g.next, g.child[c[y]], [i \in 1..Len(s) |-> c[s[i]]])
  <2> DEFINE n == h.next
             head == h.child[y]
             nn == g.next
             newhead == g.child[c[y]]
  <2>1. /\ Listing(n, head, s)
        /\ \A i \in 1..Len(s) : c[s[i]] \in Items
        /\ \A i \in 1..Len(s) : nn[c[s[i]]] = IF n[s[i]] = NULL THEN NULL ELSE c[n[s[i]]]
        /\ newhead = IF head = NULL THEN NULL ELSE c[head]
    BY <1>1, <1>5, <1>6, <1>7
  <2> HIDE DEF n, head, nn, newhead
  <2>2. Listing(nn, newhead, [i \in 1..Len(s) |-> c[s[i]]])
    BY <2>1, ListingCopy
  <2> QED BY <2>2 DEF nn, newhead
<1>9. c[y] \in g.live
  BY DEF CopiesTo
<1> QED BY <1>8, <1>9, ElementsAre

\* cJSON_Duplicate makes a copy of x, with or without what is in it: w.
LEMMA ForestDuplicate ==
  ASSUME NEW h, Good(h), NEW x \in h.live, NEW recurse \in BOOLEAN,
         NEW new \in SUBSET (Items \ h.live), NEW F, F = Copied(h, x, recurse),
         NEW orig \in Bijection(new, F), NEW g, g = Duplicated(h, {x}, orig),
         NEW w \in new, orig[w] = x
  PROVE  Forest!Duplicate(ForestOf(h), ForestOf(g), x, recurse, w)
<1>1. Good(g)
  BY GoodDuplicated
<1>2. PICK c : CopiesTo(h, g, x, F, new, c) /\ \A y \in F : orig[c[y]] = y
  BY DuplicatedCopies
<1>3. /\ F \in SUBSET h.live /\ x \in F /\ \A y \in F : y # x => h.parent[y] \in F
      /\ h.child[x] # x
  BY CopiedClosed
<1>4. /\ c \in [F -> new] /\ IsInjective(c) /\ ToSet(c) = new /\ g.live = h.live \cup new
      /\ new \cap h.live = {}
  BY <1>2 DEF CopiesTo
<1>5. c[x] = w
  <2>1. \A y, z \in new : orig[y] = orig[z] => y = z
    BY DEF Bijection, Injection, IsInjective
  <2>2. c[x] \in new /\ orig[c[x]] = x
    BY <1>2, <1>3, <1>4
  <2> QED BY <2>1, <2>2
<1>6. Keeps(h, g)
  <2>1. KeepsFields(h, g)
    BY <1>2 DEF CopiesTo, KeepsFields
  <2> QED BY <1>1, <2>1, FieldsKept
<1>7. PICK f : f = ForestOf(h)
  OBVIOUS
<1>8. PICK e : e = ForestOf(g)
  OBVIOUS
<1>9. /\ Forest!Live(f) = h.live
      /\ \A b \in h.live : f.kids[b] = Elements(h, b) /\ f.keys[b] = h.string[b]
  BY <1>7, ForestFields
<1>10. /\ Forest!Live(e) = g.live
       /\ \A b \in g.live : e.kids[b] = Elements(g, b) /\ e.keys[b] = g.string[b]
  BY <1>8, ForestFields
<1>11. Forest!New(f, e) = new
  BY <1>4, <1>9, <1>10 DEF Forest!New
<1>12. F = IF recurse THEN Forest!Below(f, x) ELSE {x}
  <2>1. CASE recurse = TRUE
    BY <1>7, <2>1, BelowCopied
  <2>2. CASE recurse = FALSE
    BY <2>2 DEF Copied
  <2> QED BY <2>1, <2>2
<1>13. ASSUME NEW y \in F
       PROVE  /\ e.keys[c[y]] = f.keys[y]
              /\ e.kids[c[y]] = IF recurse THEN [i \in DOMAIN f.kids[y] |-> c[f.kids[y][i]]]
                                ELSE <<>>
  <2>1. y \in h.live /\ c[y] \in g.live /\ g.string[c[y]] = h.string[y]
    BY <1>2, <1>3, <1>4 DEF CopiesTo
  <2>2. e.keys[c[y]] = f.keys[y]
    BY <1>9, <1>10, <2>1
  <2>3. CASE recurse = TRUE
    <3>1. \A z \in h.live : h.parent[z] \in F => z \in F
      BY <2>3, CopiedDown
    <3>2. PICK s : s = Elements(h, y)
      OBVIOUS
    <3>3. Elements(g, c[y]) = [i \in 1..Len(s) |-> c[s[i]]]
      BY <1>1, <1>2, <1>3, <3>1, <3>2, CopiedSeq
    <3>4. DOMAIN s = 1..Len(s)
      BY <2>1, <3>2, ElementsList
    <3>5. f.kids[y] = s /\ e.kids[c[y]] = [i \in 1..Len(s) |-> c[s[i]]]
      BY <1>9, <1>10, <2>1, <3>2, <3>3
    <3>6. e.kids[c[y]] = [i \in DOMAIN f.kids[y] |-> c[f.kids[y][i]]]
      BY <3>4, <3>5
    <3> QED BY <2>2, <2>3, <3>6
  <2>4. CASE recurse = FALSE
    <3>1. F = {x} /\ y = x
      BY <2>4 DEF Copied
    <3>2. g.child[c[y]] = NULL
      BY <1>2, <1>3, <3>1 DEF CopiesTo
    <3>3. Elements(g, c[y]) = <<>>
      BY <1>1, <2>1, <3>2, NoElements
    <3> QED BY <1>10, <2>1, <2>2, <2>4, <3>3
  <2> QED BY <2>3, <2>4
<1>14. Forest!Kept(f, e)
  BY <1>6, <1>7, <1>8, ForestKept
<1>15. Forest!IsInjective(c) /\ Forest!ToSet(c) = new
  BY <1>4, SameToSet, SameInjective
<1>16. w # NULL
  BY TreeAssumption
<1>17. Forest!Duplicate(f, e, x, recurse, w)
  <2>1. PICK from : from = IF recurse THEN Forest!Below(f, x) ELSE {x}
    OBVIOUS
  <2>2. /\ c \in [from -> Forest!New(f, e)] /\ Forest!IsInjective(c)
        /\ Forest!ToSet(c) = Forest!New(f, e) /\ c[x] = w
        /\ \A z \in from :
             /\ e.keys[c[z]] = f.keys[z]
             /\ e.kids[c[z]] = IF recurse THEN [i \in DOMAIN f.kids[z] |-> c[f.kids[z][i]]]
                               ELSE <<>>
    BY <1>4, <1>5, <1>11, <1>12, <1>13, <1>15, <2>1
  <2> QED BY <1>14, <1>16, <2>1, <2>2 DEF Forest!Duplicate
<1> QED BY <1>7, <1>8, <1>17

-----------------------------------------------------------------------------
(* Where get_array_item and get_object_item find an item. *)

\* y is at one of the places, or NULL if there are none.
Finds(h, a, y, places) ==
  /\ y = NULL => places = {}
  /\ y # NULL => /\ y \in h.live /\ h.parent[y] = a
                 /\ \E i \in places : i \in 1..Len(Elements(h, a)) /\ Elements(h, a)[i] = y

LEMMA ArrayItemFound ==
  ASSUME NEW h, Good(h), NEW a \in h.live, NEW n \in Nat
  PROVE  Finds(h, a, GetArrayItem(h, a, n), Forest!At(ForestOf(h), a, n))
<1>1. PICK s : s = Elements(h, a)
  OBVIOUS
<1>2. PICK f : f = ForestOf(h)
  OBVIOUS
<1>3. PICK y : y = GetArrayItem(h, a, n)
  OBVIOUS
<1>4. DOMAIN s = 1..Len(s) /\ \A i \in 1..Len(s) : s[i] \in h.live /\ h.parent[s[i]] = a
  BY <1>1, ElementsList
<1>5. Forest!At(f, a, n) = {i \in 1..Len(s) : i = n + 1}
  <2>1. f.kids[a] = s
    BY <1>1, <1>2, ForestFields
  <2> QED BY <1>4, <2>1 DEF Forest!At
<1>6. y = IF n + 1 \in 1..Len(s) THEN s[n + 1] ELSE NULL
  BY <1>1, <1>3, ArrayItemIs
<1>7. NULL \notin h.live
  BY HeapFields DEF Good
<1>8. PICK places : places = Forest!At(f, a, n)
  OBVIOUS
<1>9. Finds(h, a, y, places)
  BY <1>1, <1>4, <1>5, <1>6, <1>7, <1>8 DEF Finds
<1> QED BY <1>2, <1>3, <1>8, <1>9

LEMMA ObjectItemFound ==
  ASSUME NEW h, Good(h), NEW a \in h.live, NEW k \in Names, NEW sensitive \in BOOLEAN
  PROVE  Finds(h, a, GetObjectItem(h, a, k, sensitive), Forest!NamedAt(ForestOf(h), a, k, sensitive))
<1>1. PICK s : s = Elements(h, a)
  OBVIOUS
<1>2. PICK f : f = ForestOf(h)
  OBVIOUS
<1>3. PICK y : y = GetObjectItem(h, a, k, sensitive)
  OBVIOUS
<1>4. /\ DOMAIN s = 1..Len(s) /\ Len(s) \in Nat
      /\ \A i \in 1..Len(s) : s[i] \in h.live /\ h.parent[s[i]] = a
  BY <1>1, ElementsList
<1>5. PICK T : T = {i \in 1..Len(s) : Stops(h.string[s[i]], k, sensitive)}
  OBVIOUS
<1>6. /\ T = {} => y = NULL
      /\ T # {} => \E m \in T : /\ \A i \in T : m <= i
                                /\ y = IF h.string[s[m]] = NULL THEN NULL ELSE s[m]
  BY <1>1, <1>3, <1>5, ObjectItemIs
<1>7. NULL \notin h.live /\ NULL \notin Names
  BY HeapFields, TreeAssumption DEF Good
<1> DEFINE key(i) == h.string[s[i]]
           Is(i) == Forest!IsNamed(key(i), k, sensitive)
<1>8. PICK places : places = Forest!NamedAt(f, a, k, sensitive)
  OBVIOUS
<1>9. \A i : i \in places <=>
        i \in 1..Len(s) /\ Is(i) /\ \A j \in 1..(i - 1) : ~Is(j) /\ (sensitive => key(j) # NULL)
  <2>1. f.kids[a] = s /\ \A i \in 1..Len(s) : f.keys[s[i]] = key(i)
    BY <1>1, <1>2, <1>4, ForestFields
  <2>2. \A i \in 1..Len(s) : \A j \in 1..(i - 1) : j \in 1..Len(s)
    BY <1>4
  <2>3. places = {i \in 1..Len(s) :
          /\ Forest!IsNamed(f.keys[s[i]], k, sensitive)
          /\ \A j \in 1..(i - 1) :
               ~Forest!IsNamed(f.keys[s[j]], k, sensitive) /\ (sensitive => f.keys[s[j]] # NULL)}
    BY <1>4, <1>8, <2>1 DEF Forest!NamedAt
  <2> QED BY <2>1, <2>2, <2>3
<1>10. \A i : Is(i) => key(i) # NULL /\ Stops(key(i), k, sensitive)
  BY DEF Forest!IsNamed, Stops
<1>11. \A i : Stops(key(i), k, sensitive) /\ key(i) # NULL => Is(i)
  BY DEF Forest!IsNamed, Stops
<1>12. \A i : sensitive /\ key(i) = NULL => Stops(key(i), k, sensitive)
  BY DEF Stops
<1>13. \A i : Stops(key(i), k, sensitive) /\ key(i) = NULL => sensitive
  BY DEF Stops
<1>14. \A i : i \in T <=> i \in 1..Len(s) /\ Stops(key(i), k, sensitive)
  BY <1>5
<1> HIDE DEF key, Is
<1>15. CASE T = {}
  <2>1. places = {} /\ y = NULL
    BY <1>6, <1>9, <1>10, <1>14, <1>15
  <2>2. Finds(h, a, y, places)
    BY <2>1 DEF Finds
  <2> QED BY <1>2, <1>3, <1>8, <2>2
<1>16. CASE T # {}
  <2>1. PICK m \in T : /\ \A i \in T : m <= i
                       /\ y = IF h.string[s[m]] = NULL THEN NULL ELSE s[m]
    BY <1>6, <1>16
  <2>2. m \in 1..Len(s) /\ Stops(key(m), k, sensitive)
    BY <1>14
  <2>3. \A j \in 1..(m - 1) : ~Is(j) /\ (sensitive => key(j) # NULL)
    <3>1. \A j \in 1..(m - 1) : j \in 1..Len(s) /\ ~(m <= j)
      BY <1>4, <2>2
    <3> QED BY <1>10, <1>12, <1>14, <2>1, <3>1
  <2>4. CASE key(m) = NULL
    <3>1. y = NULL /\ sensitive
      BY <1>13, <2>1, <2>2, <2>4 DEF key
    <3>2. ASSUME NEW i \in places PROVE FALSE
      <4>1. i \in 1..Len(s) /\ Is(i) /\ i \in T
        BY <1>9, <1>10, <1>14
      <4>2. m <= i /\ m # i
        BY <1>10, <2>1, <2>4, <4>1
      <4>3. m \in 1..(i - 1)
        BY <1>4, <2>2, <4>1, <4>2
      <4> QED BY <1>9, <2>4, <3>1, <4>3
    <3>3. Finds(h, a, y, places)
      BY <3>1, <3>2 DEF Finds
    <3> QED BY <1>2, <1>3, <1>8, <3>3
  <2>5. CASE key(m) # NULL
    <3>1. y = s[m]
      BY <2>1, <2>5 DEF key
    <3>2. m \in places
      BY <1>9, <1>11, <2>2, <2>3, <2>5
    <3>3. y # NULL /\ y \in h.live /\ h.parent[y] = a
      BY <1>4, <1>7, <2>2, <3>1
    <3>4. Finds(h, a, y, places)
      BY <1>1, <2>2, <3>1, <3>2, <3>3 DEF Finds
    <3> QED BY <1>2, <1>3, <1>8, <3>4
  <2> QED BY <2>4, <2>5
<1> QED BY <1>15, <1>16

-----------------------------------------------------------------------------
(* Each call is the step of JsonForest that has its name. *)

StepIs(op, args, answer) == Forest!Step(ForestOf(heap), ForestOf(heap'), op, args, answer)
MapsToStep == StepIs(call'.op, call'.args, call'.answer)

LEMMA DidMaps ==
  ASSUME NEW op, NEW args, NEW answer, Did(op, args, answer), StepIs(op, args, answer)
  PROVE  MapsToStep
<1>1. call'.op = op /\ call'.args = args /\ call'.answer = answer
  BY DEF Did
<1> QED BY <1>1 DEF MapsToStep

LEMMA CreateMaps == ASSUME TreeInv, Create PROVE MapsToStep
<1>1. ASSUME NEW x \in Unused, heap' = Allocated(heap, {x}), Did("Create", <<>>, x)
      PROVE  MapsToStep
  <2>1. Forest!NewRoot(ForestOf(heap), ForestOf(heap'), x, {}) /\ x # NULL
    BY <1>1, ForestCreateItem, TreeAssumption DEF TreeInv, Unused
  <2>2. StepIs("Create", <<>>, x)
    BY <2>1 DEF StepIs, Forest!Step, Forest!Create
  <2> QED BY <1>1, <2>2, DidMaps
<1>2. CASE (Nothing \/ \E x \in Unused : GivenUp(x)) /\ Did("Create", <<>>, NULL)
  <2>1. heap' = heap
    BY <1>2, GivenUpIsNothing DEF Nothing
  <2>2. StepIs("Create", <<>>, NULL)
    BY <2>1 DEF StepIs, Forest!Step, Forest!Create
  <2> QED BY <1>2, <2>2, DidMaps
<1> QED BY <1>1, <1>2 DEF Create

LEMMA CreateArrayMaps == ASSUME TreeInv, CreateArray PROVE MapsToStep
<1>1. CASE heap' = heap /\ held' = held /\ Did("CreateArray", <<>>, NULL)
  <2>1. StepIs("CreateArray", <<>>, NULL)
    BY <1>1 DEF StepIs, Forest!Step, Forest!CreateArray
  <2> QED BY <1>1, <2>1, DidMaps
<1>2. ASSUME NEW x \in Unused, NEW xs \in SUBSET Unused, NEW first \in xs,
             NEW after \in Bijection(xs, (xs \ {first}) \cup {NULL}),
             ArrayMade(x, xs, first, after)
      PROVE  MapsToStep
  <2>1. PICK g : g = ArrayOf(heap, x, xs, first, after)
    OBVIOUS
  <2>2. /\ x \notin xs /\ InList(g, x) = xs /\ heap' = g /\ Did("CreateArray", <<>>, x)
        /\ x \in Items \ heap.live /\ xs \in SUBSET (Items \ heap.live) /\ Good(heap)
    BY <1>2, <2>1 DEF ArrayMade, TreeInv, Unused
  <2>3. PICK f : f = ForestOf(heap)
    OBVIOUS
  <2>4. PICK e : e = ForestOf(heap')
    OBVIOUS
  <2>5. Forest!NewRoot(f, e, x, xs)
    BY <2>1, <2>2, <2>3, <2>4, ForestCreateArray
  <2>6. xs = Forest!Live(e) \ (Forest!Live(f) \cup {x}) /\ x # NULL
    BY <2>2, <2>5, TreeAssumption DEF Forest!NewRoot
  <2>7. StepIs("CreateArray", <<>>, x)
    BY <2>3, <2>4, <2>5, <2>6 DEF StepIs, Forest!Step, Forest!CreateArray
  <2> QED BY <2>2, <2>7, DidMaps
<1> QED BY <1>1, <1>2, CreateArrayCases

\* A root, which has got name k, is added behind what is in a.
LEMMA ForestAppend ==
  ASSUME NEW h, Good(h), NEW a \in h.live, NEW x \in Roots(h), a \notin Reach(h, x), NEW k,
         NEW h1, Good(h1), Renames(h, h1, x, k), x \in Roots(h1), a \notin Reach(h1, x),
         NEW f, f = ForestOf(h)
  PROVE  Forest!Add(f, ForestOf(Appended(h1, a, x)), a, Len(f.kids[a]) + 1, x, k)
<1>1. PICK s : s = Elements(h1, a)
  OBVIOUS
<1>2. a \in h1.live /\ s = Elements(h, a)
  BY <1>1 DEF Renames
<1>3. PICK g : g = Appended(h1, a, x)
  OBVIOUS
<1>4. PICK n : n = Len(s) + 1
  OBVIOUS
<1>5. Becomes(h1, g, a, InsertAt(Elements(h, a), n, x))
  BY <1>1, <1>2, <1>3, <1>4, AppendedSeq
<1>6. Forest!Add(f, ForestOf(g), a, n, x, k)
  BY <1>5, ForestAdd
<1>7. f.kids[a] = s
  BY <1>2, ForestFields
<1> QED BY <1>3, <1>4, <1>6, <1>7

LEMMA AddItemToArrayMaps ==
  ASSUME TreeInv, NEW a \in heap.live, NEW x \in Addable(a), AddItemToArray(a, x)
  PROVE  MapsToStep
<1>1. heap' = Appended(heap, a, x) /\ Did("AddItemToArray", <<a, x>>, TRUE)
  BY DEF AddItemToArray
<1>2. x \in Roots(heap) /\ x \in heap.live /\ a \notin Reach(heap, x) /\ Good(heap)
  BY AddableIsRoot DEF TreeInv
<1>3. PICK f : f = ForestOf(heap)
  OBVIOUS
<1>4. PICK k : k = heap.string[x]
  OBVIOUS
<1>5. Renames(heap, heap, x, k) /\ f.keys[x] = k
  BY <1>2, <1>3, <1>4, RenamesItself, ForestFields
<1>6. Forest!Add(f, ForestOf(heap'), a, Len(f.kids[a]) + 1, x, f.keys[x])
  BY <1>1, <1>2, <1>3, <1>5, ForestAppend
<1>7. PICK args : args = <<a, x>>
  OBVIOUS
<1>8. args[1] = a /\ args[2] = x
  BY <1>7
<1>9. StepIs("AddItemToArray", args, TRUE)
  BY <1>3, <1>6, <1>8 DEF StepIs, Forest!Step, Forest!AddItemToArray
<1> QED BY <1>1, <1>7, <1>9, DidMaps

\* What the caller may add, it may add when it has a name as well.
LEMMA AddableNamed ==
  ASSUME TreeInv, NEW a \in heap.live, NEW k \in Names, NEW x \in Addable(a),
         NEW h1, h1 = Named(heap, x, k)
  PROVE  /\ Good(heap) /\ x \in Roots(heap) /\ a \notin Reach(heap, x)
         /\ Good(h1) /\ Renames(heap, h1, x, k) /\ h1.parent = heap.parent
         /\ x \in Roots(h1) /\ a \notin Reach(h1, x)
<1>1. /\ x \in Roots(heap) /\ a \notin Reach(heap, x) /\ Good(heap) /\ x \in heap.live
  BY AddableIsRoot DEF TreeInv
<1>2. /\ Good(h1) /\ Roots(h1) = Roots(heap) /\ h1.parent = heap.parent
      /\ Reach(h1, x) = Reach(heap, x)
  BY <1>1, GoodNamed
<1>3. Renames(heap, h1, x, k)
  BY <1>1, NamedRenames
<1> QED BY <1>1, <1>2, <1>3

LEMMA AddItemToObjectMaps ==
  ASSUME TreeInv, NEW a \in heap.live, NEW k \in Names, NEW x \in Addable(a),
         AddItemToObject(a, k, x)
  PROVE  MapsToStep
<1>1. PICK args : args = <<a, k, x>>
  OBVIOUS
<1>2. args[1] = a /\ args[2] = k /\ args[3] = x
  BY <1>1
<1>3. CASE heap' = Appended(Named(heap, x, k), a, x) /\ Did("AddItemToObject", <<a, k, x>>, TRUE)
  <2>1. PICK h1 : h1 = Named(heap, x, k)
    OBVIOUS
  <2>2. PICK f : f = ForestOf(heap)
    OBVIOUS
  <2>3. /\ Good(heap) /\ x \in Roots(heap) /\ a \notin Reach(heap, x)
        /\ Good(h1) /\ Renames(heap, h1, x, k) /\ x \in Roots(h1) /\ a \notin Reach(h1, x)
    BY <2>1, AddableNamed
  <2>4. Forest!Add(f, ForestOf(heap'), a, Len(f.kids[a]) + 1, x, k)
    BY <1>3, <2>1, <2>2, <2>3, ForestAppend
  <2>5. StepIs("AddItemToObject", args, TRUE)
    BY <1>2, <2>2, <2>4 DEF StepIs, Forest!Step, Forest!AddItemToObject
  <2> QED BY <1>1, <1>3, <2>5, DidMaps
<1>4. CASE Nothing /\ Did("AddItemToObject", <<a, k, x>>, FALSE)
  <2>1. StepIs("AddItemToObject", args, FALSE)
    BY <1>4 DEF StepIs, Forest!Step, Forest!AddItemToObject, Nothing
  <2> QED BY <1>1, <1>4, <2>1, DidMaps
<1> QED BY <1>3, <1>4 DEF AddItemToObject

LEMMA AddNewToObjectMaps ==
  ASSUME TreeInv, NEW a \in heap.live, NEW k \in Names, AddNewToObject(a, k)
  PROVE  MapsToStep
<1>1. PICK args : args = <<a, k>>
  OBVIOUS
<1>2. args[1] = a /\ args[2] = k
  BY <1>1
<1>3. ASSUME NEW x \in Unused, heap' = Appended(Named(Allocated(heap, {x}), x, k), a, x),
             Did("AddNewToObject", <<a, k>>, x)
      PROVE  MapsToStep
  <2>1. Forest!AddNewToObject(ForestOf(heap), ForestOf(heap'), a, k, x)
    BY <1>3, ForestGrow
  <2>2. StepIs("AddNewToObject", args, x)
    BY <1>2, <2>1 DEF StepIs, Forest!Step
  <2> QED BY <1>1, <1>3, <2>2, DidMaps
<1>4. CASE (Nothing \/ \E x \in Unused : GivenUp(x)) /\ Did("AddNewToObject", <<a, k>>, NULL)
  <2>1. heap' = heap
    BY <1>4, GivenUpIsNothing DEF Nothing
  <2>2. StepIs("AddNewToObject", args, NULL)
    BY <2>1 DEF StepIs, Forest!Step, Forest!AddNewToObject
  <2> QED BY <1>1, <1>4, <2>2, DidMaps
<1> QED BY <1>3, <1>4 DEF AddNewToObject

LEMMA InsertItemInArrayMaps ==
  ASSUME TreeInv, NEW a \in heap.live, NEW n \in Nat, NEW x \in Addable(a),
         InsertItemInArray(a, n, x)
  PROVE  MapsToStep
<1>1. PICK y : y = GetArrayItem(heap, a, n)
  OBVIOUS
<1>2. /\ heap' = IF y = NULL THEN Appended(heap, a, x) ELSE Inserted(heap, a, y, x)
      /\ Did("InsertItemInArray", <<a, n, x>>, TRUE)
  BY <1>1 DEF InsertItemInArray
<1>3. x \in Roots(heap) /\ x \in heap.live /\ a \notin Reach(heap, x) /\ Good(heap)
  BY AddableIsRoot DEF TreeInv
<1>4. PICK f : f = ForestOf(heap)
  OBVIOUS
<1>5. PICK k : k = heap.string[x]
  OBVIOUS
<1>6. Renames(heap, heap, x, k) /\ f.keys[x] = k /\ f.kids[a] = Elements(heap, a)
  BY <1>3, <1>4, <1>5, RenamesItself, ForestFields
<1>7. PICK places : places = Forest!At(f, a, n)
  OBVIOUS
<1>8. Finds(heap, a, y, places)
  BY <1>1, <1>3, <1>4, <1>7, ArrayItemFound
<1>9. \E i \in places \cup {j \in {Len(f.kids[a]) + 1} : places = {}} :
        Forest!Add(f, ForestOf(heap'), a, i, x, f.keys[x])
  <2>1. CASE y = NULL
    <3>1. heap' = Appended(heap, a, x) /\ places = {}
      BY <1>2, <1>8, <2>1 DEF Finds
    <3>2. Forest!Add(f, ForestOf(heap'), a, Len(f.kids[a]) + 1, x, f.keys[x])
      BY <1>3, <1>4, <1>6, <3>1, ForestAppend
    <3> QED BY <3>1, <3>2
  <2>2. CASE y # NULL
    <3>1. PICK s : s = Elements(heap, a)
      OBVIOUS
    <3>2. PICK i \in places : i \in 1..Len(s) /\ s[i] = y
      BY <1>8, <2>2, <3>1 DEF Finds
    <3>3. y \in heap.live /\ heap.parent[y] = a
      BY <1>8, <2>2 DEF Finds
    <3>4. PICK j \in 1..Len(s) : s[j] = y /\ Becomes(heap, heap', a, InsertAt(s, j, x))
      BY <1>2, <1>3, <2>2, <3>1, <3>3, InsertedSeq
    <3>5. j = i
      BY <1>3, <3>1, <3>2, <3>4, OnePlace
    <3>6. Forest!Add(f, ForestOf(heap'), a, i, x, f.keys[x])
      BY <1>3, <1>4, <1>6, <3>1, <3>4, <3>5, ForestAdd
    <3> QED BY <3>6
  <2> QED BY <2>1, <2>2
<1>10. PICK args : args = <<a, n, x>>
  OBVIOUS
<1>11. args[1] = a /\ args[2] = n /\ args[3] = x
  BY <1>10
<1>12. Forest!InsertItemInArray(f, ForestOf(heap'), a, n, x, TRUE)
  BY <1>7, <1>9 DEF Forest!InsertItemInArray
<1>13. StepIs("InsertItemInArray", args, TRUE)
  BY <1>4, <1>11, <1>12 DEF StepIs, Forest!Step
<1> QED BY <1>2, <1>10, <1>13, DidMaps

\* What Detach, DeleteItem and ReplaceItem do with what was found.
LEMMA DetachIs ==
  ASSUME TreeInv, NEW a \in heap.live, NEW y, NEW places, Finds(heap, a, y, places), Detach(a, y)
  PROVE  Forest!DetachItem(ForestOf(heap), ForestOf(heap'), a, places, y)
<1>1. CASE y = NULL
  BY <1>1 DEF Detach, Nothing, Finds, Forest!DetachItem
<1>2. CASE y # NULL
  <2>1. PICK f : f = ForestOf(heap)
    OBVIOUS
  <2>2. PICK i \in places : i \in 1..Len(Elements(heap, a)) /\ Elements(heap, a)[i] = y
    BY <1>2 DEF Finds
  <2>3. y \in heap.live /\ heap.parent[y] = a /\ heap' = Detached(heap, a, y) /\ Good(heap)
    BY <1>2 DEF Finds, Detach, TreeInv
  <2>4. Forest!TakeOut(f, ForestOf(heap'), a, i)
    BY <2>1, <2>2, <2>3, ForestTakeOut
  <2>5. f.kids[a][i] = y
    BY <2>1, <2>2, ForestFields
  <2> QED BY <2>1, <2>4, <2>5 DEF Forest!DetachItem
<1> QED BY <1>1, <1>2

LEMMA DeleteItemIs ==
  ASSUME TreeInv, NEW a \in heap.live, NEW y, NEW places, Finds(heap, a, y, places),
         DeleteItem(a, y)
  PROVE  Forest!DeleteItem(ForestOf(heap), ForestOf(heap'), a, places)
<1>1. CASE y = NULL
  BY <1>1 DEF DeleteItem, Finds, Forest!DeleteItem
<1>2. CASE y # NULL
  <2>1. PICK i \in places : i \in 1..Len(Elements(heap, a)) /\ Elements(heap, a)[i] = y
    BY <1>2 DEF Finds
  <2>2. /\ y \in heap.live /\ heap.parent[y] = a /\ heap' = Freed(Detached(heap, a, y), y)
        /\ Good(heap)
    BY <1>2 DEF Finds, DeleteItem, TreeInv
  <2>3. Forest!Drop(ForestOf(heap), ForestOf(heap'), a, i)
    BY <2>1, <2>2, ForestDrop
  <2> QED BY <2>3 DEF Forest!DeleteItem
<1> QED BY <1>1, <1>2

LEMMA ReplaceItemIs ==
  ASSUME TreeInv, NEW a \in heap.live, NEW x \in Roots(heap), a \notin Reach(heap, x),
         NEW k, NEW h1, Good(h1), Renames(heap, h1, x, k), h1.parent = heap.parent,
         a \notin Reach(h1, x),
         NEW y, NEW places, Finds(heap, a, y, places), ReplaceItem(h1, a, y, x)
  PROVE  IF y = NULL THEN heap' = h1 /\ places = {}
         ELSE \E i \in places : Forest!Replace(ForestOf(heap), ForestOf(heap'), a, i, x, k)
<1>1. CASE y = NULL
  BY <1>1 DEF ReplaceItem, Finds
<1>2. CASE y # NULL
  <2>1. PICK i \in places : i \in 1..Len(Elements(heap, a)) /\ Elements(heap, a)[i] = y
    BY <1>2 DEF Finds
  <2>2. /\ y \in heap.live /\ heap.parent[y] = a /\ heap' = Freed(Replaced(h1, a, y, x), y)
        /\ Good(heap)
    BY <1>2 DEF Finds, ReplaceItem, TreeInv
  <2>3. Forest!Replace(ForestOf(heap), ForestOf(heap'), a, i, x, k)
    BY <2>1, <2>2, ForestReplace
  <2> QED BY <1>2, <2>3
<1> QED BY <1>1, <1>2

LEMMA FromArrayMaps ==
  ASSUME TreeInv, NEW a \in heap.live, NEW n \in Nat,
         DetachItemFromArray(a, n) \/ DeleteItemFromArray(a, n)
  PROVE  MapsToStep
<1>1. PICK y : y = GetArrayItem(heap, a, n)
  OBVIOUS
<1>2. PICK places : places = Forest!At(ForestOf(heap), a, n)
  OBVIOUS
<1>3. Finds(heap, a, y, places)
  BY <1>1, <1>2, ArrayItemFound DEF TreeInv
<1>4. PICK args : args = <<a, n>>
  OBVIOUS
<1>5. args[1] = a /\ args[2] = n
  BY <1>4
<1>6. CASE Detach(a, y) /\ Did("DetachItemFromArray", <<a, n>>, y)
  <2>1. Forest!DetachItem(ForestOf(heap), ForestOf(heap'), a, places, y)
    BY <1>3, <1>6, DetachIs
  <2>2. StepIs("DetachItemFromArray", args, y)
    BY <1>2, <1>5, <2>1 DEF StepIs, Forest!Step
  <2> QED BY <1>4, <1>6, <2>2, DidMaps
<1>7. CASE DeleteItem(a, y) /\ Did("DeleteItemFromArray", <<a, n>>, NULL)
  <2>1. Forest!DeleteItem(ForestOf(heap), ForestOf(heap'), a, places)
    BY <1>3, <1>7, DeleteItemIs
  <2>2. StepIs("DeleteItemFromArray", args, NULL)
    BY <1>2, <1>5, <2>1 DEF StepIs, Forest!Step
  <2> QED BY <1>4, <1>7, <2>2, DidMaps
<1> QED BY <1>1, <1>6, <1>7 DEF DetachItemFromArray, DeleteItemFromArray

LEMMA FromObjectMaps ==
  ASSUME TreeInv, NEW a \in heap.live, NEW k \in Names, NEW sensitive \in BOOLEAN,
         DetachItemFromObject(a, k, sensitive) \/ DeleteItemFromObject(a, k, sensitive)
  PROVE  MapsToStep
<1>1. PICK y : y = GetObjectItem(heap, a, k, sensitive)
  OBVIOUS
<1>2. PICK places : places = Forest!NamedAt(ForestOf(heap), a, k, sensitive)
  OBVIOUS
<1>3. Finds(heap, a, y, places)
  BY <1>1, <1>2, ObjectItemFound DEF TreeInv
<1>4. PICK args : args = <<a, k, sensitive>>
  OBVIOUS
<1>5. args[1] = a /\ args[2] = k /\ args[3] = sensitive
  BY <1>4
<1>6. CASE Detach(a, y) /\ Did("DetachItemFromObject", <<a, k, sensitive>>, y)
  <2>1. Forest!DetachItem(ForestOf(heap), ForestOf(heap'), a, places, y)
    BY <1>3, <1>6, DetachIs
  <2>2. StepIs("DetachItemFromObject", args, y)
    BY <1>2, <1>5, <2>1 DEF StepIs, Forest!Step
  <2> QED BY <1>4, <1>6, <2>2, DidMaps
<1>7. CASE DeleteItem(a, y) /\ Did("DeleteItemFromObject", <<a, k, sensitive>>, NULL)
  <2>1. Forest!DeleteItem(ForestOf(heap), ForestOf(heap'), a, places)
    BY <1>3, <1>7, DeleteItemIs
  <2>2. StepIs("DeleteItemFromObject", args, NULL)
    BY <1>2, <1>5, <2>1 DEF StepIs, Forest!Step
  <2> QED BY <1>4, <1>7, <2>2, DidMaps
<1> QED BY <1>1, <1>6, <1>7 DEF DetachItemFromObject, DeleteItemFromObject

LEMMA ReplaceItemInArrayMaps ==
  ASSUME TreeInv, NEW a \in heap.live, NEW n \in Nat, NEW x \in Addable(a),
         ReplaceItemInArray(a, n, x)
  PROVE  MapsToStep
<1>1. PICK y : y = GetArrayItem(heap, a, n)
  OBVIOUS
<1>2. ReplaceItem(heap, a, y, x) /\ Did("ReplaceItemInArray", <<a, n, x>>, y # NULL)
  BY <1>1 DEF ReplaceItemInArray
<1>3. x \in Roots(heap) /\ x \in heap.live /\ a \notin Reach(heap, x) /\ Good(heap)
  BY AddableIsRoot DEF TreeInv
<1>4. PICK f : f = ForestOf(heap)
  OBVIOUS
<1>5. PICK k : k = heap.string[x]
  OBVIOUS
<1>6. Renames(heap, heap, x, k) /\ f.keys[x] = k
  BY <1>3, <1>4, <1>5, RenamesItself, ForestFields
<1>7. PICK places : places = Forest!At(f, a, n)
  OBVIOUS
<1>8. Finds(heap, a, y, places)
  BY <1>1, <1>3, <1>4, <1>7, ArrayItemFound
<1>9. IF y = NULL THEN heap' = heap /\ places = {}
      ELSE \E i \in places : Forest!Replace(f, ForestOf(heap'), a, i, x, f.keys[x])
  BY <1>2, <1>3, <1>4, <1>6, <1>8, ReplaceItemIs
<1>10. PICK args : args = <<a, n, x>>
  OBVIOUS
<1>11. args[1] = a /\ args[2] = n /\ args[3] = x
  BY <1>10
<1>12. PICK done \in BOOLEAN : done = (y # NULL)
  OBVIOUS
<1>13. Forest!ReplaceItemInArray(f, ForestOf(heap'), a, n, x, done)
  <2>1. done <=> places # {}
    BY <1>9, <1>12
  <2>2. IF done THEN \E i \in places : Forest!Replace(f, ForestOf(heap'), a, i, x, f.keys[x])
        ELSE ForestOf(heap') = f
    BY <1>4, <1>9, <1>12
  <2> QED BY <1>7, <2>1, <2>2 DEF Forest!ReplaceItemInArray
<1>14. StepIs("ReplaceItemInArray", args, done)
  BY <1>4, <1>11, <1>13 DEF StepIs, Forest!Step
<1> QED BY <1>2, <1>10, <1>12, <1>14, DidMaps

LEMMA ReplaceItemInObjectMaps ==
  ASSUME TreeInv, NEW a \in heap.live, NEW k \in Names, NEW sensitive \in BOOLEAN,
         NEW x \in Addable(a), ReplaceItemInObject(a, k, sensitive, x)
  PROVE  MapsToStep
<1>1. PICK y : y = GetObjectItem(heap, a, k, sensitive)
  OBVIOUS
<1>2. PICK args : args = <<a, k, sensitive, x>>
  OBVIOUS
<1>3. args[1] = a /\ args[2] = k /\ args[3] = sensitive /\ args[4] = x
  BY <1>2
<1>4. PICK f : f = ForestOf(heap)
  OBVIOUS
<1>5. CASE ReplaceItem(Named(heap, x, k), a, y, x) /\ Did("ReplaceItemInObject", args, y # NULL)
  <2>1. PICK h1 : h1 = Named(heap, x, k)
    OBVIOUS
  <2>2. /\ Good(heap) /\ x \in Roots(heap) /\ a \notin Reach(heap, x)
        /\ Good(h1) /\ Renames(heap, h1, x, k) /\ h1.parent = heap.parent
        /\ a \notin Reach(h1, x)
    BY <2>1, AddableNamed
  <2>3. PICK places : places = Forest!NamedAt(f, a, k, sensitive)
    OBVIOUS
  <2>4. Finds(heap, a, y, places)
    BY <1>1, <1>4, <2>2, <2>3, ObjectItemFound
  <2>5. IF y = NULL THEN heap' = h1 /\ places = {}
        ELSE \E i \in places : Forest!Replace(f, ForestOf(heap'), a, i, x, k)
    BY <1>4, <1>5, <2>1, <2>2, <2>4, ReplaceItemIs
  <2>6. PICK done \in BOOLEAN : done = (y # NULL)
    OBVIOUS
  <2>7. Forest!ReplaceItemInObject(f, ForestOf(heap'), a, k, sensitive, x, done)
    <3>1. CASE y = NULL
      <4>1. /\ ForestOf(heap').kids = f.kids /\ Forest!Rename(f, ForestOf(heap'), x, k)
            /\ places = {} /\ ~done
        BY <1>4, <2>2, <2>5, <2>6, <3>1, ForestRename
      <4> QED BY <2>3, <4>1 DEF Forest!ReplaceItemInObject
    <3>2. CASE y # NULL
      <4>1. done /\ \E i \in places : Forest!Replace(f, ForestOf(heap'), a, i, x, k)
        BY <2>5, <2>6, <3>2
      <4> QED BY <2>3, <4>1 DEF Forest!ReplaceItemInObject
    <3> QED BY <3>1, <3>2
  <2>8. StepIs("ReplaceItemInObject", args, done)
    BY <1>3, <1>4, <2>7 DEF StepIs, Forest!Step
  <2> QED BY <1>5, <2>6, <2>8, DidMaps
<1>6. CASE heap' = Named(heap, x, NULL) /\ Did("ReplaceItemInObject", args, FALSE)
  <2>1. x \in Roots(heap) /\ x \in heap.live /\ Good(heap)
    BY AddableIsRoot DEF TreeInv
  <2>2. PICK k0 \in Names \cup {NULL} : k0 = NULL
    OBVIOUS
  <2>3. Renames(heap, heap', x, k0)
    BY <1>6, <2>1, <2>2, NamedRenames
  <2>4. ForestOf(heap').kids = f.kids /\ Forest!Rename(f, ForestOf(heap'), x, NULL)
    BY <1>4, <2>1, <2>2, <2>3, ForestRename
  <2>5. Forest!ReplaceItemInObject(f, ForestOf(heap'), a, k, sensitive, x, FALSE)
    BY <2>4 DEF Forest!ReplaceItemInObject
  <2>6. StepIs("ReplaceItemInObject", args, FALSE)
    BY <1>3, <1>4, <2>5 DEF StepIs, Forest!Step
  <2> QED BY <1>6, <2>6, DidMaps
<1> QED BY <1>1, <1>2, <1>5, <1>6 DEF ReplaceItemInObject

LEMMA DeleteMaps == ASSUME TreeInv, NEW x \in held, Delete(x) PROVE MapsToStep
<1>1. Forest!Delete(ForestOf(heap), ForestOf(heap'), x) /\ Did("Delete", <<x>>, NULL)
  BY ForestDelete DEF Delete, TreeInv
<1>2. PICK args : args = <<x>>
  OBVIOUS
<1>3. args[1] = x
  BY <1>2
<1>4. StepIs("Delete", args, NULL)
  BY <1>1, <1>3 DEF StepIs, Forest!Step
<1> QED BY <1>1, <1>2, <1>4, DidMaps

LEMMA DuplicateMaps ==
  ASSUME TreeInv, NEW y \in heap.live, NEW recurse \in BOOLEAN, Duplicate(y, recurse)
  PROVE  MapsToStep
<1>1. PICK args : args = <<y, recurse>>
  OBVIOUS
<1>2. args[1] = y /\ args[2] = recurse
  BY <1>1
<1>3. CASE heap' = heap /\ held' = held /\ Did("Duplicate", <<y, recurse>>, NULL)
  <2>1. StepIs("Duplicate", args, NULL)
    BY <1>3 DEF StepIs, Forest!Step, Forest!Duplicate
  <2> QED BY <1>1, <1>3, <2>1, DidMaps
<1>4. CASE CopyMade(y, recurse)
  <2>1. PICK F : F = Copied(heap, y, recurse)
    OBVIOUS
  <2>2. PICK new \in SUBSET Unused : \E orig \in Bijection(new, F) :
          /\ heap' = Duplicated(heap, {y}, orig)
          /\ \E z \in new : orig[z] = y /\ Did("Duplicate", <<y, recurse>>, z)
    BY <1>4, <2>1 DEF CopyMade
  <2>3. PICK orig \in Bijection(new, F) :
          /\ heap' = Duplicated(heap, {y}, orig)
          /\ \E z \in new : orig[z] = y /\ Did("Duplicate", <<y, recurse>>, z)
    BY <2>2
  <2>4. PICK z \in new : orig[z] = y /\ Did("Duplicate", <<y, recurse>>, z)
    BY <2>3
  <2>5. new \in SUBSET (Items \ heap.live) /\ Good(heap)
    BY DEF Unused, TreeInv
  <2>6. Forest!Duplicate(ForestOf(heap), ForestOf(heap'), y, recurse, z)
    BY <2>1, <2>3, <2>4, <2>5, ForestDuplicate
  <2>7. StepIs("Duplicate", args, z)
    BY <1>2, <2>6 DEF StepIs, Forest!Step
  <2> QED BY <1>1, <2>4, <2>7, DidMaps
<1> QED BY <1>3, <1>4, DuplicateCases

LEMMA InitForest == ASSUME Init PROVE Forest!Init
<1>1. heap.live = {}
  BY DEF Init
<1>2. ForestOf(heap) = [kids |-> <<>>, keys |-> <<>>]
  BY <1>1 DEF ForestOf
<1> QED BY <1>2 DEF Forest!Init

LEMMA NextMaps == ASSUME TreeInv, Next PROVE MapsToStep
<1>1. CASE Create
  BY <1>1, CreateMaps
<1>2. CASE CreateArray
  BY <1>2, CreateArrayMaps
<1>3. ASSUME NEW a \in heap.live, NEW x \in Addable(a),
             \/ AddItemToArray(a, x)
             \/ \E k \in Names :
                  \/ AddItemToObject(a, k, x)
                  \/ \E sensitive \in BOOLEAN : ReplaceItemInObject(a, k, sensitive, x)
             \/ \E n \in 0..GetArraySize(heap, a) :
                  InsertItemInArray(a, n, x) \/ ReplaceItemInArray(a, n, x)
      PROVE  MapsToStep
  BY <1>3, AddItemToArrayMaps, AddItemToObjectMaps, ReplaceItemInObjectMaps,
     InsertItemInArrayMaps, ReplaceItemInArrayMaps
<1>4. ASSUME NEW a \in heap.live, NEW n \in 0..GetArraySize(heap, a),
             DetachItemFromArray(a, n) \/ DeleteItemFromArray(a, n)
      PROVE  MapsToStep
  BY <1>4, FromArrayMaps
<1>5. ASSUME NEW a \in heap.live, NEW k \in Names,
             \/ AddNewToObject(a, k)
             \/ \E sensitive \in BOOLEAN :
                  DetachItemFromObject(a, k, sensitive) \/ DeleteItemFromObject(a, k, sensitive)
      PROVE  MapsToStep
  BY <1>5, AddNewToObjectMaps, FromObjectMaps
<1>6. ASSUME NEW a \in heap.live, NEW recurse \in BOOLEAN, Duplicate(a, recurse)
      PROVE  MapsToStep
  BY <1>6, DuplicateMaps
<1>7. ASSUME NEW x \in held, Delete(x) PROVE MapsToStep
  BY <1>7, DeleteMaps
<1> QED BY <1>1, <1>2, <1>3, <1>4, <1>5, <1>6, <1>7 DEF Next

\* The links of cJSON implement sequences, for any number of items: what
\* get_array_item and cJSON_GetArraySize give of every array and object is a
\* sequence, and each call, with the array, place, name and item that it is
\* given, changes the one that it is about as its name says and answers
\* accordingly, or fails and changes none (cJSON.h:173-179, 227-259).
THEOREM ForestImplemented == Spec => ImplementsForest
<1>1. Init => Forest!Init
  BY InitForest
<1>2. TreeInv /\ [Next]_vars => [Forest!Next]_<<ForestOf(heap), call>>
  <2>1. CASE UNCHANGED vars
    BY <2>1 DEF vars
  <2>2. CASE TreeInv /\ Next
    <3>1. Forest!Step(ForestOf(heap), ForestOf(heap'), call'.op, call'.args, call'.answer)
      BY <2>2, NextMaps DEF MapsToStep, StepIs
    <3> QED BY <3>1 DEF Forest!Next
  <2> QED BY <2>1, <2>2
<1> QED BY <1>1, <1>2, Inductive, PTL DEF Spec, ImplementsForest, Forest!Spec
=============================================================================
