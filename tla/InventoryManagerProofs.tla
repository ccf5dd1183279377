----------------------- MODULE InventoryManagerProofs -----------------------
(***************************************************************************)
(* Proofs about InventoryManager: its type, that the stock is the sum of   *)
(* what the clients list and of what was put in, and how much a removal    *)
(* takes out, for any clients, items and JSON objects.                     *)
(***************************************************************************)
EXTENDS InventoryManager, FoldProofs

Stocks == [Items -> Nat]

-----------------------------------------------------------------------------
(* The loops through a JSON object. *)

\* An item, and an object, that make no loop throw.
Good == {e \in Entry : ~Bad(e)}
IsObject(doc) == doc \in Seq(Entry)
Sound(doc) == doc \in Seq(Entry) /\ ~Throws(doc)

LEMMA SoundIsGood ==
  ASSUME NEW doc, Sound(doc)
  PROVE  doc \in Seq(Good)
<1>1. /\ Len(doc) \in Nat /\ DOMAIN doc = 1..Len(doc)
      /\ \A k \in 1..Len(doc) : doc[k] \in Good
  BY LenProperties, ElementOfSeq DEF Sound, Throws, Good
<1> QED BY <1>1 DEF Sound

LEMMA EntryKeys ==
  ASSUME NEW e \in Entry, ~Bad(e)
  PROVE  e.number \in BOOLEAN /\ e.quantity \in Int /\ (e.number => e.key \in Items)
BY DEF Entry, Bad

\* increaseStock and decreaseStock keep every stock a natural number.
LEMMA IncreasedType ==
  ASSUME NEW s \in Stocks, NEW i \in Items, NEW q \in Int
  PROVE  /\ Increased(s, i, q) \in Stocks
         /\ \A j \in Items : Increased(s, i, q)[j] =
              s[j] + IF j = i /\ q > 0 THEN q ELSE 0
BY DEF Increased, Stocks

LEMMA DecreasedType ==
  ASSUME NEW s \in Stocks, NEW i \in Items, NEW q \in Int
  PROVE  /\ Decreased(s, i, q) \in Stocks
         /\ \A j \in Items : Decreased(s, i, q)[j] =
              s[j] - IF j = i /\ q > 0 /\ q <= s[i] THEN q ELSE 0
BY DEF Decreased, Stocks

LEMMA CountsType ==
  ASSUME NEW e \in Entry, NEW i
  PROVE  Counts(e, i) \in Nat
BY DEF Counts, Entry

LEMMA AddItemStep ==
  ASSUME NEW s \in Stocks, NEW e \in Entry, ~Bad(e)
  PROVE  /\ AddItem(s, e) \in Stocks
         /\ \A i \in Items : AddItem(s, e)[i] = s[i] + Counts(e, i)
<1>1. CASE e.number
  <2>1. e.key \in Items /\ e.quantity \in Int
    BY <1>1, EntryKeys
  <2>2. /\ Increased(s, e.key, e.quantity) \in Stocks
        /\ \A j \in Items : Increased(s, e.key, e.quantity)[j] =
             s[j] + IF j = e.key /\ e.quantity > 0 THEN e.quantity ELSE 0
    BY <2>1, IncreasedType
  <2> QED BY <1>1, <2>2 DEF AddItem, Counts
<1>2. CASE ~e.number
  BY <1>2 DEF AddItem, Counts, Stocks
<1> QED BY <1>1, <1>2

LEMMA RemoveItemStep ==
  ASSUME NEW s \in Stocks, NEW e \in Entry, ~Bad(e)
  PROVE  /\ RemoveItem(s, e) \in Stocks
         /\ \A i \in Items : RemoveItem(s, e)[i] =
              s[i] - IF Counts(e, i) <= s[i] THEN Counts(e, i) ELSE 0
<1>1. CASE e.number
  <2>1. e.key \in Items /\ e.quantity \in Int
    BY <1>1, EntryKeys
  <2>2. /\ Decreased(s, e.key, e.quantity) \in Stocks
        /\ \A j \in Items : Decreased(s, e.key, e.quantity)[j] =
             s[j] - IF j = e.key /\ e.quantity > 0 /\ e.quantity <= s[e.key]
                    THEN e.quantity ELSE 0
    BY <2>1, DecreasedType
  <2> QED BY <1>1, <2>1, <2>2 DEF RemoveItem, Counts, Stocks
<1>2. CASE ~e.number
  BY <1>2 DEF RemoveItem, Counts, Stocks
<1> QED BY <1>1, <1>2

\* The loop of addClient, item by item.
LEMMA AddRun ==
  ASSUME NEW s \in Stocks, NEW doc, Sound(doc)
  PROVE  \E r : /\ IsRun(r, Len(doc), Stocks, s)
                /\ \A k \in 1..Len(doc) : r[k] = AddItem(r[k - 1], doc[k])
                /\ FoldLeft(AddItem, s, doc) = r[Len(doc)]
<1> DEFINE F == [p \in Stocks \X Good |-> AddItem(p[1], p[2])]
           G(g) == [x \in SUBSET DOMAIN doc |->
                      IF x = {} THEN s
                      ELSE AddItem(g[x \ {Max(x)}], doc[Max(x)])]
           iter == CHOOSE g : g = G(g)
<1>1. doc \in Seq(Good) /\ Len(doc) \in Nat /\ DOMAIN doc = 1..Len(doc)
  BY SoundIsGood, LenProperties
<1>2. \A v \in Stocks, e \in Good : AddItem(v, e) \in Stocks /\ F[<<v, e>>] = AddItem(v, e)
  BY AddItemStep DEF Good
<1>3. F \in [Stocks \X Good -> Stocks]
  BY <1>2
<1> HIDE DEF F
<1>4. PICK it : LeftFold(it, Stocks, s, doc, F)
  BY <1>1, <1>3, FoldLeftExists
<1>5. it = G(it)
  <2>1. it \in [SUBSET DOMAIN doc -> Stocks]
    BY <1>4 DEF LeftFold
  <2>2. ASSUME NEW x \in SUBSET DOMAIN doc, x # {}
        PROVE  F[<<it[x \ {Max(x)}], doc[Max(x)]>>] = AddItem(it[x \ {Max(x)}], doc[Max(x)])
    <3>1. Max(x) \in 1..Len(doc)
      BY <1>1, <2>2, MaxOf
    <3>2. doc[Max(x)] \in Good /\ it[x \ {Max(x)}] \in Stocks
      BY <1>1, <2>1, <3>1, ElementOfSeq
    <3> QED BY <1>2, <3>2
  <2> QED BY <1>4, <2>2 DEF LeftFold
<1>6. iter = G(iter)
  BY <1>5
<1>7. FoldLeft(AddItem, s, doc) = iter[DOMAIN doc]
  BY DEF FoldLeft, MapThenFoldSet
<1> HIDE DEF iter
<1>8. iter[{}] = s
  BY <1>6
<1> HIDE DEF G
<1>9. ASSUME NEW k \in 1..Len(doc)
      PROVE  iter[1..k] = AddItem(iter[(1..k) \ {k}], doc[k])
  <2>1. k \in Nat \ {0} /\ k \in 1..k /\ \A j \in 1..k : j \in 1..Len(doc)
    BY <1>1
  <2>2. 1..k \in SUBSET DOMAIN doc /\ 1..k # {}
    BY <1>1, <2>1, Zenon
  <2>3. Max(1..k) = k
    BY <2>1, MaxUpTo
  <2> DEFINE x == 1..k
  <2> HIDE DEF x
  <2>4. iter[x] = AddItem(iter[x \ {Max(x)}], doc[Max(x)])
    BY <1>6, <2>2 DEF G, x
  <2> QED BY <2>3, <2>4 DEF x
<1>10. ASSUME NEW k \in 1..Len(doc), iter[(1..k) \ {k}] \in Stocks
       PROVE  iter[1..k] = AddItem(iter[(1..k) \ {k}], doc[k]) /\ iter[1..k] \in Stocks
  <2>1. doc[k] \in Good
    BY <1>1, ElementOfSeq
  <2> DEFINE v == iter[(1..k) \ {k}]
             e == doc[k]
  <2>2. iter[1..k] = AddItem(v, e)
    BY <1>9
  <2>3. v \in Stocks /\ e \in Good
    BY <1>10, <2>1
  <2> HIDE DEF v, e
  <2>4. AddItem(v, e) \in Stocks
    BY <1>2, <2>3
  <2> QED BY <2>2, <2>4 DEF v, e
<1>11. s \in Stocks /\ StaysIn(iter, Len(doc), Stocks)
  BY <1>10 DEF StaysIn
<1> DEFINE r == RunOf(iter, Len(doc))
<1>12. /\ IsRun(r, Len(doc), Stocks, s)
       /\ FollowsRun(iter, r, Len(doc))
       /\ r[Len(doc)] = iter[1..Len(doc)]
  <2> DEFINE W == Stocks
             b == s
  <2>1. b \in W /\ iter[{}] = b /\ StaysIn(iter, Len(doc), W)
    BY <1>8, <1>11
  <2> HIDE DEF W, b
  <2>2. /\ IsRun(r, Len(doc), W, b)
        /\ FollowsRun(iter, r, Len(doc))
        /\ r[Len(doc)] = iter[1..Len(doc)]
    BY <1>1, <2>1, RunOfFold
  <2> QED BY <2>2 DEF W, b
<1> HIDE DEF r
<1>13. ASSUME NEW k \in 1..Len(doc) PROVE r[k] = AddItem(r[k - 1], doc[k])
  <2>1. k - 1 \in 0..Len(doc)
    BY <1>1
  <2> QED BY <1>10, <1>12, <2>1 DEF FollowsRun, IsRun
<1> QED BY <1>1, <1>7, <1>12, <1>13

\* The loop of removeClient, item by item.
LEMMA RemoveRun ==
  ASSUME NEW s \in Stocks, NEW doc, Sound(doc)
  PROVE  \E r : /\ IsRun(r, Len(doc), Stocks, s)
                /\ \A k \in 1..Len(doc) : r[k] = RemoveItem(r[k - 1], doc[k])
                /\ FoldLeft(RemoveItem, s, doc) = r[Len(doc)]
<1> DEFINE F == [p \in Stocks \X Good |-> RemoveItem(p[1], p[2])]
           G(g) == [x \in SUBSET DOMAIN doc |->
                      IF x = {} THEN s
                      ELSE RemoveItem(g[x \ {Max(x)}], doc[Max(x)])]
           iter == CHOOSE g : g = G(g)
<1>1. doc \in Seq(Good) /\ Len(doc) \in Nat /\ DOMAIN doc = 1..Len(doc)
  BY SoundIsGood, LenProperties
<1>2. \A v \in Stocks, e \in Good : RemoveItem(v, e) \in Stocks /\ F[<<v, e>>] = RemoveItem(v, e)
  BY RemoveItemStep DEF Good
<1>3. F \in [Stocks \X Good -> Stocks]
  BY <1>2
<1> HIDE DEF F
<1>4. PICK it : LeftFold(it, Stocks, s, doc, F)
  BY <1>1, <1>3, FoldLeftExists
<1>5. it = G(it)
  <2>1. it \in [SUBSET DOMAIN doc -> Stocks]
    BY <1>4 DEF LeftFold
  <2>2. ASSUME NEW x \in SUBSET DOMAIN doc, x # {}
        PROVE  F[<<it[x \ {Max(x)}], doc[Max(x)]>>] = RemoveItem(it[x \ {Max(x)}], doc[Max(x)])
    <3>1. Max(x) \in 1..Len(doc)
      BY <1>1, <2>2, MaxOf
    <3>2. doc[Max(x)] \in Good /\ it[x \ {Max(x)}] \in Stocks
      BY <1>1, <2>1, <3>1, ElementOfSeq
    <3> QED BY <1>2, <3>2
  <2> QED BY <1>4, <2>2 DEF LeftFold
<1>6. iter = G(iter)
  BY <1>5
<1>7. FoldLeft(RemoveItem, s, doc) = iter[DOMAIN doc]
  BY DEF FoldLeft, MapThenFoldSet
<1> HIDE DEF iter
<1>8. iter[{}] = s
  BY <1>6
<1> HIDE DEF G
<1>9. ASSUME NEW k \in 1..Len(doc)
      PROVE  iter[1..k] = RemoveItem(iter[(1..k) \ {k}], doc[k])
  <2>1. k \in Nat \ {0} /\ k \in 1..k /\ \A j \in 1..k : j \in 1..Len(doc)
    BY <1>1
  <2>2. 1..k \in SUBSET DOMAIN doc /\ 1..k # {}
    BY <1>1, <2>1, Zenon
  <2>3. Max(1..k) = k
    BY <2>1, MaxUpTo
  <2> DEFINE x == 1..k
  <2> HIDE DEF x
  <2>4. iter[x] = RemoveItem(iter[x \ {Max(x)}], doc[Max(x)])
    BY <1>6, <2>2 DEF G, x
  <2> QED BY <2>3, <2>4 DEF x
<1>10. ASSUME NEW k \in 1..Len(doc), iter[(1..k) \ {k}] \in Stocks
       PROVE  iter[1..k] = RemoveItem(iter[(1..k) \ {k}], doc[k]) /\ iter[1..k] \in Stocks
  <2>1. doc[k] \in Good
    BY <1>1, ElementOfSeq
  <2> DEFINE v == iter[(1..k) \ {k}]
             e == doc[k]
  <2>2. iter[1..k] = RemoveItem(v, e)
    BY <1>9
  <2>3. v \in Stocks /\ e \in Good
    BY <1>10, <2>1
  <2> HIDE DEF v, e
  <2>4. RemoveItem(v, e) \in Stocks
    BY <1>2, <2>3
  <2> QED BY <2>2, <2>4 DEF v, e
<1>11. s \in Stocks /\ StaysIn(iter, Len(doc), Stocks)
  BY <1>10 DEF StaysIn
<1> DEFINE r == RunOf(iter, Len(doc))
<1>12. /\ IsRun(r, Len(doc), Stocks, s)
       /\ FollowsRun(iter, r, Len(doc))
       /\ r[Len(doc)] = iter[1..Len(doc)]
  <2> DEFINE W == Stocks
             b == s
  <2>1. b \in W /\ iter[{}] = b /\ StaysIn(iter, Len(doc), W)
    BY <1>8, <1>11
  <2> HIDE DEF W, b
  <2>2. /\ IsRun(r, Len(doc), W, b)
        /\ FollowsRun(iter, r, Len(doc))
        /\ r[Len(doc)] = iter[1..Len(doc)]
    BY <1>1, <2>1, RunOfFold
  <2> QED BY <2>2 DEF W, b
<1> HIDE DEF r
<1>13. ASSUME NEW k \in 1..Len(doc) PROVE r[k] = RemoveItem(r[k - 1], doc[k])
  <2>1. k - 1 \in 0..Len(doc)
    BY <1>1
  <2> QED BY <1>10, <1>12, <2>1 DEF FollowsRun, IsRun
<1> QED BY <1>1, <1>7, <1>12, <1>13

\* What an object lists of i, item by item.
LEMMA ListedRun ==
  ASSUME NEW doc, IsObject(doc), NEW i
  PROVE  \E r : /\ IsRun(r, Len(doc), Nat, 0)
                /\ \A k \in 1..Len(doc) : r[k] = r[k - 1] + Counts(doc[k], i)
                /\ Listed(doc, i) = r[Len(doc)]
<1> DEFINE F == [p \in Nat \X Entry |-> p[1] + Counts(p[2], i)]
           G(g) == [x \in SUBSET DOMAIN doc |->
                      IF x = {} THEN 0
                      ELSE g[x \ {Max(x)}] + Counts(doc[Max(x)], i)]
           iter == CHOOSE g : g = G(g)
<1>1. doc \in Seq(Entry) /\ Len(doc) \in Nat /\ DOMAIN doc = 1..Len(doc)
  BY LenProperties DEF IsObject
<1>2. \A v \in Nat, e \in Entry : v + Counts(e, i) \in Nat /\ F[<<v, e>>] = v + Counts(e, i)
  BY CountsType
<1>3. F \in [Nat \X Entry -> Nat]
  BY <1>2
<1> HIDE DEF F
<1>4. PICK it : LeftFold(it, Nat, 0, doc, F)
  BY <1>1, <1>3, FoldLeftExists
<1>5. it = G(it)
  <2>1. it \in [SUBSET DOMAIN doc -> Nat]
    BY <1>4 DEF LeftFold
  <2>2. ASSUME NEW x \in SUBSET DOMAIN doc, x # {}
        PROVE  F[<<it[x \ {Max(x)}], doc[Max(x)]>>] = it[x \ {Max(x)}] + Counts(doc[Max(x)], i)
    <3>1. Max(x) \in 1..Len(doc)
      BY <1>1, <2>2, MaxOf
    <3>2. doc[Max(x)] \in Entry /\ it[x \ {Max(x)}] \in Nat
      BY <1>1, <2>1, <3>1, ElementOfSeq
    <3> QED BY <1>2, <3>2
  <2> QED BY <1>4, <2>2 DEF LeftFold
<1>6. iter = G(iter)
  BY <1>5
<1>7. Listed(doc, i) = iter[DOMAIN doc]
  BY DEF FoldLeft, MapThenFoldSet, Listed
<1> HIDE DEF iter
<1>8. iter[{}] = 0
  BY <1>6
<1> HIDE DEF G
<1>9. ASSUME NEW k \in 1..Len(doc)
      PROVE  iter[1..k] = iter[(1..k) \ {k}] + Counts(doc[k], i)
  <2>1. k \in Nat \ {0} /\ k \in 1..k /\ \A j \in 1..k : j \in 1..Len(doc)
    BY <1>1
  <2>2. 1..k \in SUBSET DOMAIN doc /\ 1..k # {}
    BY <1>1, <2>1, Zenon
  <2>3. Max(1..k) = k
    BY <2>1, MaxUpTo
  <2> DEFINE x == 1..k
  <2> HIDE DEF x
  <2>4. iter[x] = iter[x \ {Max(x)}] + Counts(doc[Max(x)], i)
    BY <1>6, <2>2 DEF G, x
  <2> QED BY <2>3, <2>4 DEF x
<1>10. ASSUME NEW k \in 1..Len(doc), iter[(1..k) \ {k}] \in Nat
       PROVE  iter[1..k] = iter[(1..k) \ {k}] + Counts(doc[k], i) /\ iter[1..k] \in Nat
  <2>1. doc[k] \in Entry
    BY <1>1, ElementOfSeq
  <2> DEFINE v == iter[(1..k) \ {k}]
             e == doc[k]
  <2>2. iter[1..k] = v + Counts(e, i)
    BY <1>9
  <2>3. v \in Nat /\ e \in Entry
    BY <1>10, <2>1
  <2> HIDE DEF v, e
  <2>4. v + Counts(e, i) \in Nat
    BY <1>2, <2>3
  <2> QED BY <2>2, <2>4 DEF v, e
<1>11. 0 \in Nat /\ StaysIn(iter, Len(doc), Nat)
  BY <1>10 DEF StaysIn
<1> DEFINE r == RunOf(iter, Len(doc))
<1>12. /\ IsRun(r, Len(doc), Nat, 0)
       /\ FollowsRun(iter, r, Len(doc))
       /\ r[Len(doc)] = iter[1..Len(doc)]
  <2> DEFINE W == Nat
             b == 0
  <2>1. b \in W /\ iter[{}] = b /\ StaysIn(iter, Len(doc), W)
    BY <1>8, <1>11
  <2> HIDE DEF W, b
  <2>2. /\ IsRun(r, Len(doc), W, b)
        /\ FollowsRun(iter, r, Len(doc))
        /\ r[Len(doc)] = iter[1..Len(doc)]
    BY <1>1, <2>1, RunOfFold
  <2> QED BY <2>2 DEF W, b
<1> HIDE DEF r
<1>13. ASSUME NEW k \in 1..Len(doc) PROVE r[k] = r[k - 1] + Counts(doc[k], i)
  <2>1. k - 1 \in 0..Len(doc)
    BY <1>1
  <2> QED BY <1>10, <1>12, <2>1 DEF FollowsRun, IsRun
<1> QED BY <1>1, <1>7, <1>12, <1>13
-----------------------------------------------------------------------------
(* What the loops come to. *)

LEMMA ListedType ==
  ASSUME NEW doc, IsObject(doc), NEW i
  PROVE  Listed(doc, i) \in Nat
<1>1. PICK r : /\ IsRun(r, Len(doc), Nat, 0)
               /\ \A k \in 1..Len(doc) : r[k] = r[k - 1] + Counts(doc[k], i)
               /\ Listed(doc, i) = r[Len(doc)]
  BY ListedRun
<1>2. Len(doc) \in Nat
  BY LenProperties DEF IsObject
<1> QED BY <1>1, <1>2 DEF IsRun

\* The beginning of an object lists no more than all of it.
LEMMA ListedPrefix ==
  ASSUME NEW doc, IsObject(doc), NEW i, NEW part, IsObject(part),
         Len(part) <= Len(doc), \A k \in 1..Len(part) : part[k] = doc[k]
  PROVE  Listed(part, i) <= Listed(doc, i)
<1> DEFINE n == Len(doc)
           m == Len(part)
<1>1. PICK r : /\ IsRun(r, n, Nat, 0)
               /\ \A k \in 1..n : r[k] = r[k - 1] + Counts(doc[k], i)
               /\ Listed(doc, i) = r[n]
  BY ListedRun
<1>2. PICK q : /\ IsRun(q, m, Nat, 0)
               /\ \A k \in 1..m : q[k] = q[k - 1] + Counts(part[k], i)
               /\ Listed(part, i) = q[m]
  BY ListedRun
<1>3. n \in Nat /\ m \in Nat /\ m <= n /\ \A k \in 1..n : Counts(doc[k], i) \in Nat
  BY LenProperties, ElementOfSeq, CountsType DEF IsObject
<1>4. q[m] = r[m]
  <2> DEFINE T == {k \in 0..m : q[k] = r[k]}
  <2>1. 0 \in T
    BY <1>1, <1>2, <1>3 DEF IsRun
  <2>2. \A k \in 1..m : k - 1 \in T => k \in T
    BY <1>1, <1>2, <1>3
  <2> HIDE DEF T
  <2>3. \A k \in 0..m : k \in T
    BY <1>3, <2>1, <2>2, UpTo
  <2> QED BY <1>3, <2>3 DEF T
<1>5. r[m] <= r[n]
  <2> DEFINE T == {k \in 0..n : k >= m => r[m] <= r[k]}
  <2>1. \A k \in 0..n : r[k] \in Nat
    BY <1>1 DEF IsRun
  <2>2. 0 \in T
    BY <1>3, <2>1
  <2>3. ASSUME NEW k \in 1..n, k - 1 \in T PROVE k \in T
    <3>1. r[k] = r[k - 1] + Counts(doc[k], i) /\ Counts(doc[k], i) \in Nat
      BY <1>1, <1>3
    <3>2. r[k - 1] \in Nat /\ r[k] \in Nat /\ r[m] \in Nat
      BY <1>3, <2>1
    <3>3. k = m \/ k < m \/ k - 1 >= m
      BY <1>3
    <3> QED BY <1>3, <2>3, <3>1, <3>2, <3>3
  <2> HIDE DEF T
  <2>4. \A k \in 0..n : k \in T
    BY <1>3, <2>2, <2>3, UpTo
  <2> QED BY <1>3, <2>4 DEF T
<1> QED BY <1>1, <1>2, <1>4, <1>5

\* The loop of addClient adds what the object lists.
LEMMA AddLoop ==
  ASSUME NEW s \in Stocks, NEW doc, Sound(doc)
  PROVE  /\ FoldLeft(AddItem, s, doc) \in Stocks
         /\ \A i \in Items : FoldLeft(AddItem, s, doc)[i] = s[i] + Listed(doc, i)
<1> DEFINE n == Len(doc)
<1>1. PICK r : /\ IsRun(r, n, Stocks, s)
               /\ \A k \in 1..n : r[k] = AddItem(r[k - 1], doc[k])
               /\ FoldLeft(AddItem, s, doc) = r[n]
  BY AddRun
<1>2. IsObject(doc) /\ n \in Nat /\ \A k \in 1..n : doc[k] \in Good
  BY SoundIsGood, LenProperties, ElementOfSeq DEF Sound, IsObject
<1>3. \A k \in 0..n : r[k] \in Stocks
  BY <1>1 DEF IsRun
<1>4. ASSUME NEW i \in Items PROVE r[n][i] = s[i] + Listed(doc, i)
  <2>1. PICK q : /\ IsRun(q, n, Nat, 0)
                 /\ \A k \in 1..n : q[k] = q[k - 1] + Counts(doc[k], i)
                 /\ Listed(doc, i) = q[n]
    BY <1>2, ListedRun
  <2> DEFINE T == {k \in 0..n : r[k][i] = s[i] + q[k]}
  <2>2. 0 \in T
    BY <1>1, <1>2, <2>1 DEF IsRun, Stocks
  <2>3. ASSUME NEW k \in 1..n, k - 1 \in T PROVE k \in T
    <3>1. k - 1 \in 0..n /\ r[k - 1] \in Stocks /\ doc[k] \in Entry /\ ~Bad(doc[k])
      BY <1>2, <1>3 DEF Good
    <3>2. r[k][i] = r[k - 1][i] + Counts(doc[k], i) /\ Counts(doc[k], i) \in Nat
      BY <1>1, <3>1, AddItemStep, CountsType
    <3>3. q[k - 1] \in Nat /\ s[i] \in Nat /\ q[k] = q[k - 1] + Counts(doc[k], i)
      BY <2>1, <3>1 DEF IsRun, Stocks
    <3> QED BY <2>3, <3>2, <3>3
  <2> HIDE DEF T
  <2>4. \A k \in 0..n : k \in T
    BY <1>2, <2>2, <2>3, UpTo
  <2> QED BY <1>2, <2>1, <2>4 DEF T
<1> QED BY <1>1, <1>2, <1>3, <1>4

\* One item of that loop, in numbers.
LEMMA TakenOut ==
  ASSUME NEW x \in Nat, NEW a \in Nat, NEW b \in Nat, NEW c \in Nat,
         x - a \in 0..b, b <= x => a = x - b
  PROVE  LET left == a - IF c <= a THEN c ELSE 0 IN
         x - left \in 0..(b + c) /\ (b + c <= x => left = x - (b + c))
OBVIOUS

\* The loop of removeClient takes out at most what the object lists, and all of
\* it when there is as much.
LEMMA RemoveLoop ==
  ASSUME NEW s \in Stocks, NEW doc, Sound(doc)
  PROVE  /\ FoldLeft(RemoveItem, s, doc) \in Stocks
         /\ \A i \in Items :
              /\ s[i] - FoldLeft(RemoveItem, s, doc)[i] \in 0..Listed(doc, i)
              /\ Listed(doc, i) <= s[i] =>
                   FoldLeft(RemoveItem, s, doc)[i] = s[i] - Listed(doc, i)
<1> DEFINE n == Len(doc)
<1>1. PICK r : /\ IsRun(r, n, Stocks, s)
               /\ \A k \in 1..n : r[k] = RemoveItem(r[k - 1], doc[k])
               /\ FoldLeft(RemoveItem, s, doc) = r[n]
  BY RemoveRun
<1>2. IsObject(doc) /\ n \in Nat /\ \A k \in 1..n : doc[k] \in Good
  BY SoundIsGood, LenProperties, ElementOfSeq DEF Sound, IsObject
<1>3. \A k \in 0..n : r[k] \in Stocks
  BY <1>1 DEF IsRun
<1>4. ASSUME NEW i \in Items
      PROVE  /\ s[i] - r[n][i] \in 0..Listed(doc, i)
             /\ Listed(doc, i) <= s[i] => r[n][i] = s[i] - Listed(doc, i)
  <2>1. PICK q : /\ IsRun(q, n, Nat, 0)
                 /\ \A k \in 1..n : q[k] = q[k - 1] + Counts(doc[k], i)
                 /\ Listed(doc, i) = q[n]
    BY <1>2, ListedRun
  <2> DEFINE T == {k \in 0..n : /\ s[i] - r[k][i] \in 0..q[k]
                                /\ q[k] <= s[i] => r[k][i] = s[i] - q[k]}
  <2>2. 0 \in T
    BY <1>1, <1>2, <2>1 DEF IsRun, Stocks
  <2>3. ASSUME NEW k \in 1..n, k - 1 \in T PROVE k \in T
    <3>1. k - 1 \in 0..n /\ r[k - 1] \in Stocks /\ doc[k] \in Entry /\ ~Bad(doc[k])
      BY <1>2, <1>3 DEF Good
    <3> DEFINE c == Counts(doc[k], i)
    <3>2. r[k][i] = r[k - 1][i] - (IF c <= r[k - 1][i] THEN c ELSE 0) /\ c \in Nat
      BY <1>1, <3>1, RemoveItemStep, CountsType
    <3>3. q[k - 1] \in Nat /\ s[i] \in Nat /\ r[k - 1][i] \in Nat /\ q[k] = q[k - 1] + c
      BY <2>1, <3>1 DEF IsRun, Stocks
    <3>4. s[i] - r[k - 1][i] \in 0..q[k - 1] /\ (q[k - 1] <= s[i] => r[k - 1][i] = s[i] - q[k - 1])
      BY <2>3
    <3> HIDE DEF c
    <3>5. /\ s[i] - r[k][i] \in 0..(q[k - 1] + c)
          /\ q[k - 1] + c <= s[i] => r[k][i] = s[i] - (q[k - 1] + c)
      <4> DEFINE x == s[i]
                 a == r[k - 1][i]
                 b == q[k - 1]
                 left == a - IF c <= a THEN c ELSE 0
      <4>1. /\ x \in Nat /\ a \in Nat /\ b \in Nat /\ c \in Nat
            /\ x - a \in 0..b /\ (b <= x => a = x - b)
        BY <3>2, <3>3, <3>4
      <4>2. r[k][i] = left
        BY <3>2
      <4> HIDE DEF x, a, b
      <4>3. x - left \in 0..(b + c) /\ (b + c <= x => left = x - (b + c))
        BY <4>1, TakenOut
      <4> QED BY <4>2, <4>3 DEF x, b
    <3> QED BY <3>3, <3>5
  <2> HIDE DEF T
  <2>4. \A k \in 0..n : k \in T
    BY <1>2, <2>2, <2>3, UpTo
  <2> QED BY <1>2, <2>1, <2>4 DEF T
<1> QED BY <1>1, <1>2, <1>3, <1>4

\* What a loop gets to is a beginning of the object, all of it if nothing throws.
LEMMA ReachedIsSound ==
  ASSUME NEW doc, IsObject(doc)
  PROVE  /\ Sound(Reached(doc)) /\ IsObject(Reached(doc))
         /\ Len(Reached(doc)) <= Len(doc)
         /\ \A k \in 1..Len(Reached(doc)) : Reached(doc)[k] = doc[k]
         /\ ~Throws(doc) => Reached(doc) = doc
<1> DEFINE n == Len(doc)
           stops == {i \in DOMAIN doc : Bad(doc[i])} \cup {n + 1}
           m == Min(stops)
<1>1. n \in Nat /\ DOMAIN doc = 1..n /\ \A k \in 1..n : doc[k] \in Entry
  BY LenProperties, ElementOfSeq DEF IsObject
<1>2. m \in stops /\ \A j \in stops : m <= j
  <2>1. stops \subseteq Nat /\ stops # {}
    BY <1>1
  <2> HIDE DEF stops
  <2>2. \E x \in stops : \A y \in stops : x <= y
    BY <2>1, LeastNumber
  <2> QED BY <2>2 DEF Min
<1>3. m \in 1..(n + 1) /\ \A k \in 1..(m - 1) : k \in 1..n /\ ~Bad(doc[k])
  <2>1. m \in 1..(n + 1)
    BY <1>1, <1>2
  <2>2. ASSUME NEW k \in 1..(m - 1) PROVE k \in 1..n /\ ~Bad(doc[k])
    <3>1. k \in 1..n /\ ~(m <= k)
      BY <1>1, <2>1
    <3>2. k \notin stops
      BY <1>2, <3>1
    <3> QED BY <1>1, <3>1, <3>2
  <2> QED BY <2>1, <2>2
<1>4. Reached(doc) = SubSeq(doc, 1, m - 1)
  BY DEF Reached
<1> HIDE DEF m
<1>5. /\ Reached(doc) \in Seq(Entry) /\ Len(Reached(doc)) = m - 1
      /\ \A k \in 1..(m - 1) : Reached(doc)[k] = doc[k]
  BY <1>1, <1>3, <1>4, SubSeqProperties
<1>6. DOMAIN Reached(doc) = 1..(m - 1)
  BY <1>5, LenProperties
<1>7. Sound(Reached(doc))
  BY <1>3, <1>5, <1>6 DEF Sound, Throws
<1>8. ASSUME ~Throws(doc) PROVE Reached(doc) = doc
  <2>1. m = n + 1
    BY <1>2, <1>8 DEF m, Throws
  <2>2. Len(Reached(doc)) = n /\ \A k \in 1..n : Reached(doc)[k] = doc[k]
    BY <1>1, <1>5, <2>1
  <2> QED BY <1>5, <2>2, SeqEqual DEF IsObject
<1> QED BY <1>1, <1>3, <1>5, <1>7, <1>8 DEF IsObject

\* Items that are missed make no loop throw; without any the object is the same.
LEMMA WithoutIsSound ==
  ASSUME NEW doc, Sound(doc), NEW missed
  PROVE  /\ Sound(Without(doc, missed))
         /\ missed = {} => Without(doc, missed) = doc
<1> DEFINE n == Len(doc)
           w == Without(doc, missed)
<1>1. /\ n \in Nat /\ DOMAIN doc = 1..n /\ doc \in Seq(Entry)
      /\ \A k \in 1..n : doc[k] \in Entry /\ ~Bad(doc[k])
  BY LenProperties, ElementOfSeq DEF Sound, Throws
<1>2. ASSUME NEW k \in 1..n
      PROVE  w[k] \in Entry /\ ~Bad(w[k]) /\ (missed = {} => w[k] = doc[k])
  <2> DEFINE e == doc[k]
             b == e.number /\ k \notin missed
  <2>1. e \in Entry /\ ~Bad(e) /\ w[k] = [e EXCEPT !.number = b]
    BY <1>1, <1>2 DEF Without
  <2>2. b \in BOOLEAN /\ (b => e.number)
    BY <2>1 DEF Entry
  <2>3. missed = {} => b = e.number
    BY <2>1 DEF Entry
  <2> HIDE DEF b, e
  <2>4. w[k] = [key |-> e.key, number |-> b, quantity |-> e.quantity]
    BY <2>1 DEF Entry
  <2>5. e = [key |-> e.key, number |-> e.number, quantity |-> e.quantity]
    BY <2>1 DEF Entry
  <2>6. w[k] \in Entry
    BY <2>1, <2>2, <2>4 DEF Entry
  <2>7. ~Bad(w[k])
    BY <2>1, <2>2, <2>4 DEF Bad
  <2>8. missed = {} => w[k] = e
    BY <2>3, <2>4, <2>5
  <2> QED BY <2>6, <2>7, <2>8 DEF e
<1>3. w = [k \in 1..n |-> w[k]]
  BY <1>1 DEF Without
<1> HIDE DEF w
<1>4. w \in Seq(Entry) /\ Len(w) = n /\ DOMAIN w = 1..n
  BY <1>1, <1>2, <1>3
<1>5. Sound(w)
  BY <1>2, <1>4 DEF Sound, Throws
<1>6. missed = {} => w = doc
  BY <1>1, <1>2, <1>4, SeqEqual
<1> QED BY <1>5, <1>6 DEF w
-----------------------------------------------------------------------------
(* What all the clients list. *)

\* A finite map of JSON objects.
IsInventories(m) ==
  /\ IsFiniteSet(DOMAIN m)
  /\ m = [c \in DOMAIN m |-> m[c]] /\ \A c \in DOMAIN m : IsObject(m[c])

Lists(m, i) == [c \in DOMAIN m |-> Listed(m[c], i)]

LEMMA ListsType ==
  ASSUME NEW m, IsInventories(m), NEW i
  PROVE  Lists(m, i) \in [DOMAIN m -> Nat]
BY ListedType DEF IsInventories, Lists

LEMMA ListedByAllIsSum ==
  ASSUME NEW m, IsInventories(m), NEW i
  PROVE  \E it : IsSum(it, DOMAIN m, Lists(m, i)) /\ ListedByAll(m, i) = it[DOMAIN m]
<1> DEFINE D == DOMAIN m
           f == Lists(m, i)
           G(g) == [s \in SUBSET D |->
                      IF s = {} THEN 0
                      ELSE Listed(m[CHOOSE x \in s : TRUE], i)
                           + g[s \ {CHOOSE x \in s : TRUE}]]
           iter == CHOOSE g : g = G(g)
<1>1. IsFiniteSet(D) /\ f \in [D -> Nat]
  BY ListsType DEF IsInventories
<1>2. ASSUME NEW s \in SUBSET D, s # {}
      PROVE  /\ (CHOOSE x \in s : TRUE) \in s
             /\ f[CHOOSE x \in s : TRUE] = Listed(m[CHOOSE x \in s : TRUE], i)
  BY <1>2 DEF Lists
<1> HIDE DEF f
<1>3. PICK it : IsSum(it, D, f)
  BY <1>1, SumExists
<1>4. it = G(it)
  BY <1>2, <1>3 DEF IsSum
<1>5. iter = G(iter)
  BY <1>4
<1>6. ListedByAll(m, i) = iter[D]
  BY DEF ListedByAll, MapThenSumSet, MapThenFoldSet
<1> HIDE DEF iter
<1>7. /\ iter[{}] = 0
      /\ \A s \in SUBSET D : s # {} =>
           iter[s] = f[CHOOSE x \in s : TRUE] + iter[s \ {CHOOSE x \in s : TRUE}]
  BY <1>2, <1>5
<1>8. iter \in [SUBSET D -> Nat]
  <2> DEFINE T == {s \in SUBSET D : iter[s] \in Nat}
  <2>1. ASSUME NEW s \in SUBSET D, \A y \in SUBSET s : y # s => y \in T
        PROVE  s \in T
    <3>1. CASE s = {}
      BY <1>7, <3>1
    <3>2. CASE s # {}
      <4> DEFINE d == CHOOSE x \in s : TRUE
      <4>1. d \in s /\ iter[s] = f[d] + iter[s \ {d}]
        BY <1>2, <1>7, <3>2
      <4> HIDE DEF d
      <4>2. f[d] \in Nat /\ iter[s \ {d}] \in Nat
        BY <1>1, <2>1, <4>1
      <4> QED BY <4>1, <4>2
    <3> QED BY <3>1, <3>2
  <2> HIDE DEF T
  <2>2. \A s \in SUBSET D : s \in T
    BY <1>1, <2>1, OverSubsets
  <2>3. DOMAIN iter = SUBSET D /\ iter = [s \in SUBSET D |-> iter[s]]
    BY <1>5
  <2> QED BY <2>2, <2>3 DEF T
<1>9. IsSum(iter, D, f)
  BY <1>7, <1>8 DEF IsSum
<1> QED BY <1>6, <1>9 DEF f

LEMMA ListedByAllType ==
  ASSUME NEW m, IsInventories(m), NEW i
  PROVE  ListedByAll(m, i) \in Nat
<1>1. DOMAIN m \in SUBSET DOMAIN m
  OBVIOUS
<1>2. PICK it : IsSum(it, DOMAIN m, Lists(m, i)) /\ ListedByAll(m, i) = it[DOMAIN m]
  BY ListedByAllIsSum
<1> QED BY <1>1, <1>2 DEF IsSum

\* What all list, with one client taken out of the map.
LEMMA ListedByOthers ==
  ASSUME NEW m, IsInventories(m), NEW c \in DOMAIN m, NEW i
  PROVE  /\ IsInventories(Erase(m, c))
         /\ ListedByAll(m, i) = Listed(m[c], i) + ListedByAll(Erase(m, c), i)
<1> DEFINE D == DOMAIN m
           e == Erase(m, c)
<1>1. DOMAIN e = D \ {c} /\ \A d \in D \ {c} : e[d] = m[d]
  BY DEF Erase
<1>2. IsInventories(e)
  <2>1. e = [d \in DOMAIN e |-> e[d]]
    BY DEF Erase
  <2> QED BY <1>1, <2>1, FS_RemoveElement DEF IsInventories
<1> HIDE DEF e
<1>3. PICK it : IsSum(it, D, Lists(m, i)) /\ ListedByAll(m, i) = it[D]
  BY ListedByAllIsSum
<1>4. PICK of : IsSum(of, DOMAIN e, Lists(e, i)) /\ ListedByAll(e, i) = of[DOMAIN e]
  BY <1>2, ListedByAllIsSum
<1>5. IsFiniteSet(D) /\ Lists(m, i) \in [D -> Nat] /\ Lists(e, i) \in [D \ {c} -> Nat]
  BY <1>1, <1>2, ListsType DEF IsInventories
<1>6. it[D] = Lists(m, i)[c] + it[D \ {c}]
  <2>1. D \in SUBSET D
    OBVIOUS
  <2> QED BY <1>3, <1>5, <2>1, SumWithout
<1>7. \A d \in D \ {c} : Lists(m, i)[d] = Lists(e, i)[d]
  BY <1>1 DEF Lists
<1>8. it[D \ {c}] = of[D \ {c}]
  <2>1. D \ {c} \in SUBSET D /\ IsSum(of, D \ {c}, Lists(e, i))
    BY <1>1, <1>4
  <2> QED BY <1>3, <1>5, <1>7, <2>1, SumsAgree
<1>9. Lists(m, i)[c] = Listed(m[c], i)
  BY DEF Lists
<1> QED BY <1>1, <1>2, <1>3, <1>4, <1>6, <1>8, <1>9 DEF e

\* The same with one put in.
LEMMA ListedByOneMore ==
  ASSUME NEW m, IsInventories(m), NEW c, c \notin DOMAIN m, NEW doc, IsObject(doc), NEW i
  PROVE  /\ IsInventories(Assign(m, c, doc))
         /\ ListedByAll(Assign(m, c, doc), i) = Listed(doc, i) + ListedByAll(m, i)
<1> DEFINE a == Assign(m, c, doc)
<1>1. DOMAIN a = DOMAIN m \cup {c} /\ a[c] = doc /\ \A d \in DOMAIN m : a[d] = m[d]
  BY DEF Assign
<1>2. IsInventories(a)
  <2>1. a = [d \in DOMAIN a |-> a[d]]
    BY DEF Assign
  <2> QED BY <1>1, <2>1, FS_AddElement DEF IsInventories
<1>3. Erase(a, c) = m
  <2>1. DOMAIN a \ {c} = DOMAIN m
    BY <1>1
  <2> QED BY <1>1, <2>1 DEF Erase, IsInventories
<1> HIDE DEF a
<1>4. ListedByAll(a, i) = Listed(doc, i) + ListedByAll(Erase(a, c), i)
  BY <1>1, <1>2, ListedByOthers
<1> QED BY <1>2, <1>3, <1>4 DEF a
-----------------------------------------------------------------------------
(* The invariants. *)

\* With the type, that finitely many clients are listed: their sum is taken.
TypeInv == TypeOK /\ IsInventories(inventories)

LEMMA TypeFacts ==
  ASSUME TypeInv
  PROVE  /\ stock \in Stocks /\ put \in Stocks /\ plain \in BOOLEAN
         /\ IsInventories(inventories) /\ DOMAIN inventories \subseteq Clients
         /\ \A c \in DOMAIN inventories : inventories[c] \in Docs /\ IsObject(inventories[c])
         /\ \A doc \in Docs : IsObject(doc)
         /\ \A doc \in Docs : {doc, <<>>} \subseteq Docs
BY InventoryAssumption DEF TypeInv, TypeOK, IsMap, Stocks, IsInventories, IsObject

LEMMA KeepType ==
  ASSUME put \in Stocks, plain \in BOOLEAN, NEW b \in BOOLEAN, Keep(b)
  PROVE  plain' \in BOOLEAN /\ put' \in Stocks /\ (plain' => plain /\ b /\ put' = put)
BY DEF Keep, Stocks, Zero

\* What a type of the next state is shown from.
LEMMA TypeNext ==
  ASSUME stock' \in Stocks, put' \in Stocks, plain' \in BOOLEAN,
         DOMAIN inventories' \subseteq Clients,
         \A c \in DOMAIN inventories' : inventories'[c] \in Docs,
         IsInventories(inventories'), TypeOK,
         UNCHANGED last \/
         \E call \in {"addClient", "removeClient", "increaseStock", "decreaseStock",
                      "updateClientInventory"}, c \in Clients \cup {NoClient}, b \in BOOLEAN :
           Called(call, c, b)
  PROVE  TypeInv'
<1>1. inventories' \in [DOMAIN inventories' -> Docs]
  BY DEF IsInventories
<1>2. last' \in [call : {"none", "addClient", "removeClient", "increaseStock",
                         "decreaseStock", "updateClientInventory"},
                 client : Clients \cup {NoClient}, threw : BOOLEAN]
  BY DEF TypeOK, Called
<1> QED BY <1>1, <1>2 DEF TypeInv, TypeOK, IsMap, Stocks

LEMMA AssignInventory ==
  ASSUME TypeInv, NEW c \in Clients, NEW doc \in Docs,
         inventories' = Assign(inventories, c, doc)
  PROVE  /\ IsInventories(inventories') /\ DOMAIN inventories' \subseteq Clients
         /\ \A d \in DOMAIN inventories' : inventories'[d] \in Docs
<1>1. /\ DOMAIN inventories' = DOMAIN inventories \cup {c}
      /\ inventories' = [d \in DOMAIN inventories' |-> inventories'[d]]
      /\ \A d \in DOMAIN inventories' : inventories'[d] \in {doc, inventories[d]}
      /\ \A d \in DOMAIN inventories' \ {c} : d \in DOMAIN inventories
      /\ inventories'[c] = doc
  BY DEF Assign
<1>2. \A d \in DOMAIN inventories' : inventories'[d] \in Docs
  BY <1>1, TypeFacts DEF Assign
<1>3. IsFiniteSet(DOMAIN inventories')
  BY <1>1, TypeFacts, FS_AddElement DEF IsInventories
<1> QED BY <1>1, <1>2, <1>3, TypeFacts DEF IsInventories

\* Every step keeps the type.
LEMMA TypeStep == TypeInv /\ [Next]_vars => TypeInv'
<1> SUFFICES ASSUME TypeInv, [Next]_vars PROVE TypeInv'
  OBVIOUS
<1>0. /\ stock \in Stocks /\ put \in Stocks /\ plain \in BOOLEAN /\ TypeOK
      /\ IsInventories(inventories) /\ DOMAIN inventories \subseteq Clients
      /\ \A c \in DOMAIN inventories : inventories[c] \in Docs /\ IsObject(inventories[c])
      /\ \A doc \in Docs : IsObject(doc)
  BY TypeFacts DEF TypeInv
<1>1. ASSUME NEW c \in Clients, RemoveClient(c) PROVE TypeInv'
  <2> DEFINE doc == inventories[c]
  <2>1. c \in DOMAIN inventories /\ IsObject(doc) /\ Throws(doc) \in BOOLEAN
    BY <1>0, <1>1 DEF RemoveClient, Throws
  <2>2. stock' \in Stocks
    <3>1. Sound(Reached(doc))
      BY <2>1, ReachedIsSound
    <3> QED BY <1>0, <1>1, <3>1, RemoveLoop DEF RemoveClient
  <2>3. put' \in Stocks /\ plain' \in BOOLEAN
    BY <1>0, <1>1, <2>1, KeepType DEF RemoveClient
  <2>4. /\ IsInventories(inventories') /\ DOMAIN inventories' \subseteq Clients
        /\ \A d \in DOMAIN inventories' : inventories'[d] \in Docs
    <3>1. CASE inventories' = inventories
      BY <1>0, <3>1
    <3>2. CASE inventories' = Erase(inventories, c)
      BY <1>0, <2>1, <3>2, ListedByOthers DEF Erase
    <3> QED BY <1>1, <3>1, <3>2 DEF RemoveClient
  <2>5. Called("removeClient", c, Throws(doc))
    BY <1>1 DEF RemoveClient
  <2> QED BY <1>0, <2>1, <2>2, <2>3, <2>4, <2>5, TypeNext
<1>2. ASSUME NEW c \in Clients, NEW doc \in Docs, NEW copy \in Docs, NEW missed,
             AddClient(c, doc, copy, missed)
      PROVE  TypeInv'
  <2>1. IsObject(doc) /\ Throws(doc) \in BOOLEAN
    BY <1>0 DEF Throws
  <2>2. stock' \in Stocks
    <3>1. Sound(Without(Reached(doc), missed))
      BY <2>1, ReachedIsSound, WithoutIsSound
    <3> QED BY <1>0, <1>2, <3>1, AddLoop DEF AddClient
  <2>3. put' \in Stocks /\ plain' \in BOOLEAN
    BY <1>0, <1>2, <2>1, KeepType DEF AddClient
  <2>4. /\ IsInventories(inventories') /\ DOMAIN inventories' \subseteq Clients
        /\ \A d \in DOMAIN inventories' : inventories'[d] \in Docs
    BY <1>2, AssignInventory DEF AddClient
  <2>5. Called("addClient", c, Throws(doc))
    BY <1>2 DEF AddClient
  <2> QED BY <1>0, <2>1, <2>2, <2>3, <2>4, <2>5, TypeNext
<1>3. ASSUME NEW c \in Clients, NEW doc \in Docs, UpdateClientInventory(c, doc)
      PROVE  TypeInv'
  <2>1. put' \in Stocks /\ plain' \in BOOLEAN
    BY <1>0, <1>3, KeepType DEF UpdateClientInventory
  <2>2. /\ IsInventories(inventories') /\ DOMAIN inventories' \subseteq Clients
        /\ \A d \in DOMAIN inventories' : inventories'[d] \in Docs
    BY <1>3, AssignInventory DEF UpdateClientInventory
  <2>3. Called("updateClientInventory", c, FALSE) /\ stock' = stock
    BY <1>3 DEF UpdateClientInventory
  <2> QED BY <1>0, <2>1, <2>2, <2>3, TypeNext
<1>4. ASSUME NEW i \in Items, NEW q \in Quantities, NEW made \in BOOLEAN,
             IncreaseStock(i, q, made)
      PROVE  TypeInv'
  <2>1. q \in Int
    BY InventoryAssumption
  <2>2. /\ stock' \in Stocks /\ stock[i] \in Nat
        /\ stock'[i] \in {stock[i], stock[i] + (IF q > 0 THEN q ELSE 0)}
    <3>1. stock[i] \in Nat
      BY <1>0 DEF Stocks
    <3>2. CASE stock' = stock
      BY <1>0, <3>1, <3>2
    <3>3. CASE stock' = Increased(stock, i, q)
      BY <1>0, <2>1, <3>1, <3>3, IncreasedType
    <3> QED BY <1>4, <3>2, <3>3 DEF IncreaseStock
  <2>3. put' \in Stocks
    BY <1>0, <1>4, <2>1, <2>2 DEF IncreaseStock, Stocks
  <2>4. Called("increaseStock", NoClient, FALSE) /\ UNCHANGED <<inventories, plain>>
    BY <1>4 DEF IncreaseStock
  <2> QED BY <1>0, <2>2, <2>3, <2>4, TypeNext
<1>5. ASSUME NEW i \in Items, NEW q \in Quantities, DecreaseStock(i, q) PROVE TypeInv'
  <2>1. q \in Int
    BY InventoryAssumption
  <2>2. stock' \in Stocks
    BY <1>0, <1>5, <2>1, DecreasedType DEF DecreaseStock
  <2>3. put' \in Stocks /\ plain' \in BOOLEAN
    BY <1>0, <1>5, KeepType DEF DecreaseStock
  <2>4. Called("decreaseStock", NoClient, FALSE) /\ UNCHANGED inventories
    BY <1>5 DEF DecreaseStock
  <2> QED BY <1>0, <2>2, <2>3, <2>4, TypeNext
<1>6. CASE UNCHANGED vars
  BY <1>0, <1>6, TypeNext DEF vars
<1> QED
  <2>1. \A doc \in Docs : {doc, <<>>} \subseteq Docs
    BY TypeFacts
  <2> QED BY <1>1, <1>2, <1>3, <1>4, <1>5, <1>6, <2>1 DEF Next

LEMMA TypeInit == Init => TypeInv
<1> SUFFICES ASSUME Init PROVE TypeInv
  OBVIOUS
<1>1. inventories = [k \in {} |-> k]
  BY DEF Init, EmptyMap
<1>2. IsInventories(inventories) /\ IsMap(inventories, Clients, Docs)
  BY <1>1, FS_EmptySet DEF IsInventories, IsMap
<1> QED BY <1>2 DEF Init, TypeInv, TypeOK, Zero

\* Every reachable state has its type: no stock is ever negative, whatever
\* the clients list, also in the middle of an object that makes a loop throw
\* (InventoryManager.cpp:19-88).
THEOREM TypeCorrect == Spec => []TypeOK
<1>1. TypeInv => TypeOK
  BY DEF TypeInv
<1> QED BY <1>1, TypeInit, TypeStep, PTL DEF Spec
-----------------------------------------------------------------------------
(* The stock is the sum of what is listed and what was put in. *)

LEMMA StockStep == TypeInv /\ StockIsSum /\ [Next]_vars => StockIsSum'
<1> SUFFICES ASSUME TypeInv, StockIsSum, [Next]_vars, plain', NEW i \in Items
             PROVE  stock'[i] = put'[i] + ListedByAll(inventories', i)
  BY DEF StockIsSum
<1>0. /\ stock \in Stocks /\ put \in Stocks /\ plain \in BOOLEAN
      /\ IsInventories(inventories)
      /\ \A c \in DOMAIN inventories : IsObject(inventories[c])
      /\ \A doc \in Docs : IsObject(doc)
  BY TypeFacts
<1> DEFINE listed == ListedByAll(inventories, i)
<1>00. stock[i] \in Nat /\ put[i] \in Nat /\ listed \in Nat
  BY <1>0, ListedByAllType DEF Stocks
<1>1. ASSUME NEW c \in Clients, RemoveClient(c)
      PROVE  stock'[i] = put'[i] + ListedByAll(inventories', i)
  <2> DEFINE doc == inventories[c]
             rest == ListedByAll(Erase(inventories, c), i)
  <2>1. c \in DOMAIN inventories /\ IsObject(doc)
    BY <1>0, <1>1 DEF RemoveClient
  <2>2. plain /\ ~Throws(doc) /\ put' = put
    BY <1>0, <1>1, KeepType DEF RemoveClient, Throws
  <2>3. stock' = FoldLeft(RemoveItem, stock, doc) /\ Sound(doc)
    BY <1>1, <2>1, <2>2, ReachedIsSound DEF RemoveClient
  <2>4. inventories' = Erase(inventories, c)
    BY <1>1, <2>2 DEF RemoveClient
  <2>5. listed = Listed(doc, i) + rest /\ rest \in Nat /\ Listed(doc, i) \in Nat
    BY <1>0, <2>1, ListedByOthers, ListedByAllType, ListedType
  <2>6. stock[i] = put[i] + listed
    BY <2>2 DEF StockIsSum
  <2>7. Listed(doc, i) <= stock[i]
    BY <1>00, <2>5, <2>6
  <2>8. stock'[i] = stock[i] - Listed(doc, i)
    BY <1>0, <2>3, <2>7, RemoveLoop
  <2>9. put'[i] = put[i] /\ ListedByAll(inventories', i) = rest
    BY <2>2, <2>4
  <2> HIDE DEF listed, rest, doc
  <2> QED BY <1>00, <2>5, <2>6, <2>8, <2>9
<1>2. ASSUME NEW c \in Clients, NEW doc \in Docs, NEW copy, NEW missed,
             AddClient(c, doc, copy, missed)
      PROVE  stock'[i] = put'[i] + ListedByAll(inventories', i)
  <2>1. c \notin DOMAIN inventories /\ IsObject(doc)
    BY <1>0, <1>2 DEF AddClient
  <2>2. plain /\ ~Throws(doc) /\ copy = doc /\ missed = {} /\ put' = put
    BY <1>0, <1>2, KeepType DEF AddClient, Throws
  <2>3. stock' = FoldLeft(AddItem, stock, doc) /\ Sound(doc)
    BY <1>2, <2>1, <2>2, ReachedIsSound, WithoutIsSound DEF AddClient
  <2>4. inventories' = Assign(inventories, c, doc)
    BY <1>2, <2>2 DEF AddClient
  <2>5. ListedByAll(inventories', i) = Listed(doc, i) + listed /\ Listed(doc, i) \in Nat
    BY <1>0, <2>1, <2>4, ListedByOneMore, ListedType
  <2>6. stock[i] = put[i] + listed
    BY <2>2 DEF StockIsSum
  <2>7. stock'[i] = stock[i] + Listed(doc, i)
    BY <1>0, <2>3, AddLoop
  <2>8. put'[i] = put[i]
    BY <2>2
  <2> HIDE DEF listed
  <2> QED BY <1>00, <2>5, <2>6, <2>7, <2>8
<1>3. ASSUME NEW c \in Clients, NEW copy, UpdateClientInventory(c, copy)
      PROVE  stock'[i] = put'[i] + ListedByAll(inventories', i)
  BY <1>0, <1>3, KeepType DEF UpdateClientInventory
<1>4. ASSUME NEW j \in Items, NEW q \in Quantities, NEW made,
             IncreaseStock(j, q, made)
      PROVE  stock'[i] = put'[i] + ListedByAll(inventories', i)
  <2> DEFINE more == stock'[j] - stock[j]
  <2>1. q \in Int
    BY InventoryAssumption
  <2>2. /\ stock[j] \in Nat /\ more \in Int
        /\ stock'[i] = stock[i] + (IF i = j THEN more ELSE 0)
    <3>1. stock[j] \in Nat
      BY <1>0 DEF Stocks
    <3>2. CASE stock' = stock
      BY <1>00, <3>1, <3>2
    <3>3. CASE stock' = Increased(stock, j, q)
      <4>1. \A k \in Items : stock'[k] = stock[k] + (IF k = j /\ q > 0 THEN q ELSE 0)
        BY <1>0, <2>1, <3>3, IncreasedType
      <4> QED BY <1>00, <2>1, <3>1, <4>1
    <3> QED BY <1>4, <3>2, <3>3 DEF IncreaseStock
  <2>3. plain /\ inventories' = inventories
    BY <1>4 DEF IncreaseStock
  <2>4. put'[i] = put[i] + IF i = j THEN more ELSE 0
    BY <1>0, <1>00, <1>4, <2>2, <2>3 DEF IncreaseStock, Stocks
  <2>5. stock[i] = put[i] + listed /\ ListedByAll(inventories', i) = listed
    BY <2>3 DEF StockIsSum
  <2> HIDE DEF listed, more
  <2> QED BY <1>00, <2>2, <2>4, <2>5
<1>5. ASSUME NEW j \in Items, NEW q \in Quantities, DecreaseStock(j, q)
      PROVE  stock'[i] = put'[i] + ListedByAll(inventories', i)
  BY <1>0, <1>5, KeepType DEF DecreaseStock
<1>6. CASE UNCHANGED vars
  BY <1>6 DEF vars, StockIsSum
<1> QED BY <1>1, <1>2, <1>3, <1>4, <1>5, <1>6 DEF Next

\* No map lists nothing.
LEMMA NothingListed ==
  ASSUME NEW m, IsInventories(m), DOMAIN m = {}, NEW i
  PROVE  ListedByAll(m, i) = 0
<1>1. PICK it : IsSum(it, {}, Lists(m, i)) /\ ListedByAll(m, i) = it[{}]
  BY ListedByAllIsSum
<1> QED BY <1>1 DEF IsSum

\* The stock is what the clients list and what increaseStock put in, for any
\* clients, items and objects, in whatever order the clients come and go, until
\* a call takes out or updates, a key is no number or memory runs out
\* (InventoryManager.cpp:19-76).
THEOREM StockCorrect == Spec => []StockIsSum
<1>1. Init => StockIsSum
  <2> SUFFICES ASSUME Init PROVE StockIsSum
    OBVIOUS
  <2>1. IsInventories(inventories) /\ DOMAIN inventories = {}
    BY TypeInit DEF TypeInv, Init, EmptyMap
  <2>2. \A i \in Items : ListedByAll(inventories, i) = 0
    BY <2>1, NothingListed
  <2> QED BY <2>2 DEF Init, StockIsSum, Zero
<1> QED BY <1>1, TypeInit, TypeStep, StockStep, PTL DEF Spec

\* Whatever is listed, updated or malformed, removeClient takes out at most what
\* the client lists, and puts nothing in (InventoryManager.cpp:35-52, 78-88).
THEOREM RemovalCorrect == Spec => RemovalBounded
<1> DEFINE Bounded ==
      last'.call = "removeClient" =>
        \A i \in Items : stock[i] - stock'[i] \in 0..Listed(inventories[last'.client], i)
<1>1. TypeInv /\ [Next]_vars => [Bounded]_vars
  <2> SUFFICES ASSUME TypeInv, Next, last'.call = "removeClient", NEW i \in Items
               PROVE  stock[i] - stock'[i] \in 0..Listed(inventories[last'.client], i)
    OBVIOUS
  <2>0. ASSUME NEW call, NEW c, NEW b, Called(call, c, b)
        PROVE  call = "removeClient" /\ last'.client = c
    BY <2>0 DEF Called
  <2>1. PICK c \in Clients : RemoveClient(c)
    <3>1. ASSUME NEW c, NEW doc, NEW copy, NEW missed,
                 AddClient(c, doc, copy, missed) \/ UpdateClientInventory(c, copy)
          PROVE  FALSE
      BY <2>0, <3>1 DEF AddClient, UpdateClientInventory
    <3>2. ASSUME NEW j, NEW q, NEW made, IncreaseStock(j, q, made) \/ DecreaseStock(j, q)
          PROVE  FALSE
      BY <2>0, <3>2 DEF IncreaseStock, DecreaseStock
    <3> QED BY <3>1, <3>2 DEF Next
  <2> DEFINE doc == inventories[c]
             part == Reached(doc)
  <2>2. /\ stock \in Stocks /\ c \in DOMAIN inventories /\ IsObject(doc)
        /\ stock' = FoldLeft(RemoveItem, stock, part) /\ last'.client = c
    BY <2>0, <2>1, TypeFacts DEF RemoveClient
  <2>3. /\ Sound(part) /\ IsObject(part) /\ Len(part) <= Len(doc)
        /\ \A k \in 1..Len(part) : part[k] = doc[k]
    BY <2>2, ReachedIsSound
  <2> HIDE DEF part, doc
  <2>4. stock[i] - stock'[i] \in 0..Listed(part, i)
    BY <2>2, <2>3, RemoveLoop
  <2>5. Listed(part, i) <= Listed(doc, i) /\ Listed(part, i) \in Nat /\ Listed(doc, i) \in Nat
    BY <2>2, <2>3, ListedPrefix, ListedType
  <2> QED BY <2>2, <2>4, <2>5 DEF doc
<1> QED BY <1>1, TypeInit, TypeStep, PTL DEF Spec, RemovalBounded
=============================================================================
