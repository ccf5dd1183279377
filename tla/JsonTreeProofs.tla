--------------------------- MODULE JsonTreeProofs ---------------------------
(***************************************************************************)
(* What is proved of cJSON's items for any number of them: every call      *)
(* leaves the links of all lists right, and no item without an owner.      *)
(*                                                                         *)
(* First of doubly linked lists whose head points back to their tail, when *)
(* one is linked or unlinked as cJSON does it; then of the items.          *)
(***************************************************************************)
EXTENDS JsonTree, TLAPS

-----------------------------------------------------------------------------
(* Lists, as links that need not be those of one record: the items L, next *)
(* n, prev p, child c, and the list u an item is in.                       *)

Links(L, n, p, c, u) ==
  /\ \A x \in L : c[x] # NULL => c[x] \in L /\ u[c[x]] = x
  /\ \A x \in L : n[x] # NULL => n[x] \in L /\ p[n[x]] = x
  /\ \A x \in L : n[x] # NULL => u[x] # NULL /\ u[n[x]] = u[x] /\ n[x] # c[u[x]]
  /\ \A x \in L : u[x] = NULL => p[x] = NULL
  /\ \A x \in L : u[x] # NULL =>
       u[x] \in L /\ c[u[x]] # NULL /\ p[x] \in L /\ u[p[x]] = u[x]
  /\ \A x \in L : u[x] # NULL => x = c[u[x]] \/ n[p[x]] = x
  /\ \A x \in L : u[x] # NULL => (n[x] = NULL <=> x = p[c[u[x]]])

\* The items that n does not leave.
Closed(S, n) == \A z \in S : n[z] \in S \cup {NULL}

\* An item in the list of a is found from a's child.
Found(L, n, c, u) ==
  \A a \in L : \A S \in SUBSET L :
    c[a] \in S /\ Closed(S, n) => \A x \in L : u[x] = a => x \in S

Lists(L, n, p, c, u) ==
  /\ L \in SUBSET Items /\ n \in Link /\ p \in Link /\ c \in Link /\ u \in Link
  /\ Links(L, n, p, c, u) /\ Found(L, n, c, u)

\* Found is about one list at a time.
LEMMA FoundInList ==
  ASSUME NEW L, NEW n, NEW p, NEW c, NEW u, Lists(L, n, p, c, u),
         NEW a \in L, NEW S \in SUBSET L, c[a] \in S,
         \A z \in S : z \in L /\ u[z] = a => n[z] \in S \cup {NULL}
  PROVE  \A x \in L : u[x] = a => x \in S
<1> DEFINE T == {z \in S : z \in L /\ u[z] = a}
<1>1. T \in SUBSET L /\ c[a] \in T
  BY TreeAssumption DEF Lists, Links, Link
<1>2. Closed(T, n)
  <2>1. SUFFICES ASSUME NEW z \in T, n[z] # NULL
                 PROVE  n[z] \in T
    BY DEF Closed
  <2>2. n[z] \in S /\ n[z] \in L /\ u[n[z]] = a
    BY <2>1, TreeAssumption DEF Lists, Links, Link
  <2>3. QED
    BY <2>2
<1>3. QED
  BY <1>1, <1>2 DEF Lists, Found

\* A list that an operation leaves alone.
LEMMA FoundElsewhere ==
  ASSUME NEW L, NEW n, NEW p, NEW c, NEW u, Lists(L, n, p, c, u),
         NEW b \in L, NEW S \in SUBSET L, NEW nn, c[b] \in S, Closed(S, nn),
         \A z \in L : u[z] = b => nn[z] = n[z]
  PROVE  \A y \in L : u[y] = b => y \in S
<1>1. \A z \in S : z \in L /\ u[z] = b => n[z] \in S \cup {NULL}
  BY DEF Closed
<1>2. QED
  BY <1>1, FoundInList

\* No item is next to itself.
LEMMA NotItself ==
  ASSUME NEW L, NEW n, NEW p, NEW c, NEW u, Lists(L, n, p, c, u), NEW y \in L
  PROVE  /\ n[y] # y
         /\ u[y] # NULL /\ y # c[u[y]] => p[y] # y
<1>1. n[y] # y
  <2>1. SUFFICES ASSUME n[y] = y
                 PROVE  FALSE
    OBVIOUS
  <2>2. u[y] \in L /\ y # c[u[y]] /\ c[u[y]] \in L /\ p[y] = y
    BY <2>1, TreeAssumption DEF Lists, Links, Link
  <2>3. L \ {y} \in SUBSET L /\ c[u[y]] \in L \ {y} /\ Closed(L \ {y}, n)
    BY <2>1, <2>2, TreeAssumption DEF Lists, Links, Link, Closed
  <2>4. QED
    BY <2>2, <2>3 DEF Lists, Found
<1>2. QED
  BY <1>1 DEF Lists, Links

\* x is put in an empty list.
LEMMA First ==
  ASSUME NEW L, NEW n, NEW p, NEW c, NEW u, Lists(L, n, p, c, u),
         NEW a \in L, NEW x \in L, a # x, u[x] = NULL, c[a] = NULL
  PROVE  Lists(L, [n EXCEPT ![x] = NULL], [p EXCEPT ![x] = x],
               [c EXCEPT ![a] = x], [u EXCEPT ![x] = a])
<1> DEFINE nn == [n EXCEPT ![x] = NULL]
           cc == [c EXCEPT ![a] = x]
           uu == [u EXCEPT ![x] = a]
<1>1. Links(L, nn, [p EXCEPT ![x] = x], cc, uu)
  BY TreeAssumption DEF Lists, Links, Link
<1>2. Found(L, nn, cc, uu)
  <2>1. SUFFICES ASSUME NEW b \in L, NEW S \in SUBSET L, cc[b] \in S, Closed(S, nn),
                        NEW y \in L, uu[y] = b
                 PROVE  y \in S
    BY DEF Found
  <2>2. CASE b = a
    BY <2>1, <2>2, TreeAssumption DEF Lists, Links, Link
  <2>3. CASE b # a
    <3>1. c[b] \in S /\ u[y] = b /\ \A z \in L : u[z] = b => nn[z] = n[z]
      BY <2>1, <2>3, TreeAssumption DEF Lists, Link
    <3> HIDE DEF nn, cc, uu
    <3>2. QED
      BY <2>1, <3>1, FoundElsewhere
  <2>4. QED
    BY <2>2, <2>3
<1>3. QED
  BY <1>1, <1>2, TreeAssumption DEF Lists, Link

\* x is put behind the last of a's list.
LEMMA Behind ==
  ASSUME NEW L, NEW n, NEW p, NEW c, NEW u, Lists(L, n, p, c, u),
         NEW a \in L, NEW x \in L, a # x, u[x] = NULL, c[a] # NULL
  PROVE  Lists(L, [n EXCEPT ![p[c[a]]] = x],
               [p EXCEPT ![x] = p[c[a]], ![c[a]] = x], c, [u EXCEPT ![x] = a])
<1> DEFINE last == p[c[a]]
           nn == [n EXCEPT ![last] = x]
           uu == [u EXCEPT ![x] = a]
<1>1. Links(L, nn, [p EXCEPT ![x] = last, ![c[a]] = x], c, uu)
  BY TreeAssumption DEF Lists, Links, Link
<1>2. c[a] \in L /\ last \in L /\ u[last] = a /\ n[last] = NULL
  BY TreeAssumption DEF Lists, Links, Link
<1>3. Found(L, nn, c, uu)
  <2>1. SUFFICES ASSUME NEW b \in L, NEW S \in SUBSET L, c[b] \in S, Closed(S, nn),
                        NEW y \in L, uu[y] = b
                 PROVE  y \in S
    BY DEF Found
  <2>2. CASE b = a
    <3>1. \A z \in S : z \in L /\ u[z] = a => n[z] \in S \cup {NULL}
      BY <1>2, <2>1, TreeAssumption DEF Lists, Link, Closed
    <3>2. \A z \in L : u[z] = a => z \in S
      BY <2>1, <2>2, <3>1, FoundInList
    <3>3. nn[last] = x /\ last \in S
      BY <1>2, <3>2 DEF Lists, Link
    <3>4. x \in S
      BY <2>1, <3>3, TreeAssumption DEF Closed, Lists
    <3>5. QED
      BY <2>1, <2>2, <3>2, <3>4 DEF Lists, Link
  <2>3. CASE b # a
    <3>1. u[y] = b /\ \A z \in L : u[z] = b => nn[z] = n[z]
      BY <1>2, <2>1, <2>3, TreeAssumption DEF Lists, Link
    <3> HIDE DEF nn, uu
    <3>2. QED
      BY <2>1, <3>1, FoundElsewhere
  <2>4. QED
    BY <2>2, <2>3
<1>4. QED
  BY <1>1, <1>2, <1>3, TreeAssumption DEF Lists, Link

\* x is put in front of y, which is in a's list.
LEMMA InFront ==
  ASSUME NEW L, NEW n, NEW p, NEW c, NEW u, Lists(L, n, p, c, u),
         NEW a \in L, NEW x \in L, NEW y \in L, a # x, u[x] = NULL, u[y] = a,
         NEW nn, NEW cc,
         nn = IF y = c[a] THEN [n EXCEPT ![x] = y] ELSE [n EXCEPT ![x] = y, ![p[y]] = x],
         cc = IF y = c[a] THEN [c EXCEPT ![a] = x] ELSE c
  PROVE  Lists(L, nn, [p EXCEPT ![x] = p[y], ![y] = x], cc, [u EXCEPT ![x] = a])
<1> DEFINE pp == [p EXCEPT ![x] = p[y], ![y] = x]
           uu == [u EXCEPT ![x] = a]
<1>1. Links(L, nn, pp, cc, uu)
  <2>1. CASE y = c[a]
    BY <2>1, TreeAssumption DEF Lists, Links, Link
  <2>2. CASE y # c[a]
    BY <2>2, TreeAssumption, SMTT(30) DEF Lists, Links, Link
  <2>3. QED
    BY <2>1, <2>2
<1>2. Found(L, nn, cc, uu)
  <2>1. SUFFICES ASSUME NEW b \in L, NEW S \in SUBSET L, cc[b] \in S, Closed(S, nn),
                        NEW z \in L, uu[z] = b
                 PROVE  z \in S
    BY DEF Found
  <2>2. CASE b = a /\ y = c[a]
    <3>1. x \in S /\ y \in S
      BY <2>1, <2>2, TreeAssumption DEF Lists, Link, Closed
    <3>2. \A w \in S : w \in L /\ u[w] = a => n[w] \in S \cup {NULL}
      BY <2>1, <2>2, TreeAssumption DEF Lists, Link, Closed
    <3>3. \A w \in L : u[w] = a => w \in S
      BY <2>2, <3>1, <3>2, FoundInList
    <3>4. QED
      BY <2>1, <2>2, <3>1, <3>3 DEF Lists, Link
  <2>3. CASE b = a /\ y # c[a]
    <3>1. c[a] \in S /\ p[y] \in L /\ u[p[y]] = a /\ n[p[y]] = y
      BY <2>1, <2>3, TreeAssumption DEF Lists, Links, Link
    <3>2. x # p[y] /\ nn[p[y]] = x /\ nn[x] = y
      BY <2>3, <3>1, TreeAssumption DEF Lists, Link
    <3>3. p[y] \in S => x \in S /\ y \in S
      BY <2>1, <3>2, TreeAssumption DEF Lists, Closed
    <3>4. \A w \in S : w \in L /\ u[w] = a => n[w] \in S \cup {NULL}
      BY <2>1, <2>3, <3>1, <3>3, TreeAssumption DEF Lists, Link, Closed
    <3>5. \A w \in L : u[w] = a => w \in S
      BY <3>1, <3>4, FoundInList
    <3>6. QED
      BY <2>1, <2>3, <3>1, <3>3, <3>5 DEF Lists, Link
  <2>4. CASE b # a
    <3>1. c[b] \in S /\ u[z] = b /\ \A w \in L : u[w] = b => nn[w] = n[w]
      BY <2>1, <2>4, TreeAssumption DEF Lists, Links, Link
    <3>2. \A w \in S : w \in L /\ u[w] = b => n[w] \in S \cup {NULL}
      BY <2>1, <3>1 DEF Closed
    <3>3. \A w \in L : u[w] = b => w \in S
      BY <3>1, <3>2, FoundInList
    <3>4. QED
      BY <3>1, <3>3
  <2>5. QED
    BY <2>2, <2>3, <2>4
<1>3. QED
  BY <1>1, <1>2, TreeAssumption DEF Lists, Links, Link

\* The links after y has left a's list.
OutNext(n, p, c, a, y) ==
  [IF y # c[a] THEN [n EXCEPT ![p[y]] = n[y]] ELSE n EXCEPT ![y] = NULL]
OutPrev(n, p, c, a, y) ==
  [IF n[y] # NULL THEN [p EXCEPT ![n[y]] = p[y]]
   ELSE IF y # c[a] THEN [p EXCEPT ![c[a]] = p[y]] ELSE p EXCEPT ![y] = NULL]
OutChild(n, c, a, y) == [c EXCEPT ![a] = IF y = c[a] THEN n[y] ELSE c[a]]

\* y leaves a's list.
LEMMA Out ==
  ASSUME NEW L, NEW n, NEW p, NEW c, NEW u, Lists(L, n, p, c, u),
         NEW a \in L, NEW y \in L, u[y] = a
  PROVE  Lists(L, OutNext(n, p, c, a, y), OutPrev(n, p, c, a, y),
               OutChild(n, c, a, y), [u EXCEPT ![y] = NULL])
<1> DEFINE before == IF y # c[a] THEN [n EXCEPT ![p[y]] = n[y]] ELSE n
           after == IF n[y] # NULL THEN [p EXCEPT ![n[y]] = p[y]]
                    ELSE IF y # c[a] THEN [p EXCEPT ![c[a]] = p[y]] ELSE p
           nn == [before EXCEPT ![y] = NULL]
           pp == [after EXCEPT ![y] = NULL]
           cc == [c EXCEPT ![a] = IF y = c[a] THEN n[y] ELSE c[a]]
           uu == [u EXCEPT ![y] = NULL]
<1>1. Links(L, nn, pp, cc, uu)
  <2>1. CASE y = c[a] /\ n[y] = NULL
    <3>1. {y} \in SUBSET L /\ Closed({y}, n)
      BY <2>1 DEF Closed
    <3>2. \A z \in L : u[z] = a => z = y
      BY <2>1, <3>1 DEF Lists, Found
    <3>3. QED
      BY <2>1, <3>2, TreeAssumption DEF Lists, Links, Link
  <2>2. CASE y = c[a] /\ n[y] # NULL
    BY <2>2, TreeAssumption DEF Lists, Links, Link
  <2>3. CASE y # c[a] /\ n[y] = NULL
    <3>1. nn = [n EXCEPT ![p[y]] = NULL, ![y] = NULL]
      BY <2>3, TreeAssumption DEF Lists, Links, Link
    <3>2. pp = [p EXCEPT ![c[a]] = p[y], ![y] = NULL] /\ cc = c
      BY <2>3, TreeAssumption DEF Lists, Links, Link
    <3> HIDE DEF nn, pp, cc
    <3>3. /\ c[a] \in L /\ u[c[a]] = a /\ p[c[a]] \in L /\ n[p[c[a]]] = NULL
          /\ p[y] \in L /\ u[p[y]] = a /\ n[p[y]] = y /\ p[y] # y
          /\ y = p[c[a]]
      BY <2>3, TreeAssumption DEF Lists, Links, Link
    <3>4. \A z \in L : cc[z] # NULL => cc[z] \in L /\ uu[cc[z]] = z
      BY <2>3, <3>2, <3>3, TreeAssumption DEF Lists, Links, Link
    <3>5. \A z \in L : nn[z] # NULL => nn[z] \in L /\ pp[nn[z]] = z
      BY <2>3, <3>1, <3>2, <3>3, TreeAssumption DEF Lists, Links, Link
    <3>6. \A z \in L : nn[z] # NULL => uu[z] # NULL /\ uu[nn[z]] = uu[z] /\ nn[z] # cc[uu[z]]
      BY <2>3, <3>1, <3>2, <3>3, TreeAssumption DEF Lists, Links, Link
    <3>7. \A z \in L : uu[z] = NULL => pp[z] = NULL
      BY <2>3, <3>2, <3>3, TreeAssumption DEF Lists, Links, Link
    <3>8. \A z \in L : uu[z] # NULL =>
            uu[z] \in L /\ cc[uu[z]] # NULL /\ pp[z] \in L /\ uu[pp[z]] = uu[z]
      BY <2>3, <3>2, <3>3, TreeAssumption DEF Lists, Links, Link
    <3>9. \A z \in L : uu[z] # NULL => z = cc[uu[z]] \/ nn[pp[z]] = z
      BY <2>3, <3>1, <3>2, <3>3, TreeAssumption DEF Lists, Links, Link
    <3>10. \A z \in L : uu[z] # NULL => (nn[z] = NULL <=> z = pp[cc[uu[z]]])
      BY <2>3, <3>1, <3>2, <3>3, TreeAssumption DEF Lists, Links, Link
    <3>11. QED
      BY <3>4, <3>5, <3>6, <3>7, <3>8, <3>9, <3>10 DEF Links
  <2>4. CASE y # c[a] /\ n[y] # NULL
    <3>1. nn = [n EXCEPT ![p[y]] = n[y], ![y] = NULL]
      BY <2>4, TreeAssumption DEF Lists, Links, Link
    <3>2. pp = [p EXCEPT ![n[y]] = p[y], ![y] = NULL] /\ cc = c
      BY <2>4, TreeAssumption DEF Lists, Links, Link
    <3> HIDE DEF nn, pp, cc
    <3>3. /\ c[a] \in L /\ u[c[a]] = a /\ p[c[a]] \in L /\ n[p[c[a]]] = NULL
          /\ p[y] \in L /\ u[p[y]] = a /\ n[p[y]] = y /\ p[y] # y
          /\ n[y] \in L /\ u[n[y]] = a /\ p[n[y]] = y /\ n[y] # y /\ n[y] # c[a] /\ y # p[c[a]]
      <4>1. n[y] # y
        BY NotItself
      <4>2. QED
        BY <2>4, <4>1, TreeAssumption DEF Lists, Links, Link
    <3>4. \A z \in L : cc[z] # NULL => cc[z] \in L /\ uu[cc[z]] = z
      BY <2>4, <3>2, <3>3, TreeAssumption DEF Lists, Links, Link
    <3>5. \A z \in L : nn[z] # NULL => nn[z] \in L /\ pp[nn[z]] = z
      BY <2>4, <3>1, <3>2, <3>3, TreeAssumption DEF Lists, Links, Link
    <3>6. \A z \in L : nn[z] # NULL => uu[z] # NULL /\ uu[nn[z]] = uu[z] /\ nn[z] # cc[uu[z]]
      BY <2>4, <3>1, <3>2, <3>3, TreeAssumption DEF Lists, Links, Link
    <3>7. \A z \in L : uu[z] = NULL => pp[z] = NULL
      <4>1. SUFFICES ASSUME NEW z \in L, uu[z] = NULL, z # y
                     PROVE  pp[z] = NULL
        BY <3>2 DEF Lists, Link
      <4>2. u[z] = NULL /\ z # n[y] /\ p[z] = NULL
        BY <4>1, <3>3, TreeAssumption DEF Lists, Links, Link
      <4>3. QED
        BY <4>1, <4>2, <3>2, <3>3 DEF Lists, Link
    <3>8. \A z \in L : uu[z] # NULL =>
            uu[z] \in L /\ cc[uu[z]] # NULL /\ pp[z] \in L /\ uu[pp[z]] = uu[z]
      BY <2>4, <3>2, <3>3, TreeAssumption DEF Lists, Links, Link
    <3>9. \A z \in L : uu[z] # NULL => z = cc[uu[z]] \/ nn[pp[z]] = z
      BY <2>4, <3>1, <3>2, <3>3, TreeAssumption DEF Lists, Links, Link
    <3>10. \A z \in L : uu[z] # NULL => (nn[z] = NULL <=> z = pp[cc[uu[z]]])
      BY <2>4, <3>1, <3>2, <3>3, TreeAssumption DEF Lists, Links, Link
    <3>11. QED
      BY <3>4, <3>5, <3>6, <3>7, <3>8, <3>9, <3>10 DEF Links
  <2>5. QED
    BY <2>1, <2>2, <2>3, <2>4
<1>2. Found(L, nn, cc, uu)
  <2>1. SUFFICES ASSUME NEW b \in L, NEW S \in SUBSET L, cc[b] \in S, Closed(S, nn),
                        NEW z \in L, uu[z] = b
                 PROVE  z \in S
    BY DEF Found
  <2>2. u[z] = b /\ z # y
    BY <2>1, TreeAssumption DEF Lists, Link
  <2>3. CASE b = a
    <3> DEFINE T == S \cup {y}
    <3>1. CASE y = c[a]
      <4>1. n[y] \in S
        BY <2>1, <2>3, <3>1, TreeAssumption DEF Lists, Link
      <4>2. \A w \in T : w \in L /\ u[w] = a => n[w] \in T \cup {NULL}
        BY <2>1, <3>1, <4>1, TreeAssumption DEF Lists, Link, Closed
      <4> HIDE DEF T
      <4>3. T \in SUBSET L /\ c[a] \in T
        BY <3>1 DEF T
      <4>4. \A w \in L : u[w] = a => w \in T
        BY <4>2, <4>3, FoundInList
      <4>5. QED
        BY <2>2, <2>3, <4>4 DEF T
    <3>2. CASE y # c[a]
      <4>1. c[a] \in S /\ p[y] \in L /\ u[p[y]] = a /\ n[p[y]] = y /\ p[y] # y
        BY <2>1, <2>3, <3>2, TreeAssumption DEF Lists, Links, Link
      <4>2. nn[p[y]] = n[y]
        BY <3>2, <4>1 DEF Lists, Link
      <4>3. CASE p[y] \in S
        <5>1. n[y] \in S \cup {NULL}
          BY <2>1, <4>2, <4>3 DEF Closed
        <5>2. \A w \in T : w \in L /\ u[w] = a => n[w] \in T \cup {NULL}
          BY <2>1, <3>2, <4>1, <5>1, TreeAssumption DEF Lists, Link, Closed
        <5> HIDE DEF T
        <5>3. T \in SUBSET L /\ c[a] \in T
          BY <4>1 DEF T
        <5>4. \A w \in L : u[w] = a => w \in T
          BY <5>2, <5>3, FoundInList
        <5>5. QED
          BY <2>2, <2>3, <5>4 DEF T
      <4>4. CASE p[y] \notin S
        <5> DEFINE R == S \ {y}
        <5>1. \A w \in R : w \in L /\ u[w] = a => n[w] \in R \cup {NULL}
          BY <2>1, <3>2, <4>1, <4>4, TreeAssumption DEF Lists, Links, Link, Closed
        <5> HIDE DEF R
        <5>2. R \in SUBSET L /\ c[a] \in R
          BY <3>2, <4>1 DEF R
        <5>3. \A w \in L : u[w] = a => w \in R
          BY <5>1, <5>2, FoundInList
        <5>4. QED
          BY <4>1, <4>4, <5>3 DEF R
      <4>5. QED
        BY <4>3, <4>4
    <3>3. QED
      BY <3>1, <3>2
  <2>4. CASE b # a
    <3>1. c[b] \in S /\ \A w \in L : u[w] = b => nn[w] = n[w]
      BY <2>1, <2>4, TreeAssumption DEF Lists, Links, Link
    <3> HIDE DEF nn, uu, cc
    <3>2. QED
      BY <2>1, <2>2, <3>1, FoundElsewhere
  <2>5. QED
    BY <2>3, <2>4
<1>3. before \in Link /\ after \in Link
  BY TreeAssumption DEF Lists, Links, Link
<1>4. nn \in Link /\ pp \in Link /\ cc \in Link /\ uu \in Link
  BY <1>3, TreeAssumption DEF Lists, Links, Link
<1>5. QED
  BY <1>1, <1>2, <1>4 DEF Lists, OutNext, OutPrev, OutChild

\* The links after x has taken the place of y in a's list.
SwapNext(n, p, c, a, y, x) ==
  LET n1 == [n EXCEPT ![x] = n[y]] IN
  [IF y # c[a] /\ p[y] # NULL THEN [n1 EXCEPT ![p[y]] = x] ELSE n1 EXCEPT ![y] = NULL]
SwapPrev(n, p, c, a, y, x) ==
  LET p1 == [z \in Items |-> IF z = x THEN p[y] ELSE IF z = n[y] THEN x ELSE p[z]] IN
  [IF y = c[a] THEN IF p1[y] = y THEN [p1 EXCEPT ![x] = x] ELSE p1
   ELSE IF n[y] = NULL THEN [p1 EXCEPT ![c[a]] = x] ELSE p1 EXCEPT ![y] = NULL]
SwapChild(c, a, y, x) == IF y = c[a] THEN [c EXCEPT ![a] = x] ELSE c

\* x takes the place of y in a's list, as Replaced does it: as if x had been
\* put in front of y, and y taken out.
LEMMA Swap ==
  ASSUME NEW L, NEW n, NEW p, NEW c, NEW u, Lists(L, n, p, c, u),
         NEW a \in L, NEW x \in L, NEW y \in L, a # x, u[x] = NULL, u[y] = a
  PROVE  Lists(L, SwapNext(n, p, c, a, y, x), SwapPrev(n, p, c, a, y, x),
               SwapChild(c, a, y, x), [u EXCEPT ![y] = NULL, ![x] = a])
<1> DEFINE n1 == [n EXCEPT ![x] = n[y]]
           p1 == [z \in Items |-> IF z = x THEN p[y] ELSE IF z = n[y] THEN x ELSE p[z]]
           n2 == IF y # c[a] /\ p[y] # NULL THEN [n1 EXCEPT ![p[y]] = x] ELSE n1
           p2 == IF y = c[a] THEN IF p1[y] = y THEN [p1 EXCEPT ![x] = x] ELSE p1
                 ELSE IF n[y] = NULL THEN [p1 EXCEPT ![c[a]] = x] ELSE p1
<1> DEFINE ni == IF y = c[a] THEN [n EXCEPT ![x] = y] ELSE [n EXCEPT ![x] = y, ![p[y]] = x]
           pi == [p EXCEPT ![x] = p[y], ![y] = x]
           ci == IF y = c[a] THEN [c EXCEPT ![a] = x] ELSE c
           ui == [u EXCEPT ![x] = a]
           before == IF y # ci[a] THEN [ni EXCEPT ![pi[y]] = ni[y]] ELSE ni
           after == IF ni[y] # NULL THEN [pi EXCEPT ![ni[y]] = pi[y]]
                    ELSE IF y # ci[a] THEN [pi EXCEPT ![ci[a]] = pi[y]] ELSE pi
<1>1. Lists(L, ni, pi, ci, ui)
  BY InFront
<1>2. x # y /\ ui[y] = a /\ n[y] # y /\ (y # c[a] => p[y] # y)
  <2>1. x # y /\ ui[y] = a /\ a # NULL
    BY TreeAssumption DEF Lists, Links, Link
  <2>2. n[y] # y /\ (u[y] # NULL /\ y # c[u[y]] => p[y] # y)
    BY NotItself
  <2>3. QED
    BY <2>1, <2>2
<1>3. Lists(L, OutNext(ni, pi, ci, a, y), OutPrev(ni, pi, ci, a, y),
            OutChild(ni, ci, a, y), [ui EXCEPT ![y] = NULL])
  <2> HIDE DEF ni, pi, ci, ui
  <2>1. QED
    BY <1>1, <1>2, Out
<1>4. OutNext(ni, pi, ci, a, y) = [n2 EXCEPT ![y] = NULL]
  <2>1. CASE y = c[a]
    BY <1>2, <2>1, TreeAssumption DEF Lists, Links, Link, OutNext
  <2>2. CASE y # c[a]
    BY <1>2, <2>2, TreeAssumption DEF Lists, Links, Link, OutNext
  <2>3. QED
    BY <2>1, <2>2
<1>5. OutPrev(ni, pi, ci, a, y) = [p2 EXCEPT ![y] = NULL]
  <2>1. CASE y = c[a] /\ n[y] = NULL
    BY <1>2, <2>1, TreeAssumption DEF Lists, Links, Link, OutPrev
  <2>2. CASE y = c[a] /\ n[y] # NULL
    BY <1>2, <2>2, TreeAssumption DEF Lists, Links, Link, OutPrev
  <2>3. CASE y # c[a] /\ n[y] = NULL
    <3>1. p[y] \in L /\ p[y] # x /\ c[a] # x
      BY <1>2, <2>3, TreeAssumption DEF Lists, Links, Link
    <3>2. ci = c /\ ni[y] = NULL /\ pi[y] = x
      BY <1>2, <2>3, <3>1, TreeAssumption DEF Lists, Links, Link
    <3>3. OutPrev(ni, pi, ci, a, y) = [p EXCEPT ![x] = p[y], ![c[a]] = x, ![y] = NULL]
      BY <1>2, <2>3, <3>1, <3>2 DEF OutPrev, Lists, Link
    <3>4. n1[x] = NULL /\ y \in Items /\ x \in Items /\ c[a] \in Items
      BY <2>3, <3>1, TreeAssumption DEF Lists, Links, Link
    <3>5. p2 = [p1 EXCEPT ![c[a]] = x]
      BY <2>3, <3>4
    <3>6. \A z \in Items : p1[z] = IF z = x THEN p[y] ELSE p[z]
      BY <2>3, TreeAssumption
    <3>7. \A z \in Items : [p2 EXCEPT ![y] = NULL][z] =
            [p EXCEPT ![x] = p[y], ![c[a]] = x, ![y] = NULL][z]
      <4>1. p2 \in [Items -> Items \cup {NULL}] /\ p1 \in [Items -> Items \cup {NULL}]
        BY <3>4, <3>5, TreeAssumption DEF Lists, Link
      <4>2. p \in [Items -> Items \cup {NULL}]
        BY DEF Lists, Link
      <4>3. QED
        BY <1>2, <3>1, <3>4, <3>5, <3>6, <4>1, <4>2
    <3>8. [p2 EXCEPT ![y] = NULL] = [p EXCEPT ![x] = p[y], ![c[a]] = x, ![y] = NULL]
      <4> DEFINE f == [p2 EXCEPT ![y] = NULL]
                 g == [p EXCEPT ![x] = p[y], ![c[a]] = x, ![y] = NULL]
      <4>1. DOMAIN p1 = Items /\ DOMAIN p = Items
        BY DEF Lists, Link
      <4>2. f = [z \in Items |-> f[z]] /\ g = [z \in Items |-> g[z]]
        BY <3>5, <4>1
      <4> HIDE DEF f, g
      <4>3. \A z \in Items : f[z] = g[z]
        BY <3>7 DEF f, g
      <4>4. f = g
        BY <4>2, <4>3
      <4>5. QED
        BY <4>4 DEF f, g
    <3>9. QED
      BY <3>3, <3>8
  <2>4. CASE y # c[a] /\ n[y] # NULL
    <3>1. p[y] \in L /\ p[y] # x /\ c[a] # x /\ n[y] \in L /\ n[y] # x
      BY <1>2, <2>4, TreeAssumption DEF Lists, Links, Link
    <3>2. ci = c /\ ni[y] = n[y] /\ pi[y] = x
      BY <1>2, <2>4, <3>1, TreeAssumption DEF Lists, Links, Link
    <3>3. OutPrev(ni, pi, ci, a, y) = [p EXCEPT ![x] = p[y], ![n[y]] = x, ![y] = NULL]
      BY <1>2, <2>4, <3>1, <3>2 DEF OutPrev, Lists, Link
    <3>4. QED
      BY <1>2, <2>4, <3>1, <3>3, TreeAssumption DEF Lists, Link
  <2>5. QED
    BY <2>1, <2>2, <2>3, <2>4
<1>6. OutChild(ni, ci, a, y) = ci
  BY <1>2, TreeAssumption DEF Lists, Links, Link, OutChild
<1>7. [ui EXCEPT ![y] = NULL] = [u EXCEPT ![y] = NULL, ![x] = a]
  BY <1>2
<1>8. QED
  BY <1>3, <1>4, <1>5, <1>6, <1>7 DEF SwapNext, SwapPrev, SwapChild

\* The items G are freed: x, and what is in the lists of items of G.
LEMMA Cut ==
  ASSUME NEW L, NEW n, NEW p, NEW c, NEW u, Lists(L, n, p, c, u),
         NEW x \in L, u[x] = NULL, NEW G \in SUBSET L,
         \A y \in L : y \in G <=> y = x \/ u[y] \in G,
         NEW nn, nn = [y \in Items |-> IF y \in G THEN NULL ELSE n[y]],
         NEW pp, pp = [y \in Items |-> IF y \in G THEN NULL ELSE p[y]],
         NEW cc, cc = [y \in Items |-> IF y \in G THEN NULL ELSE c[y]],
         NEW uu, uu = [y \in Items |-> IF y \in G THEN NULL ELSE u[y]]
  PROVE  Lists(L \ G, nn, pp, cc, uu)
<1>1. Links(L \ G, nn, pp, cc, uu)
  BY TreeAssumption DEF Lists, Links, Link
<1>2. Found(L \ G, nn, cc, uu)
  <2>1. SUFFICES ASSUME NEW b \in L \ G, NEW S \in SUBSET (L \ G), cc[b] \in S, Closed(S, nn),
                        NEW z \in L \ G, uu[z] = b
                 PROVE  z \in S
    BY DEF Found
  <2>2. S \in SUBSET L /\ c[b] \in S /\ u[z] = b
    BY <2>1 DEF Lists
  <2>3. \A w \in S : w \in L /\ u[w] = b => n[w] \in S \cup {NULL}
    BY <2>1 DEF Lists, Closed
  <2>4. \A w \in L : u[w] = b => w \in S
    BY <2>1, <2>2, <2>3, FoundInList
  <2>5. QED
    BY <2>1, <2>2, <2>4
<1>3. QED
  BY <1>1, <1>2, TreeAssumption DEF Lists, Link

-----------------------------------------------------------------------------
(* The items. *)

ListsOf(h) == Lists(h.live, h.next, h.prev, h.child, h.parent)

\* Going up from list to list comes to an end.
Grounded(L, u) == \A S \in SUBSET L : (\A y \in S : u[y] \in S) => S = {}

Blanked(h) ==
  \A x \in Items \ h.live :
    NULL = h.next[x] /\ NULL = h.prev[x] /\ NULL = h.child[x]
    /\ NULL = h.string[x] /\ NULL = h.parent[x]

Good(h) == h \in Heap /\ ListsOf(h) /\ Grounded(h.live, h.parent) /\ Blanked(h)

\* The items that are in no list.
Roots(h) == {y \in h.live : h.parent[y] = NULL}

\* The inductive invariant: the caller holds what is in no list.
TreeInv == Good(heap) /\ held = Roots(heap)

-----------------------------------------------------------------------------
(* Walks. *)

LEMMA HeapFields ==
  ASSUME NEW h \in Heap
  PROVE  /\ h.live \in SUBSET Items
         /\ h.next \in [Items -> Items \cup {NULL}] /\ h.prev \in [Items -> Items \cup {NULL}]
         /\ h.child \in [Items -> Items \cup {NULL}] /\ h.parent \in [Items -> Items \cup {NULL}]
         /\ h.string \in [Items -> Names \cup {NULL}]
         /\ NULL \notin Items
  BY TreeAssumption DEF Heap, Link

LEMMA HeapIsRecord ==
  ASSUME NEW h \in Heap
  PROVE  h = [live |-> h.live, next |-> h.next, prev |-> h.prev, child |-> h.child,
              string |-> h.string, parent |-> h.parent]
  BY DEF Heap

\* A walk along next stays in the list.
LEMMA ChainInList ==
  ASSUME NEW h, Good(h), NEW x \in h.live, h.parent[x] # NULL, NEW y \in Chain(h, x)
  PROVE  y \in h.live /\ h.parent[y] = h.parent[x]
<1> DEFINE S == {z \in h.live : h.parent[z] = h.parent[x]}
<1>1. x \in S /\ S \in SUBSET h.live
  OBVIOUS
<1>2. \A z \in S : h.next[z] \in S \cup {NULL}
  BY DEF Good, ListsOf, Lists, Links
<1> HIDE DEF S
<1>3. y \in S
  BY <1>1, <1>2 DEF Chain
<1>4. QED
  BY <1>3 DEF S

LEMMA InListIsParent ==
  ASSUME NEW h, Good(h), NEW a \in h.live, NEW y
  PROVE  y \in InList(h, a) <=> y \in h.live /\ h.parent[y] = a
<1>1. ASSUME y \in InList(h, a) PROVE y \in h.live /\ h.parent[y] = a
  <2>1. h.child[a] \in h.live
    BY <1>1 DEF InList, Chain
  <2>2. h.parent[h.child[a]] = a /\ a # NULL
    BY <2>1, HeapFields DEF Good, ListsOf, Lists, Links
  <2>3. QED
    BY <1>1, <2>1, <2>2, ChainInList DEF InList
<1>2. ASSUME y \in h.live, h.parent[y] = a PROVE y \in InList(h, a)
  <2>1. h.child[a] # NULL /\ h.child[a] \in h.live
    BY <1>2, HeapFields DEF Good, ListsOf, Lists, Links
  <2>2. \A S \in SUBSET h.live :
          h.child[a] \in S /\ (\A z \in S : h.next[z] \in S \cup {NULL}) => y \in S
    BY <1>2 DEF Good, ListsOf, Lists, Found, Closed
  <2>3. QED
    BY <1>2, <2>1, <2>2 DEF InList, Chain
<1>3. QED
  BY <1>1, <1>2

\* What an item can reach: itself and the lists of what it can reach.
LEMMA ReachClosed ==
  ASSUME NEW h, Good(h), NEW x \in h.live
  PROVE  /\ x \in Reach(h, x) /\ Reach(h, x) \in SUBSET h.live
         /\ \A z \in Reach(h, x) : h.next[z] \in Reach(h, x) \cup {NULL}
         /\ \A z \in Reach(h, x) : h.child[z] \in Reach(h, x) \cup {NULL}
         /\ \A y \in h.live : h.parent[y] \in Reach(h, x) => y \in Reach(h, x)
<1> DEFINE R == Reach(h, x)
<1>1. x \in R /\ R \in SUBSET h.live
  BY DEF Reach
<1>2. ASSUME NEW z \in R, NEW w \in {h.next[z], h.child[z]}, w # NULL PROVE w \in R
  <2>1. w \in h.live
    BY <1>2 DEF Reach, Good, ListsOf, Lists, Links
  <2>2. ASSUME NEW S \in SUBSET h.live, x \in S,
               \A v \in S : {h.next[v], h.child[v]} \subseteq S \cup {NULL}
        PROVE  w \in S
    BY <1>2, <2>2 DEF Reach
  <2>3. QED
    BY <2>1, <2>2 DEF Reach
<1>3. ASSUME NEW y \in h.live, h.parent[y] \in R PROVE y \in R
  <2>1. h.child[h.parent[y]] # NULL /\ h.parent[y] \in h.live
    BY <1>3, <1>1, HeapFields DEF Good, ListsOf, Lists, Links
  <2>2. h.child[h.parent[y]] \in R
    BY <1>2, <1>3, <2>1
  <2>3. Closed(R, h.next)
    BY <1>2 DEF Closed
  <2>4. QED
    BY <1>1, <2>1, <2>2, <2>3 DEF Good, ListsOf, Lists, Found
<1>4. QED
  BY <1>1, <1>2, <1>3

\* From a root nothing else is reached.
LEMMA ReachFromRoot ==
  ASSUME NEW h, Good(h), NEW x \in Roots(h), NEW y \in Reach(h, x)
  PROVE  y = x \/ h.parent[y] \in Reach(h, x)
<1> DEFINE R == Reach(h, x)
           S == {z \in R : z = x \/ h.parent[z] \in R}
<1>1. x \in h.live /\ h.parent[x] = NULL
  BY DEF Roots
<1>2. /\ x \in R /\ R \in SUBSET h.live
      /\ \A z \in R : h.next[z] \in R \cup {NULL} /\ h.child[z] \in R \cup {NULL}
  BY <1>1, ReachClosed
<1> HIDE DEF R
<1>3. x \in S /\ S \in SUBSET h.live
  BY <1>2
<1>4. ASSUME NEW z \in S, h.next[z] # NULL PROVE h.next[z] \in S
  BY <1>1, <1>2, <1>4 DEF Good, ListsOf, Lists, Links
<1>5. ASSUME NEW z \in S, h.child[z] # NULL PROVE h.child[z] \in S
  BY <1>1, <1>2, <1>5 DEF Good, ListsOf, Lists, Links
<1> HIDE DEF S
<1>6. y \in S
  BY <1>3, <1>4, <1>5 DEF Reach, R
<1>7. QED
  BY <1>6 DEF S, R

\* The links are as Linked wants them.
LEMMA GoodLinked == ASSUME NEW h, Good(h) PROVE WellLinked(h)
<1> SUFFICES ASSUME NEW x \in h.live
    PROVE /\ h.child[x] # NULL => h.child[x] \in h.live /\ h.parent[h.child[x]] = x
          /\ h.next[x] # NULL =>
               /\ h.next[x] \in h.live /\ h.prev[h.next[x]] = x
               /\ h.parent[x] # NULL /\ h.parent[h.next[x]] = h.parent[x]
               /\ h.next[x] # h.child[h.parent[x]]
          /\ h.parent[x] = NULL => h.prev[x] = NULL
          /\ h.parent[x] # NULL =>
               /\ h.parent[x] \in h.live /\ h.child[h.parent[x]] # NULL
               /\ h.prev[x] \in h.live /\ h.parent[h.prev[x]] = h.parent[x]
               /\ x = h.child[h.parent[x]] \/ h.next[h.prev[x]] = x
               /\ h.next[x] = NULL <=> x = h.prev[h.child[h.parent[x]]]
               /\ x \in InList(h, h.parent[x])
  BY DEF WellLinked
<1>1. h.parent[x] # NULL => h.parent[x] \in h.live
  BY DEF Good, ListsOf, Lists, Links
<1>2. h.parent[x] # NULL => x \in InList(h, h.parent[x])
  BY <1>1, InListIsParent
<1>3. QED
  BY <1>1, <1>2 DEF Good, ListsOf, Lists, Links

\* Every item is reached from a root.
LEMMA RootsReachAll ==
  ASSUME NEW h, Good(h)
  PROVE  h.live = UNION {Reach(h, x) : x \in Roots(h)}
<1> DEFINE D == {y \in h.live : \A x \in Roots(h) : y \notin Reach(h, x)}
<1>1. ASSUME NEW y \in D PROVE h.parent[y] \in D
  <2>1. h.parent[y] # NULL
    <3>1. SUFFICES ASSUME h.parent[y] = NULL PROVE FALSE
      OBVIOUS
    <3>2. y \in Roots(h) /\ y \in h.live
      BY <1>1, <3>1 DEF Roots
    <3>3. QED
      BY <1>1, <3>2, ReachClosed
  <2>2. h.parent[y] \in h.live
    BY <1>1, <2>1 DEF Good, ListsOf, Lists, Links
  <2>3. ASSUME NEW x \in Roots(h), h.parent[y] \in Reach(h, x) PROVE FALSE
    <3>1. x \in h.live
      BY DEF Roots
    <3>2. QED
      BY <1>1, <2>3, <3>1, ReachClosed
  <2>4. QED
    BY <2>2, <2>3
<1>2. D = {}
  BY <1>1 DEF Good, Grounded
<1>3. \A x \in Roots(h) : Reach(h, x) \subseteq h.live
  BY DEF Reach
<1>4. QED
  BY <1>2, <1>3

-----------------------------------------------------------------------------
(* What each operation leaves of a good heap. *)

LEMMA GroundedUnlinked ==
  ASSUME NEW L, NEW u, Grounded(L, u), NULL \notin L, NEW y
  PROVE  Grounded(L, [u EXCEPT ![y] = NULL])
  BY DEF Grounded

\* x goes under a, which is not among what is under x.
LEMMA GroundedLinked ==
  ASSUME NEW L \in SUBSET Items, NEW u \in Link, Grounded(L, u),
         NEW R \in SUBSET L, NEW x \in R, NEW a,
         a \notin R, \A y \in L : u[y] \in R => y \in R
  PROVE  Grounded(L, [u EXCEPT ![x] = a])
<1> DEFINE uu == [u EXCEPT ![x] = a]
<1>1. SUFFICES ASSUME NEW S \in SUBSET L, \A y \in S : uu[y] \in S, NEW z \in S
               PROVE  FALSE
  BY DEF Grounded
<1>2. \A y \in S \ R : u[y] \in S \ R
  BY <1>1
<1>3. S \ R = {}
  BY <1>2 DEF Grounded
<1>4. x \notin S
  <2>1. SUFFICES ASSUME x \in S PROVE FALSE
    OBVIOUS
  <2>2. a \in S
    BY <1>1, <2>1 DEF Link
  <2>3. QED
    BY <1>3, <2>2
<1>5. \A y \in S : u[y] \in S
  BY <1>1, <1>4
<1>6. QED
  BY <1>1, <1>5 DEF Grounded

LEMMA AllocatedFields ==
  ASSUME NEW h \in Heap, NEW xs \in SUBSET Items, NEW g, g = Allocated(h, xs)
  PROVE  /\ g.live = h.live \cup xs /\ g.next = h.next /\ g.prev = h.prev
         /\ g.child = h.child /\ g.string = h.string /\ g.parent = h.parent /\ g \in Heap
  BY DEF Allocated, Heap

LEMMA GoodAllocated ==
  ASSUME NEW h, Good(h), NEW xs \in SUBSET (Items \ h.live)
  PROVE  Good(Allocated(h, xs)) /\ Roots(Allocated(h, xs)) = Roots(h) \cup xs
<1> DEFINE L == h.live \cup xs
           g == Allocated(h, xs)
<1>1. h \in Heap
  BY DEF Good
<1>2. /\ g.live = L /\ g.next = h.next /\ g.prev = h.prev /\ g.child = h.child
      /\ g.string = h.string /\ g.parent = h.parent /\ g \in Heap
  BY <1>1, AllocatedFields
<1>3. \A x \in xs : /\ h.next[x] = NULL /\ h.prev[x] = NULL /\ h.child[x] = NULL
                    /\ h.parent[x] = NULL
  BY DEF Good, Blanked
<1>4. Links(L, h.next, h.prev, h.child, h.parent)
  BY <1>3, HeapFields DEF Good, ListsOf, Lists, Links
<1>5. Found(L, h.next, h.child, h.parent)
  <2>1. SUFFICES ASSUME NEW a \in L, NEW S \in SUBSET L, h.child[a] \in S, Closed(S, h.next),
                        NEW y \in L, h.parent[y] = a
                 PROVE  y \in S
    BY DEF Found
  <2>2. a \in h.live /\ y \in h.live
    BY <1>1, <1>3, <2>1, HeapFields
  <2>3. S \cap h.live \in SUBSET h.live /\ h.child[a] \in S \cap h.live
    BY <1>1, <2>1, <2>2, HeapFields DEF Good, ListsOf, Lists, Links
  <2>4. Closed(S \cap h.live, h.next)
    BY <2>1 DEF Closed, Good, ListsOf, Lists, Links
  <2>5. QED
    BY <2>1, <2>2, <2>3, <2>4 DEF Good, ListsOf, Lists, Found
<1>6. Grounded(L, h.parent)
  <2>1. SUFFICES ASSUME NEW S \in SUBSET L, \A y \in S : h.parent[y] \in S
                 PROVE  S = {}
    BY DEF Grounded
  <2>2. S \in SUBSET h.live
    BY <1>1, <1>3, <2>1, HeapFields
  <2>3. QED
    BY <2>1, <2>2 DEF Good, Grounded
<1>7. Lists(L, h.next, h.prev, h.child, h.parent)
  BY <1>1, <1>4, <1>5, HeapFields DEF Lists, Link
<1> HIDE DEF g
<1>8. Good(g)
  BY <1>2, <1>6, <1>7 DEF Good, ListsOf, Blanked
<1>9. Roots(g) = Roots(h) \cup xs
  BY <1>2, <1>3 DEF Roots
<1>10. QED
  BY <1>8, <1>9 DEF g

LEMMA NamedFields ==
  ASSUME NEW h \in Heap, NEW x \in Items, NEW k \in Names \cup {NULL}, NEW g,
         g = Named(h, x, k)
  PROVE  /\ g.live = h.live /\ g.next = h.next /\ g.prev = h.prev /\ g.child = h.child
         /\ g.string = [h.string EXCEPT ![x] = k] /\ g.parent = h.parent /\ g \in Heap
  BY DEF Named, Heap

LEMMA GoodNamed ==
  ASSUME NEW h, Good(h), NEW x \in h.live, NEW k \in Names \cup {NULL}
  PROVE  /\ Good(Named(h, x, k)) /\ Roots(Named(h, x, k)) = Roots(h)
         /\ Named(h, x, k).live = h.live /\ Named(h, x, k).parent = h.parent
         /\ \A y : Reach(Named(h, x, k), y) = Reach(h, y)
<1> DEFINE g == Named(h, x, k)
<1>1. h \in Heap /\ x \in Items
  BY DEF Good, Heap
<1>2. /\ g.live = h.live /\ g.next = h.next /\ g.prev = h.prev /\ g.child = h.child
      /\ g.string = [h.string EXCEPT ![x] = k] /\ g.parent = h.parent /\ g \in Heap
  BY <1>1, NamedFields
<1> HIDE DEF g
<1>3. \A y \in Items \ h.live : g.string[y] = h.string[y]
  BY <1>1, <1>2
<1>4. Good(g)
  BY <1>2, <1>3 DEF Good, ListsOf, Blanked
<1>5. Roots(g) = Roots(h) /\ \A y : Reach(g, y) = Reach(h, y)
  BY <1>2 DEF Roots, Reach
<1>6. QED
  BY <1>2, <1>4, <1>5 DEF g

\* x, a root, is put into a's list, however it is linked there.
LEMMA GoodPut ==
  ASSUME NEW h, Good(h), NEW g \in Heap, NEW a \in h.live, NEW x \in Roots(h),
         a \notin Reach(h, x),
         g.live = h.live, g.string = h.string,
         g.parent = [h.parent EXCEPT ![x] = a],
         ListsOf(g), \A y \in Items \ h.live : /\ g.next[y] = h.next[y]
                                               /\ g.prev[y] = h.prev[y]
                                               /\ g.child[y] = h.child[y]
  PROVE  Good(g) /\ Roots(g) = Roots(h) \ {x}
<1>1. h \in Heap /\ x \in h.live /\ x \in Items /\ a # NULL
  BY HeapFields DEF Good, Heap, Roots
<1>2. Grounded(g.live, g.parent)
  <2>1. /\ x \in Reach(h, x) /\ Reach(h, x) \in SUBSET h.live
        /\ \A y \in h.live : h.parent[y] \in Reach(h, x) => y \in Reach(h, x)
    BY <1>1, ReachClosed
  <2>2. Grounded(h.live, h.parent) /\ h.live \in SUBSET Items /\ h.parent \in Link
    BY DEF Good, Heap
  <2>3. Grounded(h.live, [h.parent EXCEPT ![x] = a])
    BY <2>1, <2>2, GroundedLinked
  <2>4. QED
    BY <2>3
<1>3. \A y \in Items \ h.live : g.parent[y] = h.parent[y]
  BY <1>1, HeapFields
<1>4. Blanked(g)
  BY <1>3 DEF Good, Blanked
<1>5. Roots(g) = Roots(h) \ {x}
  BY <1>1, HeapFields DEF Roots
<1>6. QED
  BY <1>2, <1>4, <1>5 DEF Good

\* The heads of lists and their tails.
LEMMA HeadAndTail ==
  ASSUME NEW h, Good(h), NEW a \in h.live, h.child[a] # NULL
  PROVE  /\ h.child[a] \in h.live /\ h.prev[h.child[a]] \in h.live
         /\ h.prev[h.child[a]] # NULL
<1>1. h.child[a] \in h.live /\ h.parent[h.child[a]] = a
  BY DEF Good, ListsOf, Lists, Links
<1>2. a # NULL /\ h.live \in SUBSET Items /\ NULL \notin Items
  BY HeapFields DEF Good
<1>3. QED
  BY <1>1, <1>2 DEF Good, ListsOf, Lists, Links

\* The fields after add_item_to_array, on an empty list and on any other.
AppendedFirst(h, g, a, x) ==
  /\ g \in Heap /\ g.live = h.live /\ g.string = h.string
  /\ g.parent = [h.parent EXCEPT ![x] = a]
  /\ g.next = [h.next EXCEPT ![x] = NULL] /\ g.prev = [h.prev EXCEPT ![x] = x]
  /\ g.child = [h.child EXCEPT ![a] = x]
AppendedLast(h, g, a, x, head) ==
  /\ g \in Heap /\ g.live = h.live /\ g.string = h.string
  /\ g.parent = [h.parent EXCEPT ![x] = a]
  /\ g.next = [h.next EXCEPT ![h.prev[head]] = x]
  /\ g.prev = [h.prev EXCEPT ![x] = h.prev[head], ![head] = x]
  /\ g.child = h.child

LEMMA AppendedFields ==
  ASSUME NEW h, Good(h), NEW a \in h.live, NEW x \in h.live, NEW g, g = Appended(h, a, x),
         NEW head, head = h.child[a]
  PROVE  /\ head = NULL => AppendedFirst(h, g, a, x)
         /\ head # NULL => AppendedLast(h, g, a, x, head)
<1>1. h \in Heap /\ x \in Items /\ a \in Items
  BY HeapFields DEF Good
<1>2. CASE head = NULL
  <2>1. g = [h EXCEPT !.child[a] = x, !.prev[x] = x, !.next[x] = NULL, !.parent[x] = a]
    BY <1>2 DEF Appended
  <2>2. g = [live |-> h.live, next |-> [h.next EXCEPT ![x] = NULL],
             prev |-> [h.prev EXCEPT ![x] = x], child |-> [h.child EXCEPT ![a] = x],
             string |-> h.string, parent |-> [h.parent EXCEPT ![x] = a]]
    BY <1>1, <2>1 DEF Heap
  <2>3. QED
    BY <1>1, <1>2, <2>2, HeapFields DEF Heap, Link, AppendedFirst
<1>3. CASE head # NULL
  <2>1. head \in h.live /\ h.prev[head] \in h.live /\ h.prev[head] # NULL
    BY <1>3, HeadAndTail
  <2>2. g = [h EXCEPT !.next[h.prev[head]] = x,
                      !.prev = [@ EXCEPT ![x] = h.prev[head], ![head] = x], !.parent[x] = a]
    BY <1>3, <2>1 DEF Appended
  <2>3. head \in Items /\ h.prev[head] \in Items
    BY <1>1, <2>1, HeapFields
  <2>4. g = [live |-> h.live, next |-> [h.next EXCEPT ![h.prev[head]] = x],
             prev |-> [h.prev EXCEPT ![x] = h.prev[head], ![head] = x], child |-> h.child,
             string |-> h.string, parent |-> [h.parent EXCEPT ![x] = a]]
    BY <1>1, <2>2 DEF Heap
  <2>5. QED
    BY <1>1, <1>3, <2>3, <2>4, HeapFields DEF Heap, Link, AppendedLast
<1>4. QED
  BY <1>2, <1>3

LEMMA GoodAppended ==
  ASSUME NEW h, Good(h), NEW a \in h.live, NEW x \in Roots(h), a \notin Reach(h, x)
  PROVE  Good(Appended(h, a, x)) /\ Roots(Appended(h, a, x)) = Roots(h) \ {x}
<1> DEFINE g == Appended(h, a, x)
           head == h.child[a]
<1>1. /\ h \in Heap /\ x \in h.live /\ h.parent[x] = NULL /\ x \in Items /\ a \in Items
      /\ a # x
  BY HeapFields, ReachClosed DEF Good, Roots
<1>2. ListsOf(h)
  BY DEF Good
<1>3. /\ head = NULL => AppendedFirst(h, g, a, x)
      /\ head # NULL => AppendedLast(h, g, a, x, head)
  BY <1>1, AppendedFields
<1> HIDE DEF g
<1>4. CASE head = NULL
  <2>1. AppendedFirst(h, g, a, x)
    BY <1>3, <1>4
  <2>2. ListsOf(g)
    BY <1>1, <1>2, <1>4, <2>1, First DEF ListsOf, AppendedFirst
  <2>3. \A y \in Items \ h.live : /\ g.next[y] = h.next[y] /\ g.prev[y] = h.prev[y]
                                  /\ g.child[y] = h.child[y]
    BY <1>1, <2>1, HeapFields DEF AppendedFirst
  <2>4. QED
    BY <2>1, <2>2, <2>3, GoodPut DEF g, AppendedFirst
<1>5. CASE head # NULL
  <2>1. AppendedLast(h, g, a, x, head)
    BY <1>3, <1>5
  <2>2. head \in h.live /\ h.prev[head] \in h.live
    BY <1>5, HeadAndTail
  <2>3. ListsOf(g)
    BY <1>1, <1>2, <1>5, <2>1, Behind DEF ListsOf, AppendedLast
  <2>4. \A y \in Items \ h.live : /\ g.next[y] = h.next[y] /\ g.prev[y] = h.prev[y]
                                  /\ g.child[y] = h.child[y]
    BY <1>1, <2>1, <2>2, HeapFields DEF AppendedLast
  <2>5. QED
    BY <2>1, <2>3, <2>4, GoodPut DEF g, AppendedLast
<1>6. QED
  BY <1>4, <1>5

\* The fields after cJSON_InsertItemInArray in front of y.
InsertedBefore(h, g, a, y, x) ==
  /\ g \in Heap /\ g.live = h.live /\ g.string = h.string
  /\ g.child = IF y = h.child[a] THEN [h.child EXCEPT ![a] = x] ELSE h.child
  /\ g.next = IF y = h.child[a] THEN [h.next EXCEPT ![x] = y]
              ELSE [h.next EXCEPT ![x] = y, ![h.prev[y]] = x]
  /\ g.prev = [h.prev EXCEPT ![x] = h.prev[y], ![y] = x]
  /\ g.parent = [h.parent EXCEPT ![x] = a]

LEMMA InsertedFields ==
  ASSUME NEW h, Good(h), NEW a \in h.live, NEW x \in h.live, NEW y \in h.live,
         h.parent[y] = a
  PROVE  InsertedBefore(h, Inserted(h, a, y, x), a, y, x)
<1> DEFINE g == Inserted(h, a, y, x)
           k == [h EXCEPT !.next[x] = y, !.prev = [@ EXCEPT ![x] = h.prev[y], ![y] = x],
                          !.parent[x] = a]
<1>1. h \in Heap /\ x \in Items /\ a \in Items /\ y \in Items /\ a # NULL
  BY HeapFields DEF Good
<1>2. h.prev[y] \in Items
  BY <1>1, HeapFields DEF Good, ListsOf, Lists, Links
<1>3. g = IF y = h.child[a] THEN [k EXCEPT !.child[a] = x]
          ELSE [k EXCEPT !.next[h.prev[y]] = x]
  BY DEF Inserted
<1>4. /\ k.live = h.live /\ k.string = h.string /\ k.child = h.child
      /\ k.parent = [h.parent EXCEPT ![x] = a]
  BY <1>1 DEF Heap
<1>5. k.next = [h.next EXCEPT ![x] = y]
  BY <1>1 DEF Heap
<1>6. k.prev = [h.prev EXCEPT ![x] = h.prev[y], ![y] = x]
  BY <1>1 DEF Heap
<1>7. k \in Heap
  BY <1>1, <1>2, HeapFields DEF Heap, Link
<1> HIDE DEF k, g
<1>8. g \in Heap
  <2>1. CASE y = h.child[a]
    BY <1>1, <1>2, <1>3, <1>7, <2>1, HeapFields, HeapIsRecord DEF Heap, Link
  <2>2. CASE y # h.child[a]
    BY <1>1, <1>2, <1>3, <1>7, <2>2, HeapFields, HeapIsRecord DEF Heap, Link
  <2>3. QED
    BY <2>1, <2>2
<1>9. InsertedBefore(h, g, a, y, x)
  <2>1. CASE y = h.child[a]
    BY <1>1, <1>3, <1>4, <1>5, <1>6, <1>7, <1>8, <2>1 DEF Heap, InsertedBefore
  <2>2. CASE y # h.child[a]
    BY <1>1, <1>3, <1>4, <1>5, <1>6, <1>7, <1>8, <2>2 DEF Heap, InsertedBefore
  <2>3. QED
    BY <2>1, <2>2
<1>10. QED
  BY <1>9 DEF g

LEMMA GoodInserted ==
  ASSUME NEW h, Good(h), NEW a \in h.live, NEW x \in Roots(h), a \notin Reach(h, x),
         NEW y \in h.live, h.parent[y] = a
  PROVE  Good(Inserted(h, a, y, x)) /\ Roots(Inserted(h, a, y, x)) = Roots(h) \ {x}
<1> DEFINE g == Inserted(h, a, y, x)
           nn == IF y = h.child[a] THEN [h.next EXCEPT ![x] = y]
                 ELSE [h.next EXCEPT ![x] = y, ![h.prev[y]] = x]
           cc == IF y = h.child[a] THEN [h.child EXCEPT ![a] = x] ELSE h.child
<1>1. /\ h \in Heap /\ x \in h.live /\ h.parent[x] = NULL /\ x \in Items /\ a \in Items
      /\ a # x /\ y \in Items /\ a # NULL
  BY HeapFields, ReachClosed DEF Good, Roots
<1>2. ListsOf(h)
  BY DEF Good
<1>3. h.prev[y] \in h.live /\ h.prev[y] \in Items
  BY <1>1, <1>2, HeapFields DEF ListsOf, Lists, Links
<1>4. /\ g \in Heap /\ g.live = h.live /\ g.string = h.string /\ g.child = cc
      /\ g.next = nn /\ g.prev = [h.prev EXCEPT ![x] = h.prev[y], ![y] = x]
      /\ g.parent = [h.parent EXCEPT ![x] = a]
  <2> HIDE DEF g
  <2>1. InsertedBefore(h, g, a, y, x)
    BY <1>1, InsertedFields DEF g
  <2>2. QED
    BY <2>1 DEF InsertedBefore
<1> HIDE DEF g
<1>5. ListsOf(g)
  <2> HIDE DEF nn, cc
  <2>1. Lists(h.live, nn, [h.prev EXCEPT ![x] = h.prev[y], ![y] = x], cc,
              [h.parent EXCEPT ![x] = a])
    BY <1>1, <1>2, InFront DEF ListsOf, nn, cc
  <2>2. QED
    BY <1>4, <2>1 DEF ListsOf
<1>6. \A z \in Items \ h.live : /\ g.next[z] = h.next[z] /\ g.prev[z] = h.prev[z]
                                /\ g.child[z] = h.child[z]
  BY <1>1, <1>3, <1>4, HeapFields
<1> HIDE DEF nn, cc
<1>7. Good(g) /\ Roots(g) = Roots(h) \ {x}
  BY <1>4, <1>5, <1>6, GoodPut
<1>8. QED
  BY <1>7 DEF g

LEMMA DetachedFields ==
  ASSUME NEW h \in Heap, NEW a \in Items, NEW y \in Items
  PROVE  Detached(h, a, y) =
           [live |-> h.live, next |-> OutNext(h.next, h.prev, h.child, a, y),
            prev |-> OutPrev(h.next, h.prev, h.child, a, y),
            child |-> OutChild(h.next, h.child, a, y), string |-> h.string,
            parent |-> [h.parent EXCEPT ![y] = NULL]]
<1> DEFINE g == Detached(h, a, y)
           nn == OutNext(h.next, h.prev, h.child, a, y)
           pp == OutPrev(h.next, h.prev, h.child, a, y)
<1>1. g = [h EXCEPT !.next = nn, !.prev = pp, !.parent[y] = NULL,
                    !.child[a] = IF y = h.child[a] THEN h.next[y] ELSE h.child[a]]
  BY DEF Detached, OutNext, OutPrev
<1> HIDE DEF g, nn, pp
<1>2. g = [live |-> h.live, next |-> nn, prev |-> pp, child |-> OutChild(h.next, h.child, a, y),
           string |-> h.string, parent |-> [h.parent EXCEPT ![y] = NULL]]
  BY <1>1 DEF OutChild, Heap
<1>3. QED
  BY <1>2 DEF g, nn, pp

\* y, of a's list, leaves it.
LEMMA GoodDetached ==
  ASSUME NEW h, Good(h), NEW a \in h.live, NEW y \in h.live, h.parent[y] = a
  PROVE  Good(Detached(h, a, y)) /\ Roots(Detached(h, a, y)) = Roots(h) \cup {y}
<1> DEFINE g == Detached(h, a, y)
           nn == OutNext(h.next, h.prev, h.child, a, y)
           pp == OutPrev(h.next, h.prev, h.child, a, y)
           cc == OutChild(h.next, h.child, a, y)
           uu == [h.parent EXCEPT ![y] = NULL]
<1>1. h \in Heap /\ a \in Items /\ y \in Items /\ a # NULL
  BY HeapFields DEF Good
<1>2. ListsOf(h) /\ Lists(h.live, nn, pp, cc, uu)
  BY Out DEF Good, ListsOf
<1>3. g = [live |-> h.live, next |-> nn, prev |-> pp, child |-> cc, string |-> h.string,
           parent |-> uu]
  BY <1>1, DetachedFields
<1>4. \A z \in Items \ h.live : nn[z] = NULL /\ pp[z] = NULL /\ cc[z] = NULL /\ uu[z] = NULL
  <2>1. /\ y \in h.live /\ a \in h.live
        /\ y # h.child[a] => h.prev[y] \in h.live
        /\ h.next[y] # NULL => h.next[y] \in h.live
        /\ h.child[a] \in h.live
    BY <1>1, <1>2 DEF ListsOf, Lists, Links
  <2>2. \A z \in Items \ h.live : /\ h.next[z] = NULL /\ h.prev[z] = NULL
                                  /\ h.child[z] = NULL /\ h.parent[z] = NULL
    BY DEF Good, Blanked
  <2>3. QED
    BY <1>1, <2>1, <2>2, HeapFields DEF OutNext, OutPrev, OutChild
<1>5. Grounded(h.live, uu) /\ Roots(g) = Roots(h) \cup {y}
  BY <1>1, <1>3, HeapFields, GroundedUnlinked DEF Good, Roots
<1> HIDE DEF nn, pp, cc, g
<1>6. g \in Heap /\ Blanked(g)
  BY <1>1, <1>2, <1>3, <1>4, HeapFields DEF Heap, Lists, Good, Blanked
<1>7. Good(g)
  BY <1>2, <1>3, <1>5, <1>6 DEF Good, ListsOf
<1>8. QED
  BY <1>5, <1>7 DEF g

\* What cJSON_Delete leaves of a good heap, when it is given a root.
LEMMA GoodFreed ==
  ASSUME NEW h, Good(h), NEW x \in Roots(h)
  PROVE  Good(Freed(h, x)) /\ Roots(Freed(h, x)) = Roots(h) \ {x}
<1> DEFINE G == Reach(h, x)
           g == Freed(h, x)
           nn == [y \in Items |-> IF y \in G THEN NULL ELSE h.next[y]]
           pp == [y \in Items |-> IF y \in G THEN NULL ELSE h.prev[y]]
           cc == [y \in Items |-> IF y \in G THEN NULL ELSE h.child[y]]
           ss == [y \in Items |-> IF y \in G THEN NULL ELSE h.string[y]]
           uu == [y \in Items |-> IF y \in G THEN NULL ELSE h.parent[y]]
<1>1. x \in h.live /\ h.parent[x] = NULL /\ h \in Heap
  BY DEF Roots, Good
<1>2. G \in SUBSET h.live /\ x \in G /\ \A y \in h.live : h.parent[y] \in G => y \in G
  BY <1>1, ReachClosed
<1>3. \A y \in G : y = x \/ h.parent[y] \in G
  BY ReachFromRoot
<1>4. g = [live |-> h.live \ G, next |-> nn, prev |-> pp, child |-> cc, string |-> ss,
           parent |-> uu]
  BY DEF Freed, Cleared
<1> HIDE DEF G, g
<1>5. Lists(h.live \ G, nn, pp, cc, uu)
  <2>1. \A y \in h.live : y \in G <=> y = x \/ h.parent[y] \in G
    BY <1>2, <1>3
  <2>2. Lists(h.live, h.next, h.prev, h.child, h.parent)
    BY DEF Good, ListsOf
  <2>3. /\ nn = [y \in Items |-> IF y \in G THEN NULL ELSE h.next[y]]
        /\ pp = [y \in Items |-> IF y \in G THEN NULL ELSE h.prev[y]]
        /\ cc = [y \in Items |-> IF y \in G THEN NULL ELSE h.child[y]]
        /\ uu = [y \in Items |-> IF y \in G THEN NULL ELSE h.parent[y]]
    OBVIOUS
  <2> HIDE DEF nn, pp, cc, uu
  <2>4. QED
    BY <1>1, <1>2, <2>1, <2>2, <2>3, Cut
<1>6. Grounded(h.live \ G, uu)
  <2>1. SUFFICES ASSUME NEW S \in SUBSET (h.live \ G), \A y \in S : uu[y] \in S
                 PROVE  S = {}
    BY DEF Grounded
  <2>2. S \in SUBSET h.live /\ \A y \in S : h.parent[y] \in S
    BY <1>1, <2>1, HeapFields
  <2>3. QED
    BY <2>2 DEF Good, Grounded
<1>7. Roots(g) = Roots(h) \ {x}
  BY <1>1, <1>2, <1>3, <1>4, HeapFields DEF Roots
<1>8. g \in Heap
  BY <1>1, <1>4, HeapFields DEF Heap, Link
<1>9. Blanked(g)
  BY <1>4 DEF Good, Blanked
<1>10. Good(g)
  BY <1>4, <1>5, <1>6, <1>8, <1>9 DEF Good, ListsOf
<1>11. QED
  BY <1>7, <1>10 DEF g

LEMMA ReplacedFields ==
  ASSUME NEW h \in Heap, NEW a \in Items, NEW y \in Items, NEW x \in Items, x # y
  PROVE  Replaced(h, a, y, x) =
           [live |-> h.live, next |-> SwapNext(h.next, h.prev, h.child, a, y, x),
            prev |-> SwapPrev(h.next, h.prev, h.child, a, y, x),
            child |-> SwapChild(h.child, a, y, x), string |-> h.string,
            parent |-> [h.parent EXCEPT ![y] = NULL, ![x] = a]]
<1> DEFINE g == Replaced(h, a, y, x)
           nn == SwapNext(h.next, h.prev, h.child, a, y, x)
           pp == SwapPrev(h.next, h.prev, h.child, a, y, x)
           cc == SwapChild(h.child, a, y, x)
           uu == [h.parent EXCEPT ![y] = NULL, ![x] = a]
<1>1. h \in Heap /\ x \in Items /\ a \in Items /\ y \in Items /\ x # y
  OBVIOUS
<1> DEFINE n1 == [h.next EXCEPT ![x] = h.next[y]]
           p1 == [z \in Items |-> IF z = x THEN h.prev[y]
                                  ELSE IF z = h.next[y] THEN x ELSE h.prev[z]]
           n2 == IF y # h.child[a] /\ p1[x] # NULL THEN [n1 EXCEPT ![p1[x]] = x] ELSE n1
           p2 == IF y = h.child[a] THEN IF p1[y] = y THEN [p1 EXCEPT ![x] = x] ELSE p1
                 ELSE IF n1[x] = NULL THEN [p1 EXCEPT ![h.child[a]] = x] ELSE p1
           k == IF y = h.child[a]
                THEN [h EXCEPT !.next = n2, !.child[a] = x, !.prev = p2]
                ELSE [h EXCEPT !.next = n2, !.prev = p2]
<1>2. p1[x] = h.prev[y] /\ n1[x] = h.next[y]
  BY <1>1, HeapFields
<1>3. g = [k EXCEPT !.next[y] = NULL, !.prev[y] = NULL, !.parent[y] = NULL, !.parent[x] = a]
  <2>1. CASE y = h.child[a]
    BY <2>1 DEF Replaced
  <2>2. CASE y # h.child[a]
    BY <2>2 DEF Replaced
  <2>3. QED
    BY <2>1, <2>2
<1>4. nn = [n2 EXCEPT ![y] = NULL] /\ pp = [p2 EXCEPT ![y] = NULL]
  BY <1>2 DEF SwapNext, SwapPrev
<1> HIDE DEF g, n2, p2, nn, pp
<1>5. k = [live |-> h.live, next |-> n2, prev |-> p2, child |-> cc, string |-> h.string,
           parent |-> h.parent]
  BY <1>1 DEF Heap, SwapChild
<1> HIDE DEF k, cc
<1>6. g = [live |-> h.live, next |-> nn, prev |-> pp, child |-> cc, string |-> h.string,
           parent |-> uu]
  BY <1>3, <1>4, <1>5
<1>7. QED
  BY <1>6 DEF g, nn, pp, cc

\* x, a root, takes the place of y in a's list.
LEMMA GoodReplaced ==
  ASSUME NEW h, Good(h), NEW a \in h.live, NEW x \in Roots(h), a \notin Reach(h, x),
         NEW y \in h.live, h.parent[y] = a
  PROVE  /\ Good(Replaced(h, a, y, x))
         /\ Roots(Replaced(h, a, y, x)) = (Roots(h) \ {x}) \cup {y}
<1> DEFINE g == Replaced(h, a, y, x)
           nn == SwapNext(h.next, h.prev, h.child, a, y, x)
           pp == SwapPrev(h.next, h.prev, h.child, a, y, x)
           cc == SwapChild(h.child, a, y, x)
           uu == [h.parent EXCEPT ![y] = NULL, ![x] = a]
<1>1. /\ h \in Heap /\ x \in h.live /\ h.parent[x] = NULL /\ x \in Items /\ a \in Items
      /\ a # x /\ y \in Items /\ a # NULL /\ x # y
  BY HeapFields, ReachClosed DEF Good, Roots
<1>2. Lists(h.live, h.next, h.prev, h.child, h.parent)
  BY DEF Good, ListsOf
<1>3. Lists(h.live, nn, pp, cc, uu)
  BY <1>1, <1>2, Swap
<1>4. g = [live |-> h.live, next |-> nn, prev |-> pp, child |-> cc, string |-> h.string,
           parent |-> uu]
  BY <1>1, ReplacedFields
<1>5. \A z \in Items \ h.live : nn[z] = NULL /\ pp[z] = NULL /\ cc[z] = NULL /\ uu[z] = NULL
  <2>1. /\ y # h.child[a] => h.prev[y] \in h.live
        /\ h.next[y] # NULL => h.next[y] \in h.live
        /\ h.child[a] \in h.live
    BY <1>1, <1>2 DEF Lists, Links
  <2>2. \A z \in Items \ h.live : /\ h.next[z] = NULL /\ h.prev[z] = NULL
                                  /\ h.child[z] = NULL /\ h.parent[z] = NULL
    BY DEF Good, Blanked
  <2>3. \A z \in Items \ h.live : nn[z] = NULL
    BY <1>1, <2>1, <2>2, HeapFields DEF SwapNext
  <2>4. \A z \in Items \ h.live : pp[z] = NULL
    BY <1>1, <2>1, <2>2, HeapFields DEF SwapPrev
  <2>5. QED
    BY <1>1, <2>2, <2>3, <2>4, HeapFields DEF SwapChild
<1> HIDE DEF nn, pp, cc, g
<1>6. Grounded(h.live, uu)
  <2> DEFINE u1 == [h.parent EXCEPT ![y] = NULL]
             R == Reach(h, x)
  <2>1. /\ x \in R /\ R \in SUBSET h.live
        /\ \A z \in h.live : h.parent[z] \in R => z \in R
    BY <1>1, ReachClosed
  <2>2. Grounded(h.live, u1)
    BY <1>1, HeapFields, GroundedUnlinked DEF Good
  <2>3. u1 \in Link /\ h.live \in SUBSET Items
    BY <1>1, HeapFields DEF Link
  <2>4. \A z \in h.live : u1[z] \in R => z \in R
    BY <1>1, <2>1, HeapFields
  <2>5. uu = [u1 EXCEPT ![x] = a]
    OBVIOUS
  <2> HIDE DEF u1, uu, R
  <2>6. Grounded(h.live, [u1 EXCEPT ![x] = a])
    BY <2>1, <2>2, <2>3, <2>4, GroundedLinked DEF R
  <2>7. QED
    BY <2>5, <2>6
<1>7. Roots(g) = (Roots(h) \ {x}) \cup {y}
  BY <1>1, <1>4, HeapFields DEF Roots
<1>8. g \in Heap /\ Blanked(g)
  BY <1>1, <1>3, <1>4, <1>5, HeapFields DEF Heap, Lists, Good, Blanked
<1>9. Good(g)
  BY <1>3, <1>4, <1>6, <1>8 DEF Good, ListsOf
<1>10. QED
  BY <1>7, <1>9 DEF g

LEMMA OneOf == ASSUME NEW z PROVE One({z}) = z
  BY DEF One

LEMMA OneIn == ASSUME NEW S PROVE One(S) = NULL \/ One(S) \in S
  BY DEF One

\* x is a new array of the new items xs.
LEMMA GoodArray ==
  ASSUME NEW h, Good(h), NEW x \in Items \ h.live, NEW xs \in SUBSET (Items \ h.live),
         x \notin xs, NEW first \in xs,
         NEW after \in Bijection(xs, (xs \ {first}) \cup {NULL}),
         InList(ArrayOf(h, x, xs, first, after), x) = xs
  PROVE  /\ Good(ArrayOf(h, x, xs, first, after))
         /\ Roots(ArrayOf(h, x, xs, first, after)) = Roots(h) \cup {x}
<1> DEFINE g == ArrayOf(h, x, xs, first, after)
           Before(y) == One({z \in xs : after[z] = IF y = first THEN NULL ELSE y})
           L == h.live \cup {x} \cup xs
           nn == [y \in Items |-> IF y \in xs THEN after[y] ELSE h.next[y]]
           pp == [y \in Items |-> IF y \in xs THEN Before(y) ELSE h.prev[y]]
           cc == [h.child EXCEPT ![x] = first]
           uu == [y \in Items |-> IF y \in xs THEN x ELSE h.parent[y]]
<1>1. h \in Heap /\ x \in Items /\ first \in Items /\ xs \in SUBSET Items /\ x # NULL
  BY HeapFields DEF Good
<1>2. /\ \A y \in xs : after[y] \in (xs \ {first}) \cup {NULL}
      /\ \A y, z \in xs : after[y] = after[z] => y = z
      /\ \A t \in (xs \ {first}) \cup {NULL} : \E z \in xs : after[z] = t
  BY DEF Bijection, Injection, Surjection, IsInjective
<1>3. \A y, z \in xs : after[z] = (IF y = first THEN NULL ELSE y) => Before(y) = z
  <2>1. SUFFICES ASSUME NEW y \in xs, NEW z \in xs,
                        after[z] = IF y = first THEN NULL ELSE y
                 PROVE  Before(y) = z
    OBVIOUS
  <2>2. {w \in xs : after[w] = IF y = first THEN NULL ELSE y} = {z}
    BY <1>2, <2>1
  <2>3. QED
    BY <2>2, OneOf
<1>4. \A y \in xs : Before(y) \in xs /\ after[Before(y)] = IF y = first THEN NULL ELSE y
  <2>1. SUFFICES ASSUME NEW y \in xs
                 PROVE  Before(y) \in xs /\ after[Before(y)] = IF y = first THEN NULL ELSE y
    OBVIOUS
  <2>2. PICK z \in xs : after[z] = IF y = first THEN NULL ELSE y
    BY <1>2
  <2>3. Before(y) = z
    BY <1>3, <2>2
  <2> HIDE DEF Before
  <2>4. QED
    BY <2>2, <2>3
<1>5. g = [live |-> L, next |-> nn, prev |-> pp, child |-> cc, string |-> h.string,
           parent |-> uu]
  <2>1. g = [h EXCEPT !.live = L, !.child[x] = first, !.next = nn, !.prev = pp,
                      !.parent = uu]
    BY <1>1 DEF ArrayOf, Heap
  <2> HIDE DEF g, nn, pp, uu, L
  <2>2. QED
    BY <1>1, <2>1 DEF Heap
<1> HIDE DEF g, Before
<1>6. \A y \in Items \ h.live :
        /\ h.next[y] = NULL /\ h.prev[y] = NULL /\ h.child[y] = NULL
        /\ h.string[y] = NULL /\ h.parent[y] = NULL
  BY DEF Good, Blanked
<1>7. /\ \A y \in Items : y \in xs => nn[y] = after[y] /\ pp[y] = Before(y) /\ uu[y] = x
      /\ \A y \in Items : y \notin xs => /\ nn[y] = h.next[y] /\ pp[y] = h.prev[y]
                                         /\ uu[y] = h.parent[y]
      /\ \A y \in Items : y # x => cc[y] = h.child[y]
      /\ cc[x] = first
  BY <1>1, HeapFields
<1>8. nn \in Link /\ pp \in Link /\ cc \in Link /\ uu \in Link /\ L \in SUBSET Items
  BY <1>1, <1>2, <1>4, HeapFields DEF Link
<1>9. Links(h.live, h.next, h.prev, h.child, h.parent)
  BY DEF Good, ListsOf, Lists
<1> HIDE DEF nn, pp, cc, uu
<1>10. h.live \in SUBSET Items /\ NULL \notin Items
  BY <1>1, HeapFields
<1>11. Links(L, nn, pp, cc, uu)
  <2>1. \A y \in L : cc[y] # NULL => cc[y] \in L /\ uu[cc[y]] = y
    BY <1>1, <1>6, <1>7, <1>9, <1>10 DEF Links
  <2>2. \A y \in L : nn[y] # NULL => nn[y] \in L /\ pp[nn[y]] = y
    <3>1. \A y \in xs : after[y] # NULL => Before(after[y]) = y
      BY <1>2, <1>3, <1>10
    <3>2. QED
      BY <1>1, <1>2, <1>6, <1>7, <1>9, <1>10, <3>1 DEF Links
  <2>3. \A y \in L : nn[y] # NULL =>
                       uu[y] # NULL /\ uu[nn[y]] = uu[y] /\ nn[y] # cc[uu[y]]
    BY <1>1, <1>2, <1>6, <1>7, <1>9, <1>10 DEF Links
  <2>4. \A y \in L : uu[y] = NULL => pp[y] = NULL
    BY <1>1, <1>6, <1>7, <1>9, <1>10 DEF Links
  <2>5. \A y \in L : uu[y] # NULL =>
          uu[y] \in L /\ cc[uu[y]] # NULL /\ pp[y] \in L /\ uu[pp[y]] = uu[y]
    BY <1>1, <1>4, <1>6, <1>7, <1>9, <1>10 DEF Links
  <2>6. \A y \in L : uu[y] # NULL => y = cc[uu[y]] \/ nn[pp[y]] = y
    BY <1>1, <1>4, <1>6, <1>7, <1>9, <1>10 DEF Links
  <2>7. \A y \in L : uu[y] # NULL => (nn[y] = NULL <=> y = pp[cc[uu[y]]])
    BY <1>1, <1>2, <1>3, <1>4, <1>6, <1>7, <1>9, <1>10 DEF Links
  <2>8. QED
    BY <2>1, <2>2, <2>3, <2>4, <2>5, <2>6, <2>7 DEF Links
<1>12. Found(L, nn, cc, uu)
  <2>1. SUFFICES ASSUME NEW b \in L, NEW S \in SUBSET L, cc[b] \in S, Closed(S, nn),
                        NEW y \in L, uu[y] = b
                 PROVE  y \in S
    BY DEF Found
  <2>2. CASE b = x
    <3>1. y \in xs
      BY <1>1, <1>6, <1>7, <1>9, <1>10, <2>1, <2>2 DEF Links
    <3>2. y \in Chain(g, first)
      BY <1>5, <1>7, <3>1 DEF InList, g
    <3>3. QED
      BY <1>5, <1>7, <2>1, <2>2, <3>2 DEF Chain, Closed
  <2>3. CASE b # x
    <3>1. /\ b \in h.live /\ y \in h.live /\ h.parent[y] = b /\ h.child[b] \in S
          /\ h.child[b] \in h.live
      BY <1>1, <1>6, <1>7, <1>9, <1>10, <2>1, <2>3 DEF Links
    <3>2. S \cap h.live \in SUBSET h.live /\ h.child[b] \in S \cap h.live
      BY <3>1
    <3>3. Closed(S \cap h.live, h.next)
      BY <1>7, <1>9, <1>10, <2>1 DEF Closed, Links
    <3>4. QED
      BY <3>1, <3>2, <3>3 DEF Good, ListsOf, Lists, Found
  <2>4. QED
    BY <2>2, <2>3
<1>13. Grounded(L, uu)
  <2>1. SUFFICES ASSUME NEW S \in SUBSET L, \A y \in S : uu[y] \in S
                 PROVE  S = {}
    BY DEF Grounded
  <2>2. x \notin S
    BY <1>1, <1>6, <1>7, <1>8, <1>10, <2>1
  <2>3. S \in SUBSET h.live /\ \A y \in S : h.parent[y] \in S
    BY <1>7, <1>8, <2>1, <2>2
  <2>4. QED
    BY <2>3 DEF Good, Grounded
<1>14. Roots(g) = Roots(h) \cup {x}
  BY <1>1, <1>5, <1>6, <1>7, <1>10 DEF Roots
<1>15. g \in Heap /\ Blanked(g)
  BY <1>1, <1>5, <1>6, <1>7, <1>8, HeapFields DEF Heap, Blanked
<1>16. Good(g)
  BY <1>5, <1>8, <1>11, <1>12, <1>13, <1>15 DEF Good, ListsOf, Lists
<1>17. QED
  BY <1>14, <1>16 DEF g

\* What cJSON_Duplicate_rec links a copy to: the copy of the item before it, or
\* of the last one.
LEMMA PrevIs ==
  ASSUME NEW h, Good(h), NEW y \in h.live, h.parent[y] # NULL
  PROVE  One(IF {w \in h.live : h.next[w] = y} # {} THEN {w \in h.live : h.next[w] = y}
             ELSE {w \in Chain(h, y) : h.next[w] = NULL}) = h.prev[y]
<1> DEFINE Before == {w \in h.live : h.next[w] = y}
           LastFrom == {w \in Chain(h, y) : h.next[w] = NULL}
           a == h.parent[y]
<1>1. Links(h.live, h.next, h.prev, h.child, h.parent)
  BY DEF Good, ListsOf, Lists
<1>2. /\ a \in h.live /\ h.prev[y] \in h.live /\ h.parent[h.prev[y]] = a
      /\ NULL \notin h.live
  BY <1>1, HeapFields DEF Links, Good
<1>3. CASE y = h.child[a]
  <2>1. Before = {}
    BY <1>1, <1>2, <1>3 DEF Links
  <2>2. LastFrom = {h.prev[y]}
    <3>1. h.next[h.prev[y]] = NULL /\ h.prev[y] \in InList(h, a)
      BY <1>1, <1>2, <1>3, InListIsParent DEF Links
    <3>2. \A w \in InList(h, a) : w \in h.live /\ h.parent[w] = a
      BY <1>2, InListIsParent
    <3>3. \A w \in InList(h, a) : h.next[w] = NULL => w = h.prev[y]
      BY <1>1, <1>2, <1>3, <3>2 DEF Links
    <3>4. QED
      BY <1>3, <3>1, <3>3 DEF InList
  <2>3. QED
    BY <2>1, <2>2, OneOf
<1>4. CASE y # h.child[a]
  <2>1. h.next[h.prev[y]] = y
    BY <1>1, <1>2, <1>4 DEF Links
  <2>2. Before = {h.prev[y]}
    BY <1>1, <1>2, <2>1 DEF Links
  <2>3. QED
    BY <2>2, OneOf
<1>5. QED
  BY <1>3, <1>4

\* What is copied of x are whole lists, but for the one that x is in.
LEMMA CopiedClosed ==
  ASSUME NEW h, Good(h), NEW x \in h.live, NEW recurse \in BOOLEAN,
         NEW F, F = Copied(h, x, recurse)
  PROVE  /\ F \in SUBSET h.live /\ x \in F
         /\ \A y \in F : y # x => /\ h.parent[y] \in F
                                  /\ h.next[y] \in (F \ {x}) \cup {NULL}
                                  /\ h.prev[y] \in F \ {x}
                                  /\ h.child[h.parent[y]] \in F \ {x}
         /\ \A y \in F : h.child[y] # x
<1> DEFINE D == Reach(h, h.child[x])
<1>1. Links(h.live, h.next, h.prev, h.child, h.parent) /\ h.live \in SUBSET Items
  BY HeapFields DEF Good, ListsOf, Lists
<1>2. NULL \notin h.live
  BY <1>1, HeapFields DEF Good
<1>3. CASE ~recurse \/ h.child[x] = NULL
  <2>1. F = {x}
    BY <1>2, <1>3 DEF Copied, Reach
  <2>2. h.child[x] # x
    <3>1. SUFFICES ASSUME h.parent[x] = x PROVE FALSE
      BY <1>1, <1>2 DEF Links
    <3>2. {x} \in SUBSET h.live /\ \A y \in {x} : h.parent[y] \in {x}
      BY <3>1
    <3>3. {x} = {}
      BY <3>2 DEF Good, Grounded
    <3>4. QED
      BY <3>3
  <2>3. QED
    BY <2>1, <2>2
<1>4. CASE recurse /\ h.child[x] # NULL
  <2>1. F = {x} \cup D
    BY <1>4 DEF Copied
  <2>2. h.child[x] \in h.live /\ h.parent[h.child[x]] = x
    BY <1>1, <1>4 DEF Links
  <2>3. /\ h.child[x] \in D /\ D \in SUBSET h.live
        /\ \A z \in D : h.next[z] \in D \cup {NULL} /\ h.child[z] \in D \cup {NULL}
        /\ \A y \in h.live : h.parent[y] \in D => y \in D
    BY <2>2, ReachClosed
  <2> DEFINE S == {y \in D : h.parent[y] \in F}
  <2>4. \A y \in D : h.parent[y] \in F
    <3>1. h.child[x] \in S /\ S \in SUBSET h.live
      BY <2>1, <2>2, <2>3
    <3>2. \A z \in S : {h.next[z], h.child[z]} \subseteq S \cup {NULL}
      BY <1>1, <2>1, <2>3 DEF Links
    <3> HIDE DEF S
    <3>3. D \subseteq S
      BY <3>1, <3>2 DEF Reach
    <3>4. QED
      BY <3>3 DEF S
  <2>5. \A y \in h.live : h.parent[y] = x => y \in D
    <3>1. Closed(D, h.next)
      BY <2>3 DEF Closed
    <3>2. QED
      BY <2>3, <3>1 DEF Good, ListsOf, Lists, Found
  <2>6. x \notin D
    <3>1. SUFFICES ASSUME x \in D PROVE FALSE
      OBVIOUS
    <3>2. \A y \in D : h.parent[y] \in D
      BY <2>1, <2>4, <3>1
    <3> HIDE DEF D
    <3>3. D = {}
      BY <2>3, <3>2 DEF Good, Grounded
    <3>4. QED
      BY <2>3, <3>3
  <2> HIDE DEF D, S
  <2>7. \A y \in h.live : h.parent[y] \in F => y \in D
    BY <2>1, <2>3, <2>5
  <2>8. \A y \in D : /\ h.parent[y] \in h.live /\ h.prev[y] \in h.live
                     /\ h.parent[h.prev[y]] = h.parent[y]
                     /\ h.child[h.parent[y]] \in h.live
                     /\ h.parent[h.child[h.parent[y]]] = h.parent[y]
    BY <1>1, <1>2, <2>1, <2>3, <2>4 DEF Links
  <2>9. \A y \in F : h.child[y] # x
    BY <1>1, <1>2, <2>1, <2>3, <2>6, <2>7 DEF Links
  <2>10. QED
    BY <2>1, <2>3, <2>4, <2>6, <2>7, <2>8, <2>9
<1>5. QED
  BY <1>3, <1>4

\* A copy of x is a new root.
LEMMA GoodDuplicated ==
  ASSUME NEW h, Good(h), NEW x \in h.live, NEW recurse \in BOOLEAN,
         NEW new \in SUBSET (Items \ h.live),
         NEW orig \in Bijection(new, Copied(h, x, recurse))
  PROVE  /\ Good(Duplicated(h, {x}, orig))
         /\ Roots(Duplicated(h, {x}, orig)) = Roots(h) \cup {z \in new : orig[z] = x}
<1> DEFINE g == Duplicated(h, {x}, orig)
           F == Copied(h, x, recurse)
           Copy(y) == One({z \in new : orig[z] = y})
           InPlace(y) == IF y \in {x} THEN NULL ELSE Copy(y)
           Prev(y) == One(IF {w \in h.live : h.next[w] = y} # {}
                          THEN {w \in h.live : h.next[w] = y}
                          ELSE {w \in Chain(h, y) : h.next[w] = NULL})
           L == h.live \cup new
           nn == [z \in Items |-> IF z \in new
                    THEN IF orig[z] \in {x} THEN NULL ELSE InPlace(h.next[orig[z]])
                    ELSE h.next[z]]
           pp == [z \in Items |-> IF z \in new
                    THEN IF orig[z] \in {x} THEN NULL ELSE InPlace(Prev(orig[z]))
                    ELSE h.prev[z]]
           cc == [z \in Items |-> IF z \in new THEN InPlace(h.child[orig[z]]) ELSE h.child[z]]
           ss == [z \in Items |-> IF z \in new THEN h.string[orig[z]] ELSE h.string[z]]
           uu == [z \in Items |-> IF z \in new
                    THEN IF orig[z] \in {x} THEN NULL ELSE Copy(h.parent[orig[z]])
                    ELSE h.parent[z]]
<1>1. /\ orig \in [new -> F]
      /\ \A y, z \in new : orig[y] = orig[z] => y = z
      /\ \A t \in F : \E z \in new : orig[z] = t
  BY DEF Bijection, Injection, Surjection, IsInjective
<1>2. /\ h \in Heap /\ h.live \in SUBSET Items /\ NULL \notin Items
      /\ new \in SUBSET Items /\ x \in Items
  BY HeapFields DEF Good
<1>3. g = [live |-> L, next |-> nn, prev |-> pp, child |-> cc, string |-> ss, parent |-> uu]
  <2>1. DOMAIN orig = new
    BY <1>1
  <2>2. QED
    BY <2>1 DEF Duplicated
<1>4. /\ F \in SUBSET h.live /\ x \in F
      /\ \A y \in F : y # x => /\ h.parent[y] \in F
                               /\ h.next[y] \in (F \ {x}) \cup {NULL}
                               /\ h.prev[y] \in F \ {x}
                               /\ h.child[h.parent[y]] \in F \ {x}
      /\ \A y \in F : h.child[y] # x
  BY CopiedClosed
<1>5. \A y \in F : y # x => Prev(y) = h.prev[y]
  <2>1. SUFFICES ASSUME NEW y \in F, y # x PROVE Prev(y) = h.prev[y]
    OBVIOUS
  <2> HIDE DEF F
  <2>2. y \in h.live /\ h.parent[y] # NULL
    BY <1>2, <1>4, <2>1
  <2>3. QED
    BY <2>2, PrevIs
<1>6. \A z \in new : Copy(orig[z]) = z
  <2>1. SUFFICES ASSUME NEW z \in new PROVE Copy(orig[z]) = z
    OBVIOUS
  <2>2. {w \in new : orig[w] = orig[z]} = {z}
    BY <1>1
  <2>3. QED
    BY <2>2, OneOf
<1>7. \A y : y \notin F => Copy(y) = NULL
  <2>1. SUFFICES ASSUME NEW y, y \notin F PROVE Copy(y) = NULL
    OBVIOUS
  <2>2. {w \in new : orig[w] = y} = {}
    BY <1>1, <2>1
  <2>3. QED
    BY <2>2 DEF One
<1> HIDE DEF g, F, Copy, Prev
<1>21. \A y : y # x => InPlace(y) = Copy(y)
  OBVIOUS
<1> HIDE DEF InPlace
<1>8. \A y \in F : Copy(y) \in new /\ orig[Copy(y)] = y
  BY <1>1, <1>6
<1>9. \A z \in new : /\ orig[z] \in F /\ orig[z] \in h.live /\ z \notin h.live /\ z \in Items
                     /\ z # NULL
  BY <1>1, <1>2, <1>4
<1>10. \A z \in new :
         /\ nn[z] = IF orig[z] = x THEN NULL ELSE Copy(h.next[orig[z]])
         /\ pp[z] = IF orig[z] = x THEN NULL ELSE Copy(h.prev[orig[z]])
         /\ cc[z] = Copy(h.child[orig[z]])
         /\ ss[z] = h.string[orig[z]]
         /\ uu[z] = IF orig[z] = x THEN NULL ELSE Copy(h.parent[orig[z]])
  <2>1. SUFFICES ASSUME NEW z \in new
        PROVE  /\ nn[z] = IF orig[z] = x THEN NULL ELSE Copy(h.next[orig[z]])
               /\ pp[z] = IF orig[z] = x THEN NULL ELSE Copy(h.prev[orig[z]])
               /\ cc[z] = Copy(h.child[orig[z]])
               /\ ss[z] = h.string[orig[z]]
               /\ uu[z] = IF orig[z] = x THEN NULL ELSE Copy(h.parent[orig[z]])
    OBVIOUS
  <2>2. orig[z] \in F /\ z \in Items /\ x # NULL
    BY <1>2, <1>9
  <2>3. cc[z] = Copy(h.child[orig[z]])
    BY <1>4, <1>21, <2>2
  <2>4. orig[z] # x => nn[z] = Copy(h.next[orig[z]]) /\ pp[z] = Copy(h.prev[orig[z]])
    BY <1>4, <1>5, <1>21, <2>2
  <2>5. QED
    BY <2>2, <2>3, <2>4
<1>11. \A z \in Items : z \notin new =>
         /\ nn[z] = h.next[z] /\ pp[z] = h.prev[z] /\ cc[z] = h.child[z]
         /\ ss[z] = h.string[z] /\ uu[z] = h.parent[z]
  OBVIOUS
<1>12. /\ Links(h.live, h.next, h.prev, h.child, h.parent)
       /\ \A y \in Items \ h.live :
            /\ h.next[y] = NULL /\ h.prev[y] = NULL /\ h.child[y] = NULL
            /\ h.string[y] = NULL /\ h.parent[y] = NULL
  BY DEF Good, ListsOf, Lists, Blanked
<1>13. /\ L \in SUBSET Items /\ nn \in Link /\ pp \in Link /\ cc \in Link /\ uu \in Link
       /\ ss \in [Items -> Names \cup {NULL}]
  <2>1. \A y : Copy(y) \in Items \cup {NULL} /\ InPlace(y) \in Items \cup {NULL}
    BY <1>2, <1>7, <1>8 DEF InPlace
  <2>2. L \in SUBSET Items /\ ss \in [Items -> Names \cup {NULL}]
    BY <1>2, <1>9, HeapFields
  <2>3. nn \in Link /\ cc \in Link
    BY <1>2, <1>9, <2>1, HeapFields DEF Link
  <2>4. pp \in Link /\ uu \in Link
    BY <1>2, <1>9, <2>1, HeapFields DEF Link
  <2>5. QED
    BY <2>2, <2>3, <2>4
<1> HIDE DEF nn, pp, cc, ss, uu
<1>14. Links(L, nn, pp, cc, uu)
  <2>1. \A z \in h.live : /\ nn[z] = h.next[z] /\ pp[z] = h.prev[z] /\ cc[z] = h.child[z]
                          /\ uu[z] = h.parent[z]
    BY <1>2, <1>9, <1>11
  <2>2. \A y \in L : cc[y] # NULL => cc[y] \in L /\ uu[cc[y]] = y
    <3>1. ASSUME NEW z \in new, cc[z] # NULL PROVE cc[z] \in L /\ uu[cc[z]] = z
      <4>1. h.child[orig[z]] \in F /\ cc[z] = Copy(h.child[orig[z]])
        BY <1>7, <1>10, <3>1
      <4>2. cc[z] \in new /\ orig[cc[z]] = h.child[orig[z]] /\ h.child[orig[z]] # x
        BY <1>4, <1>8, <1>9, <4>1
      <4>3. h.parent[h.child[orig[z]]] = orig[z]
        BY <1>2, <1>4, <1>9, <1>12, <4>1 DEF Links
      <4>4. QED
        BY <1>6, <1>10, <4>2, <4>3
    <3>2. QED
      BY <1>2, <1>12, <2>1, <3>1 DEF Links
  <2>3. \A y \in L : nn[y] # NULL =>
          /\ nn[y] \in L /\ pp[nn[y]] = y
          /\ uu[y] # NULL /\ uu[nn[y]] = uu[y] /\ nn[y] # cc[uu[y]]
    <3>1. ASSUME NEW z \in new, nn[z] # NULL
          PROVE  /\ nn[z] \in L /\ pp[nn[z]] = z
                 /\ uu[z] # NULL /\ uu[nn[z]] = uu[z] /\ nn[z] # cc[uu[z]]
      <4> DEFINE y == orig[z]
      <4>1. y \in F /\ y \in h.live /\ y # x /\ h.next[y] \in F /\ nn[z] = Copy(h.next[y])
        BY <1>7, <1>9, <1>10, <3>1
      <4>2. /\ h.parent[y] \in F /\ h.next[y] # x /\ h.next[y] # NULL
            /\ h.child[h.parent[y]] \in F
        BY <1>2, <1>4, <4>1
      <4>3. /\ h.prev[h.next[y]] = y /\ h.parent[h.next[y]] = h.parent[y]
            /\ h.next[y] # h.child[h.parent[y]]
        BY <1>2, <1>12, <4>1, <4>2 DEF Links
      <4>4. nn[z] \in new /\ orig[nn[z]] = h.next[y]
        BY <1>8, <4>1
      <4>5. pp[nn[z]] = z /\ uu[nn[z]] = uu[z] /\ uu[z] = Copy(h.parent[y])
        BY <1>6, <1>10, <4>1, <4>2, <4>3, <4>4
      <4>6. uu[z] \in new /\ orig[uu[z]] = h.parent[y]
        BY <1>8, <4>2, <4>5
      <4>7. cc[uu[z]] = Copy(h.child[h.parent[y]])
        BY <1>10, <4>6
      <4>8. nn[z] # cc[uu[z]]
        BY <1>8, <4>2, <4>3, <4>4, <4>7
      <4>9. QED
        BY <1>9, <4>4, <4>5, <4>6, <4>8
    <3>2. ASSUME NEW z \in h.live, nn[z] # NULL
          PROVE  /\ nn[z] \in L /\ pp[nn[z]] = z
                 /\ uu[z] # NULL /\ uu[nn[z]] = uu[z] /\ nn[z] # cc[uu[z]]
      BY <1>2, <1>12, <2>1, <3>2 DEF Links
    <3>3. QED
      BY <3>1, <3>2
  <2>4. \A y \in L : uu[y] = NULL => pp[y] = NULL
    <3>1. ASSUME NEW z \in new, uu[z] = NULL PROVE pp[z] = NULL
      <4>1. orig[z] = x
        <5>1. SUFFICES ASSUME orig[z] # x PROVE FALSE
          OBVIOUS
        <5>2. h.parent[orig[z]] \in F /\ uu[z] = Copy(h.parent[orig[z]])
          BY <1>4, <1>9, <1>10, <5>1
        <5>3. QED
          BY <1>8, <1>9, <3>1, <5>2
      <4>2. QED
        BY <1>10, <4>1
    <3>2. QED
      BY <1>12, <2>1, <3>1 DEF Links
  <2>5. \A y \in L : uu[y] # NULL =>
          /\ uu[y] \in L /\ cc[uu[y]] # NULL /\ pp[y] \in L /\ uu[pp[y]] = uu[y]
          /\ y = cc[uu[y]] \/ nn[pp[y]] = y
          /\ nn[y] = NULL <=> y = pp[cc[uu[y]]]
    <3>1. ASSUME NEW z \in new, uu[z] # NULL
          PROVE  /\ uu[z] \in L /\ cc[uu[z]] # NULL /\ pp[z] \in L /\ uu[pp[z]] = uu[z]
                 /\ z = cc[uu[z]] \/ nn[pp[z]] = z
                 /\ nn[z] = NULL <=> z = pp[cc[uu[z]]]
      <4> DEFINE y == orig[z]
                 a == h.parent[y]
                 head == h.child[a]
      <4>1. y \in F /\ y \in h.live /\ y # x
        BY <1>9, <1>10, <3>1
      <4>2. /\ a \in F /\ h.prev[y] \in F /\ h.prev[y] # x /\ head \in F /\ head # x
            /\ h.next[y] \in (F \ {x}) \cup {NULL} /\ h.prev[head] \in F /\ a # NULL
        BY <1>2, <1>4, <4>1
      <4>3. /\ h.parent[h.prev[y]] = a /\ h.parent[head] = a
            /\ y = head \/ h.next[h.prev[y]] = y
            /\ h.next[y] = NULL <=> y = h.prev[head]
        BY <1>2, <1>4, <1>12, <4>1, <4>2 DEF Links
      <4>4. /\ nn[z] = Copy(h.next[y]) /\ pp[z] = Copy(h.prev[y]) /\ uu[z] = Copy(a)
        BY <1>10, <4>1
      <4>5. /\ pp[z] \in new /\ orig[pp[z]] = h.prev[y] /\ uu[z] \in new /\ orig[uu[z]] = a
        BY <1>8, <4>2, <4>4
      <4>6. cc[uu[z]] = Copy(head)
        BY <1>10, <4>5
      <4>7. cc[uu[z]] \in new /\ orig[cc[uu[z]]] = head
        BY <1>8, <4>2, <4>6
      <4>8. uu[pp[z]] = uu[z]
        BY <1>10, <4>2, <4>3, <4>4, <4>5
      <4>9. z = cc[uu[z]] \/ nn[pp[z]] = z
        <5>1. CASE y = head
          BY <1>6, <4>6, <5>1
        <5>2. CASE h.next[h.prev[y]] = y
          BY <1>6, <1>10, <4>2, <4>5, <5>2
        <5>3. QED
          BY <4>3, <5>1, <5>2
      <4>10. pp[cc[uu[z]]] = Copy(h.prev[head])
        BY <1>10, <4>2, <4>7
      <4>11. nn[z] = NULL <=> z = pp[cc[uu[z]]]
        <5>1. nn[z] = NULL <=> h.next[y] = NULL
          BY <1>2, <1>4, <1>7, <1>8, <1>9, <4>2, <4>4
        <5>2. z = pp[cc[uu[z]]] <=> y = h.prev[head]
          BY <1>6, <1>8, <4>2, <4>10
        <5>3. QED
          BY <4>3, <5>1, <5>2
      <4>12. QED
        BY <1>9, <4>5, <4>7, <4>8, <4>9, <4>11
    <3>2. ASSUME NEW z \in h.live, uu[z] # NULL
          PROVE  /\ uu[z] \in L /\ cc[uu[z]] # NULL /\ pp[z] \in L /\ uu[pp[z]] = uu[z]
                 /\ z = cc[uu[z]] \/ nn[pp[z]] = z
                 /\ nn[z] = NULL <=> z = pp[cc[uu[z]]]
      <4>1. h.parent[z] \in h.live /\ h.child[h.parent[z]] \in h.live /\ h.prev[z] \in h.live
        BY <1>12, <2>1, <3>2 DEF Links
      <4>2. QED
        BY <1>12, <2>1, <3>2, <4>1 DEF Links
    <3>3. QED
      BY <3>1, <3>2
  <2>6. QED
    BY <2>2, <2>3, <2>4, <2>5 DEF Links
<1>15. Found(L, nn, cc, uu)
  <2>1. SUFFICES ASSUME NEW b \in L, NEW S \in SUBSET L, cc[b] \in S, Closed(S, nn),
                        NEW y \in L, uu[y] = b
                 PROVE  y \in S
    BY DEF Found
  <2>2. CASE b \in new
    <3> DEFINE T == {w \in F : Copy(w) \in S /\ w # x}
               a == orig[b]
    <3>1. a \in F /\ a \in h.live /\ cc[b] = Copy(h.child[a])
      BY <1>9, <1>10, <2>2
    <3>2. h.child[a] \in F /\ h.child[a] # x
      BY <1>2, <1>4, <1>7, <1>13, <2>1, <3>1
    <3>3. T \in SUBSET h.live /\ h.child[a] \in T
      BY <1>4, <2>1, <3>1, <3>2
    <3>4. \A w \in T : w \in h.live /\ h.parent[w] = a => h.next[w] \in T \cup {NULL}
      <4>1. SUFFICES ASSUME NEW w \in T, h.next[w] # NULL PROVE h.next[w] \in T
        OBVIOUS
      <4>2. h.next[w] \in F /\ h.next[w] # x
        BY <1>4, <4>1
      <4>3. nn[Copy(w)] = Copy(h.next[w]) /\ Copy(w) \in S
        BY <1>8, <1>10
      <4>4. Copy(h.next[w]) \in S
        BY <1>2, <1>8, <1>9, <2>1, <4>2, <4>3 DEF Closed
      <4>5. QED
        BY <4>2, <4>4
    <3> HIDE DEF T
    <3>5. \A w \in h.live : h.parent[w] = a => w \in T
      <4>1. Lists(h.live, h.next, h.prev, h.child, h.parent)
        BY DEF Good, ListsOf
      <4>2. QED
        BY <3>1, <3>3, <3>4, <4>1, FoundInList
    <3>6. y \in new
      BY <1>2, <1>9, <1>11, <1>12, <2>1, <2>2 DEF Links
    <3>7. orig[y] # x /\ Copy(h.parent[orig[y]]) = b
      BY <1>9, <1>10, <2>1, <2>2, <3>6
    <3>8. h.parent[orig[y]] = a
      BY <1>4, <1>8, <1>9, <3>6, <3>7
    <3>9. orig[y] \in T
      BY <1>9, <3>5, <3>6, <3>8
    <3>10. QED
      BY <1>6, <3>6, <3>9 DEF T
  <2>3. CASE b \in h.live
    <3>1. y \in h.live
      <4>1. SUFFICES ASSUME y \in new PROVE FALSE
        OBVIOUS
      <4>2. orig[y] # x /\ uu[y] = Copy(h.parent[orig[y]]) /\ h.parent[orig[y]] \in F
        BY <1>2, <1>4, <1>9, <1>10, <2>1, <2>3, <4>1
      <4>3. QED
        BY <1>8, <1>9, <2>1, <2>3, <4>2
    <3>2. h.parent[y] = b /\ cc[b] = h.child[b] /\ h.child[b] \in h.live
      BY <1>2, <1>9, <1>11, <1>12, <2>1, <2>3, <3>1 DEF Links
    <3>3. S \cap h.live \in SUBSET h.live /\ h.child[b] \in S \cap h.live
      BY <2>1, <3>2
    <3>4. Closed(S \cap h.live, h.next)
      BY <1>2, <1>9, <1>11, <1>12, <2>1 DEF Closed, Links
    <3>5. QED
      BY <2>3, <3>1, <3>2, <3>3, <3>4 DEF Good, ListsOf, Lists, Found
  <2>4. QED
    BY <2>2, <2>3
<1>16. Grounded(L, uu)
  <2>1. SUFFICES ASSUME NEW S \in SUBSET L, \A y \in S : uu[y] \in S
                 PROVE  S = {}
    BY DEF Grounded
  <2> DEFINE T == {orig[z] : z \in S \cap new}
  <2>2. \A z \in S \cap new : uu[z] \in S \cap new /\ orig[uu[z]] = h.parent[orig[z]]
    <3>1. SUFFICES ASSUME NEW z \in S \cap new
                   PROVE  uu[z] \in S \cap new /\ orig[uu[z]] = h.parent[orig[z]]
      OBVIOUS
    <3>2. orig[z] # x
      BY <1>2, <1>10, <1>13, <2>1
    <3>3. h.parent[orig[z]] \in F /\ uu[z] = Copy(h.parent[orig[z]])
      BY <1>4, <1>9, <1>10, <3>2
    <3>4. QED
      BY <1>8, <2>1, <3>3
  <2>3. T \in SUBSET h.live /\ \A y \in T : h.parent[y] \in T
    BY <1>9, <2>2
  <2>4. T = {}
    BY <2>3 DEF Good, Grounded
  <2>5. S \in SUBSET h.live
    BY <2>4
  <2>6. \A y \in S : h.parent[y] \in S
    BY <1>2, <1>9, <1>11, <2>1, <2>5
  <2>7. QED
    BY <2>5, <2>6 DEF Good, Grounded
<1>17. Roots(g) = Roots(h) \cup {z \in new : orig[z] = x}
  <2>1. \A z \in new : uu[z] = NULL <=> orig[z] = x
    BY <1>4, <1>8, <1>9, <1>10
  <2>2. \A z \in h.live : uu[z] = h.parent[z]
    BY <1>2, <1>9, <1>11
  <2>3. QED
    BY <1>3, <2>1, <2>2 DEF Roots
<1>18. g \in Heap
  BY <1>3, <1>13 DEF Heap
<1>19. Blanked(g)
  BY <1>3, <1>11, <1>12 DEF Blanked
<1>20. Good(g)
  BY <1>3, <1>13, <1>14, <1>15, <1>16, <1>18, <1>19 DEF Good, ListsOf, Lists
<1>22. QED
  BY <1>17, <1>20 DEF g

-----------------------------------------------------------------------------
(* What a call that fails leaves. *)

\* x and what is below it: all that has its parent there, and no item twice.
LEMMA BelowWhole ==
  ASSUME NEW h, Good(h), NEW x \in h.live
  PROVE  /\ Copied(h, x, TRUE) \in SUBSET h.live
         /\ Copied(h, x, TRUE) = {x} \cup Reach(h, h.child[x])
         /\ x \notin Reach(h, h.child[x])
         /\ \A y \in Reach(h, h.child[x]) :
              /\ h.parent[y] \in Copied(h, x, TRUE)
              /\ h.next[y] \in Reach(h, h.child[x]) \cup {NULL}
              /\ h.child[y] \in Reach(h, h.child[x]) \cup {NULL}
         /\ \A y \in h.live : h.parent[y] \in Copied(h, x, TRUE) => y \in Reach(h, h.child[x])
         /\ h.child[x] # NULL => h.child[x] \in Reach(h, h.child[x])
<1> DEFINE W == Copied(h, x, TRUE)
           D == Reach(h, h.child[x])
<1> SUFFICES /\ W \in SUBSET h.live /\ W = {x} \cup D /\ x \notin D
             /\ \A y \in D : /\ h.parent[y] \in W /\ h.next[y] \in D \cup {NULL}
                             /\ h.child[y] \in D \cup {NULL}
             /\ \A y \in h.live : h.parent[y] \in W => y \in D
             /\ h.child[x] # NULL => h.child[x] \in D
  OBVIOUS
<1>1. Links(h.live, h.next, h.prev, h.child, h.parent) /\ h.live \in SUBSET Items
  BY HeapFields DEF Good, ListsOf, Lists
<1>2. NULL \notin h.live
  BY <1>1, HeapFields DEF Good
<1>3. W = {x} \cup D
  BY DEF Copied
<1>4. CASE h.child[x] = NULL
  <2>1. D = {}
    BY <1>2, <1>4 DEF Reach
  <2>2. \A y \in h.live : h.parent[y] # x
    BY <1>1, <1>2, <1>4 DEF Links
  <2>3. QED
    BY <1>3, <1>4, <2>1, <2>2
<1>5. CASE h.child[x] # NULL
  <2>1. h.child[x] \in h.live /\ h.parent[h.child[x]] = x
    BY <1>1, <1>5 DEF Links
  <2>2. /\ h.child[x] \in D /\ D \in SUBSET h.live
        /\ \A z \in D : h.next[z] \in D \cup {NULL} /\ h.child[z] \in D \cup {NULL}
        /\ \A y \in h.live : h.parent[y] \in D => y \in D
    BY <2>1, ReachClosed
  <2> DEFINE S == {y \in D : h.parent[y] \in W}
  <2>3. \A y \in D : h.parent[y] \in W
    <3>1. h.child[x] \in S /\ S \in SUBSET h.live
      BY <1>3, <2>1, <2>2
    <3>2. ASSUME NEW z \in S, h.next[z] # NULL PROVE h.next[z] \in S
      BY <1>1, <1>3, <2>2, <3>2 DEF Links
    <3>3. ASSUME NEW z \in S, h.child[z] # NULL PROVE h.child[z] \in S
      <4>1. h.child[z] \in D /\ z \in h.live /\ z \in W
        BY <1>3, <2>2, <3>3
      <4>2. h.parent[h.child[z]] = z
        BY <1>1, <3>3, <4>1 DEF Links
      <4>3. QED
        BY <4>1, <4>2
    <3> HIDE DEF S
    <3>4. D \subseteq S
      BY <3>1, <3>2, <3>3 DEF Reach
    <3>5. QED
      BY <3>4 DEF S
  <2>4. \A y \in h.live : h.parent[y] = x => y \in D
    <3>1. Closed(D, h.next)
      BY <2>2 DEF Closed
    <3>2. QED
      BY <2>2, <3>1 DEF Good, ListsOf, Lists, Found
  <2>5. x \notin D
    <3>1. SUFFICES ASSUME x \in D PROVE FALSE
      OBVIOUS
    <3>2. \A y \in D : h.parent[y] \in D
      BY <1>3, <2>3, <3>1
    <3>3. D = {}
      BY <2>2, <3>2 DEF Good, Grounded
    <3>4. QED
      BY <3>1, <3>3
  <2>6. QED
    BY <1>3, <2>2, <2>3, <2>4, <2>5
<1>6. QED
  BY <1>4, <1>5

\* What is below an item below x is below x.
LEMMA BelowBelow ==
  ASSUME NEW h, Good(h), NEW x \in h.live, NEW y \in Copied(h, x, TRUE)
  PROVE  /\ Copied(h, y, TRUE) \subseteq Copied(h, x, TRUE)
         /\ y \in Reach(h, h.child[x]) => Copied(h, y, TRUE) \subseteq Reach(h, h.child[x])
<1> DEFINE D == Reach(h, h.child[x])
<1>1. /\ Copied(h, x, TRUE) \in SUBSET h.live /\ Copied(h, x, TRUE) = {x} \cup D
      /\ \A z \in D : h.next[z] \in D \cup {NULL} /\ h.child[z] \in D \cup {NULL}
  BY BelowWhole
<1>2. CASE y = x
  BY <1>1, <1>2, BelowWhole
<1>3. CASE y \in D
  <2>1. y \in h.live /\ Copied(h, y, TRUE) = {y} \cup Reach(h, h.child[y])
    BY <1>1, BelowWhole
  <2>2. NULL \notin h.live
    BY HeapFields DEF Good
  <2>3. D \in SUBSET h.live
    BY <1>1
  <2> HIDE DEF D
  <2>4. Reach(h, h.child[y]) \subseteq D
    <3>1. CASE h.child[y] = NULL
      BY <2>2, <3>1 DEF Reach
    <3>2. CASE h.child[y] \in D
      BY <1>1, <2>3, <3>2 DEF Reach
    <3>3. QED
      BY <1>1, <1>3, <3>1, <3>2
  <2>5. QED
    BY <1>1, <1>3, <2>1, <2>4 DEF D
<1>4. QED
  BY <1>1, <1>2, <1>3

\* Nothing is below two items of one list.
LEMMA BelowApart ==
  ASSUME NEW h, Good(h), NEW a \in h.live, NEW p \in InList(h, a), NEW z \in InList(h, a),
         p # z, NEW f \in Copied(h, p, TRUE)
  PROVE  f \notin Copied(h, z, TRUE)
<1> DEFINE P == Copied(h, p, TRUE)
           Z == Copied(h, z, TRUE)
           Q == P \cap Z
<1>1. /\ p \in h.live /\ z \in h.live /\ h.parent[p] = a /\ h.parent[z] = a
  BY InListIsParent
<1>2. /\ P \in SUBSET h.live /\ p \notin Reach(h, h.child[p])
      /\ P = {p} \cup Reach(h, h.child[p])
      /\ \A y \in Reach(h, h.child[p]) : h.parent[y] \in P
      /\ \A y \in h.live : h.parent[y] \in P => y \in Reach(h, h.child[p])
  BY <1>1, BelowWhole
<1>3. /\ Z \in SUBSET h.live /\ z \notin Reach(h, h.child[z])
      /\ Z = {z} \cup Reach(h, h.child[z])
      /\ \A y \in Reach(h, h.child[z]) : h.parent[y] \in Z
      /\ \A y \in h.live : h.parent[y] \in Z => y \in Reach(h, h.child[z])
  BY <1>1, BelowWhole
<1> HIDE DEF P, Z
<1>4. a \notin P /\ a \notin Z
  BY <1>1, <1>2, <1>3
<1>5. p \notin Z /\ z \notin P
  BY <1>1, <1>2, <1>3, <1>4
<1>6. \A y \in Q : h.parent[y] \in Q
  BY <1>2, <1>3, <1>5
<1>7. Q = {}
  BY <1>2, <1>6 DEF Good, Grounded
<1>8. QED
  BY <1>7 DEF P, Z

\* What an item links to is found from it, if that is live.
LEMMA ReachLinks ==
  ASSUME NEW D, NEW x, NEW z \in Reach(D, x), NEW w \in D.live, w # NULL,
         w \in {D.next[z], D.child[z]}
  PROVE  w \in Reach(D, x)
<1>1. ASSUME NEW S \in SUBSET D.live, x \in S,
             \A v \in S : {D.next[v], D.child[v]} \subseteq S \cup {NULL}, w # NULL
      PROVE  w \in S
  BY <1>1 DEF Reach
<1>2. QED
  BY <1>1 DEF Reach

\* What is found from x stays where the links do.
LEMMA ReachStays ==
  ASSUME NEW D, NEW x, NEW S \in SUBSET D.live, x \in S,
         \A z \in S : {D.next[z], D.child[z]} \subseteq S \cup {NULL}
  PROVE  Reach(D, x) \subseteq S
  BY DEF Reach

\* Heap D is h with the items new besides.
Extends(D, h, new) ==
  /\ new \in SUBSET (Items \ h.live) /\ D.live = h.live \cup new
  /\ \A y \in Items \ new :
       /\ D.next[y] = h.next[y] /\ D.prev[y] = h.prev[y] /\ D.child[y] = h.child[y]
       /\ D.string[y] = h.string[y] /\ D.parent[y] = h.parent[y]

\* Without those it is h.
LEMMA ClearedIsOld ==
  ASSUME NEW h, Good(h), NEW D, NEW new, Extends(D, h, new)
  PROVE  Cleared(D, new) = h
<1> DEFINE Clear(f) == [y \in Items |-> IF y \in new THEN NULL ELSE f[y]]
<1>1. h \in Heap /\ h.live \in SUBSET Items
  BY HeapFields DEF Good
<1>2. D.live \ new = h.live
  BY <1>1 DEF Extends
<1>3. /\ Clear(D.next) = h.next /\ Clear(D.prev) = h.prev /\ Clear(D.child) = h.child
      /\ Clear(D.string) = h.string /\ Clear(D.parent) = h.parent
  <2>1. \A y \in Items : /\ Clear(D.next)[y] = h.next[y] /\ Clear(D.prev)[y] = h.prev[y]
                         /\ Clear(D.child)[y] = h.child[y]
                         /\ Clear(D.string)[y] = h.string[y]
                         /\ Clear(D.parent)[y] = h.parent[y]
    BY DEF Extends, Good, Blanked
  <2>2. /\ h.next = [y \in Items |-> h.next[y]] /\ h.prev = [y \in Items |-> h.prev[y]]
        /\ h.child = [y \in Items |-> h.child[y]] /\ h.string = [y \in Items |-> h.string[y]]
        /\ h.parent = [y \in Items |-> h.parent[y]]
    BY <1>1, HeapFields
  <2>3. QED
    BY <2>1, <2>2
<1>4. h = [live |-> h.live, next |-> h.next, prev |-> h.prev, child |-> h.child,
           string |-> h.string, parent |-> h.parent]
  BY <1>1, HeapIsRecord
<1>5. Cleared(D, new) =
        [live |-> D.live \ new, next |-> Clear(D.next), prev |-> Clear(D.prev),
         child |-> Clear(D.child), string |-> Clear(D.string), parent |-> Clear(D.parent)]
  BY DEF Cleared
<1> HIDE DEF Clear
<1>6. QED
  BY <1>2, <1>3, <1>4, <1>5

\* An item that is allocated and given up.
LEMMA GivenUpIsNothing ==
  ASSUME TreeInv, NEW x \in Unused, GivenUp(x) PROVE heap' = heap /\ held' = held
<1> DEFINE D == Allocated(heap, {x})
<1>1. Good(heap) /\ heap \in Heap /\ x \in Items \ heap.live
  BY DEF TreeInv, Good, Unused
<1>2. /\ D.live = heap.live \cup {x} /\ D.next = heap.next /\ D.prev = heap.prev
      /\ D.child = heap.child /\ D.string = heap.string /\ D.parent = heap.parent
  BY <1>1, AllocatedFields
<1>3. heap' = CleanedUp(D, {x}) /\ held' = held
  BY DEF GivenUp
<1> HIDE DEF D
<1>4. Extends(D, heap, {x})
  BY <1>1, <1>2 DEF Extends
<1>5. Reach(D, x) = {x}
  <2>1. D.next[x] = NULL /\ D.child[x] = NULL
    BY <1>1, <1>2 DEF Good, Blanked
  <2>2. Reach(D, x) \subseteq {x}
    BY <1>2, <2>1, ReachStays
  <2>3. x \in Reach(D, x)
    BY <1>2 DEF Reach
  <2>4. QED
    BY <2>2, <2>3
<1>6. CleanedUp(D, {x}) = Cleared(D, {x})
  BY <1>5 DEF CleanedUp
<1>7. QED
  BY <1>1, <1>3, <1>4, <1>6, ClearedIsOld

\* An array that is given up with the elements it has.
LEMMA ArrayUndone ==
  ASSUME NEW h, Good(h), NEW x \in Items \ h.live, NEW xs \in SUBSET (Items \ h.live),
         x \notin xs, NEW first \in xs,
         NEW after \in Bijection(xs, (xs \ {first}) \cup {NULL}),
         InList(ArrayOf(h, x, xs, first, after), x) = xs
  PROVE  CleanedUp([ArrayOf(h, x, xs, first, after) EXCEPT !.prev[first] = NULL], {x}) = h
<1> DEFINE made == ArrayOf(h, x, xs, first, after)
           D == [made EXCEPT !.prev[first] = NULL]
           new == {x} \cup xs
<1>1. /\ h \in Heap /\ x \in Items /\ first \in Items /\ xs \in SUBSET Items
      /\ \A y \in xs : after[y] \in xs \cup {NULL}
  BY HeapFields DEF Good, Bijection, Injection
<1>2. /\ made.live = h.live \cup new
      /\ made.child = [h.child EXCEPT ![x] = first] /\ made.string = h.string
      /\ made.next = [y \in Items |-> IF y \in xs THEN after[y] ELSE h.next[y]]
      /\ made.parent = [y \in Items |-> IF y \in xs THEN x ELSE h.parent[y]]
      /\ \A y \in Items \ xs : made.prev[y] = h.prev[y]
  BY <1>1 DEF ArrayOf, Heap
<1>3. /\ D.live = made.live /\ D.child = made.child /\ D.string = made.string
      /\ D.next = made.next /\ D.parent = made.parent
      /\ \A y \in Items \ xs : D.prev[y] = made.prev[y]
  <2>1. made = [live |-> made.live, next |-> made.next, prev |-> made.prev,
                child |-> made.child, string |-> made.string, parent |-> made.parent]
    <3> DEFINE L == h.live \cup {x} \cup xs
               nn == [y \in Items |-> IF y \in xs THEN after[y] ELSE h.next[y]]
               Before(y) == One({z \in xs : after[z] = IF y = first THEN NULL ELSE y})
               pp == [y \in Items |-> IF y \in xs THEN Before(y) ELSE h.prev[y]]
               uu == [y \in Items |-> IF y \in xs THEN x ELSE h.parent[y]]
    <3>1. made = [h EXCEPT !.live = L, !.child[x] = first, !.next = nn, !.prev = pp,
                           !.parent = uu]
      BY <1>1 DEF ArrayOf, Heap
    <3> HIDE DEF made, nn, pp, uu, L
    <3>2. QED
      BY <1>1, <3>1 DEF Heap
  <2> HIDE DEF made
  <2>2. D = [live |-> made.live, next |-> made.next, child |-> made.child,
             prev |-> [made.prev EXCEPT ![first] = NULL],
             string |-> made.string, parent |-> made.parent]
    BY <2>1
  <2>3. QED
    BY <1>1, <2>2
<1> HIDE DEF made, D
<1>4. Extends(D, h, new)
  BY <1>1, <1>2, <1>3, HeapFields DEF Extends
<1>5. D.child[x] = first /\ D.next[x] = NULL
  BY <1>1, <1>2, <1>3, HeapFields DEF Good, Blanked
<1>6. \A y \in xs : D.child[y] = NULL /\ D.next[y] \in xs \cup {NULL}
  BY <1>1, <1>2, <1>3, HeapFields DEF Good, Blanked
<1>7. Reach(D, x) \subseteq new
  <2>1. \A z \in new : {D.next[z], D.child[z]} \subseteq new \cup {NULL}
    BY <1>5, <1>6
  <2>2. new \in SUBSET D.live
    BY <1>2, <1>3
  <2>3. QED
    BY <2>1, <2>2, ReachStays
<1>8. x \in Reach(D, x)
  BY <1>2, <1>3 DEF Reach
<1>9. xs \subseteq Reach(D, x)
  <2> DEFINE S == {y \in made.live : y \in Reach(D, x)}
  <2>7. first \in D.live /\ first # NULL /\ first \in {D.next[x], D.child[x]}
    BY <1>1, <1>2, <1>3, <1>5, HeapFields
  <2>1. first \in Reach(D, x)
    BY <1>8, <2>7, ReachLinks
  <2>2. \A z \in S : made.next[z] \in S \cup {NULL}
    BY <1>2, <1>3, <1>5, <1>6, <1>7, ReachLinks
  <2>3. S \in SUBSET made.live /\ first \in S
    BY <1>2, <2>1
  <2> HIDE DEF S
  <2>4. Chain(made, first) \subseteq S
    BY <2>2, <2>3 DEF Chain
  <2>5. Chain(made, first) = xs
    BY <1>1, <1>2, HeapFields DEF InList, made
  <2>6. QED
    BY <2>4, <2>5 DEF S
<1>10. Reach(D, x) = new
  BY <1>7, <1>8, <1>9
<1>11. CleanedUp(D, {x}) = Cleared(D, new)
  BY <1>10 DEF CleanedUp
<1>12. QED
  BY <1>4, <1>11, ClearedIsOld DEF D, made

\* What is finished when a copy fails is not begun and is below what is begun:
\* an item's finished child and the item in front of a finished one are copied.
LEMMA FinishedBelow ==
  ASSUME NEW h, Good(h), NEW x \in h.live, NEW recurse \in BOOLEAN,
         NEW f \in Copied(h, x, recurse), NEW own \in SUBSET {f}
  PROVE  LET F == Copied(h, x, recurse)
             fin == Finished(h, F, f)
             alone == Begun(h, F, f) \cup own IN
         /\ F \in SUBSET h.live /\ x \in F /\ alone \subseteq F /\ fin \subseteq F
         /\ x \notin fin /\ alone \cap fin = {}
         /\ \A y \in F : h.next[y] \in fin => y \in fin
         /\ \A y \in F : h.child[y] \in fin => y \in alone \cup fin
<1> DEFINE F == Copied(h, x, recurse)
           fin == Finished(h, F, f)
           alone == Begun(h, F, f) \cup own
<1>1. F \in SUBSET h.live /\ x \in F
  BY CopiedClosed
<1>2. \A y \in alone : f \in Copied(h, y, TRUE)
  BY DEF Begun, Copied
<1>3. alone \subseteq F /\ fin \subseteq F
  BY DEF Begun, Finished
<1>4. Links(h.live, h.next, h.prev, h.child, h.parent) /\ NULL \notin h.live
  BY HeapFields DEF Good, ListsOf, Lists
<1>5. ASSUME NEW y \in fin
      PROVE  \E a \in F : \E p, z \in InList(h, a) :
               f \in Copied(h, p, TRUE) /\ z \notin Chain(h, p) /\ y \in Copied(h, z, TRUE)
  BY <1>5 DEF Finished
<1>6. ASSUME NEW a \in F, NEW p \in InList(h, a), NEW z \in InList(h, a),
             z \notin Chain(h, p)
      PROVE  /\ p \in h.live /\ z \in h.live /\ h.parent[p] = a /\ h.parent[z] = a
             /\ a \in h.live /\ p # z
  <2>1. /\ p \in h.live /\ z \in h.live /\ h.parent[p] = a /\ h.parent[z] = a
    BY <1>1, InListIsParent
  <2>2. p \in Chain(h, p)
    BY <2>1 DEF Chain
  <2>3. QED
    BY <1>1, <1>6, <2>1, <2>2
<1>7. x \notin fin
  <2>1. SUFFICES ASSUME x \in fin PROVE FALSE
    OBVIOUS
  <2>2. PICK a \in F : \E p, z \in InList(h, a) :
          z \notin Chain(h, p) /\ x \in Copied(h, z, TRUE)
    BY <1>5, <2>1
  <2>3. PICK p \in InList(h, a), z \in InList(h, a) :
          z \notin Chain(h, p) /\ x \in Copied(h, z, TRUE)
    BY <2>2
  <2>4. z \in h.live /\ h.parent[z] = a
    BY <1>6, <2>3
  <2>5. a \in Copied(h, x, TRUE)
    BY DEF Copied
  <2>8. /\ Copied(h, x, TRUE) = {x} \cup Reach(h, h.child[x]) /\ x \notin Reach(h, h.child[x])
        /\ \A y \in h.live : h.parent[y] \in Copied(h, x, TRUE) => y \in Reach(h, h.child[x])
    BY BelowWhole
  <2>6. z \in Reach(h, h.child[x]) /\ z \in Copied(h, x, TRUE)
    BY <2>4, <2>5, <2>8
  <2>7. QED
    BY <2>3, <2>6, <2>8, BelowBelow
<1>8. alone \cap fin = {}
  <2>1. SUFFICES ASSUME NEW y \in alone, y \in fin PROVE FALSE
    OBVIOUS
  <2>2. PICK a \in F : \E p, z \in InList(h, a) :
          f \in Copied(h, p, TRUE) /\ z \notin Chain(h, p) /\ y \in Copied(h, z, TRUE)
    BY <1>5, <2>1
  <2>3. PICK p \in InList(h, a), z \in InList(h, a) :
          f \in Copied(h, p, TRUE) /\ z \notin Chain(h, p) /\ y \in Copied(h, z, TRUE)
    BY <2>2
  <2>4. p # z /\ a \in h.live /\ z \in h.live
    BY <1>6, <2>3
  <2>5. f \in Copied(h, z, TRUE)
    BY <1>2, <2>1, <2>3, <2>4, BelowBelow
  <2>6. QED
    BY <2>3, <2>4, <2>5, BelowApart
<1>9. ASSUME NEW y \in F, h.next[y] \in fin PROVE y \in fin
  <2>1. PICK a \in F : \E p, z \in InList(h, a) :
          f \in Copied(h, p, TRUE) /\ z \notin Chain(h, p) /\ h.next[y] \in Copied(h, z, TRUE)
    BY <1>5, <1>9
  <2>2. PICK p \in InList(h, a), z \in InList(h, a) :
          f \in Copied(h, p, TRUE) /\ z \notin Chain(h, p) /\ h.next[y] \in Copied(h, z, TRUE)
    BY <2>1
  <2>3. /\ p \in h.live /\ z \in h.live /\ h.parent[p] = a /\ h.parent[z] = a /\ a \in h.live
    BY <1>6, <2>2
  <2>4. /\ y \in h.live /\ h.next[y] \in h.live /\ h.next[y] # NULL
    BY <1>1, <1>3, <1>4, <1>9
  <2>5. h.parent[y] = h.parent[h.next[y]]
    BY <1>4, <2>4 DEF Links
  <2>6. /\ Copied(h, z, TRUE) = {z} \cup Reach(h, h.child[z])
        /\ \A w \in Reach(h, h.child[z]) : h.parent[w] \in Copied(h, z, TRUE)
        /\ \A w \in h.live : h.parent[w] \in Copied(h, z, TRUE) => w \in Reach(h, h.child[z])
    BY <2>3, BelowWhole
  <2>7. CASE h.next[y] = z
    <3>1. y \in InList(h, a)
      BY <2>3, <2>4, <2>5, <2>7, InListIsParent
    <3>2. y \notin Chain(h, p)
      BY <2>2, <2>3, <2>4, <2>7 DEF Chain
    <3>3. y \in Copied(h, y, TRUE)
      BY DEF Copied
    <3>4. QED
      BY <2>2, <3>1, <3>2, <3>3 DEF Finished
  <2>8. CASE h.next[y] \in Reach(h, h.child[z])
    <3>1. y \in Copied(h, z, TRUE)
      BY <2>4, <2>5, <2>6, <2>8
    <3>2. QED
      BY <2>2, <3>1 DEF Finished
  <2>9. QED
    BY <2>2, <2>6, <2>7, <2>8
<1>10. ASSUME NEW y \in F, h.child[y] \in fin PROVE y \in alone \cup fin
  <2>1. PICK a \in F : \E p, z \in InList(h, a) :
          f \in Copied(h, p, TRUE) /\ z \notin Chain(h, p) /\ h.child[y] \in Copied(h, z, TRUE)
    BY <1>5, <1>10
  <2>2. PICK p \in InList(h, a), z \in InList(h, a) :
          f \in Copied(h, p, TRUE) /\ z \notin Chain(h, p) /\ h.child[y] \in Copied(h, z, TRUE)
    BY <2>1
  <2>3. /\ p \in h.live /\ z \in h.live /\ h.parent[p] = a /\ h.parent[z] = a /\ a \in h.live
    BY <1>6, <2>2
  <2>4. y \in h.live /\ h.child[y] \in h.live /\ h.parent[h.child[y]] = y
    BY <1>1, <1>3, <1>4, <1>10 DEF Links
  <2>5. /\ Copied(h, z, TRUE) = {z} \cup Reach(h, h.child[z])
        /\ \A w \in Reach(h, h.child[z]) : h.parent[w] \in Copied(h, z, TRUE)
    BY <2>3, BelowWhole
  <2>6. CASE h.child[y] = z
    <3>1. /\ Copied(h, y, TRUE) = {y} \cup Reach(h, h.child[y])
          /\ y \notin Reach(h, h.child[y])
          /\ \A w \in h.live : h.parent[w] \in Copied(h, y, TRUE) => w \in Reach(h, h.child[y])
      BY <2>4, BelowWhole
    <3>2. p \in Reach(h, h.child[y]) /\ p \in Copied(h, y, TRUE)
      BY <2>3, <2>4, <2>6, <3>1
    <3>3. f \in Reach(h, h.child[y])
      BY <2>2, <2>4, <3>2, BelowBelow
    <3>4. QED
      BY <3>1, <3>3 DEF Begun
  <2>7. CASE h.child[y] \in Reach(h, h.child[z])
    <3>1. y \in Copied(h, z, TRUE)
      BY <2>4, <2>5, <2>7
    <3>2. QED
      BY <2>2, <3>1 DEF Finished
  <2>8. QED
    BY <2>2, <2>5, <2>6, <2>7
<1>11. QED
  BY <1>1, <1>3, <1>7, <1>8, <1>9, <1>10

\* What is left of a copy that is given up.
Undone(h, alone, new, orig) ==
  CleanedUp(Duplicated(h, alone, orig), {z \in new : orig[z] \in alone})

\* The copy of x is given up at f.
CopyStops(h, x, recurse, f, own, alone, new, orig) ==
  /\ x \in h.live /\ recurse \in BOOLEAN /\ f \in Copied(h, x, recurse) /\ own \in SUBSET {f}
  /\ alone = Begun(h, Copied(h, x, recurse), f) \cup own /\ new \in SUBSET (Items \ h.live)
  /\ orig \in Bijection(new, alone \cup Finished(h, Copied(h, x, recurse), f))

\* A copy that is given up at f: what the calls that had begun delete is all
\* that was copied.
LEMMA CopyUndone ==
  ASSUME NEW h, Good(h), NEW x, NEW recurse, NEW f, NEW own, NEW alone, NEW new, NEW orig,
         CopyStops(h, x, recurse, f, own, alone, new, orig)
  PROVE  Undone(h, alone, new, orig) = h
<1> USE DEF CopyStops
<1> SUFFICES CleanedUp(Duplicated(h, alone, orig), {z \in new : orig[z] \in alone}) = h
  BY Zenon DEF Undone
<1> DEFINE F == Copied(h, x, recurse)
           fin == Finished(h, F, f)
           D == Duplicated(h, alone, orig)
           cs == {z \in new : orig[z] \in alone}
           Copy(y) == One({z \in new : orig[z] = y})
           InPlace(y) == IF y \in alone THEN NULL ELSE Copy(y)
           S == UNION {Reach(D, z) : z \in cs}
<1>1. /\ F \in SUBSET h.live /\ x \in F /\ alone \subseteq F /\ fin \subseteq F
      /\ x \notin fin /\ alone \cap fin = {}
      /\ \A y \in F : h.next[y] \in fin => y \in fin
      /\ \A y \in F : h.child[y] \in fin => y \in alone \cup fin
  BY FinishedBelow
<1>2. /\ DOMAIN orig = new /\ \A z \in new : orig[z] \in alone \cup fin
      /\ \A y, z \in new : orig[y] = orig[z] => y = z
      /\ \A t \in alone \cup fin : \E z \in new : orig[z] = t
  BY DEF Bijection, Injection, Surjection, IsInjective
<1>3. /\ h \in Heap /\ h.live \in SUBSET Items /\ NULL \notin Items /\ new \in SUBSET Items
  BY HeapFields DEF Good
<1>4. \A y : Copy(y) \in new \cup {NULL}
  BY OneIn
<1>5. \A z \in new : Copy(orig[z]) = z
  <2>1. SUFFICES ASSUME NEW z \in new PROVE Copy(orig[z]) = z
    OBVIOUS
  <2>2. {w \in new : orig[w] = orig[z]} = {z}
    BY <1>2
  <2>3. QED
    BY <2>2, OneOf
<1> HIDE DEF Copy
<1>6. \A y : InPlace(y) \in new \cup {NULL}
  BY <1>4
<1>7. \A y \in fin : InPlace(y) = Copy(y)
  BY <1>1
<1>8. /\ D.live = h.live \cup new
      /\ \A z \in Items \ new :
           /\ D.next[z] = h.next[z] /\ D.prev[z] = h.prev[z] /\ D.child[z] = h.child[z]
           /\ D.string[z] = h.string[z] /\ D.parent[z] = h.parent[z]
      /\ \A z \in new :
           /\ D.next[z] = IF orig[z] \in alone THEN NULL ELSE InPlace(h.next[orig[z]])
           /\ D.child[z] = InPlace(h.child[orig[z]])
  BY <1>2, <1>3 DEF Duplicated, Copy
<1> HIDE DEF D, InPlace
<1>9. Extends(D, h, new)
  BY <1>8 DEF Extends
<1>10. S \subseteq new
  <2>1. \A z \in new : {D.next[z], D.child[z]} \subseteq new \cup {NULL}
    BY <1>6, <1>8
  <2>2. new \in SUBSET D.live
    BY <1>8
  <2>3. \A z \in cs : Reach(D, z) \subseteq new
    BY <2>1, <2>2, ReachStays
  <2>4. QED
    BY <2>3
<1>11. cs \subseteq S
  <2>1. \A z \in cs : z \in Reach(D, z)
    BY <1>8 DEF Reach
  <2>2. QED
    BY <2>1
<1>12. \A z \in S, w \in new : w \in {D.next[z], D.child[z]} => w \in S
  <2>1. SUFFICES ASSUME NEW z \in S, NEW w \in new, w \in {D.next[z], D.child[z]} PROVE w \in S
    OBVIOUS
  <2>2. PICK c \in cs : z \in Reach(D, c)
    BY <2>1
  <2>3. w \in D.live /\ w # NULL
    BY <1>3, <1>8
  <2>4. w \in Reach(D, c)
    BY <2>1, <2>2, <2>3, ReachLinks
  <2>5. QED
    BY <2>4
<1> HIDE DEF S
<1> DEFINE T == {y \in F : y \in alone \cup fin => Copy(y) \in S}
<1>13. \A y \in alone \cup fin : Copy(y) \in new /\ orig[Copy(y)] = y
  BY <1>2, <1>5
<1>14. alone \subseteq T
  BY <1>1, <1>11, <1>13
<1>15. x \in T
  BY <1>1, <1>14
<1>16. ASSUME NEW y \in T, h.next[y] \in F PROVE h.next[y] \in T
  <2>1. SUFFICES ASSUME h.next[y] \in fin PROVE Copy(h.next[y]) \in S
    BY <1>14, <1>16
  <2>2. y \in fin /\ y \notin alone /\ Copy(y) \in S
    BY <1>1, <2>1
  <2>3. D.next[Copy(y)] = Copy(h.next[y])
    BY <1>7, <1>8, <1>13, <2>1, <2>2
  <2>4. QED
    BY <1>12, <1>13, <2>1, <2>2, <2>3
<1>17. ASSUME NEW y \in T, h.child[y] \in F PROVE h.child[y] \in T
  <2>1. SUFFICES ASSUME h.child[y] \in fin PROVE Copy(h.child[y]) \in S
    BY <1>14, <1>17
  <2>2. y \in alone \cup fin /\ Copy(y) \in S
    BY <1>1, <2>1
  <2>3. D.child[Copy(y)] = Copy(h.child[y])
    BY <1>7, <1>8, <1>13, <2>1, <2>2
  <2>4. QED
    BY <1>12, <1>13, <2>1, <2>2, <2>3
<1>18. F \subseteq T
  <2>1. CASE ~recurse
    <3>1. F = {x}
      BY <2>1 DEF Copied
    <3>2. QED
      BY <1>15, <3>1
  <2>2. CASE recurse
    <3> DEFINE R == Reach(h, h.child[x])
               U == T \cap R
    <3>1. /\ F = {x} \cup R /\ (h.child[x] # NULL => h.child[x] \in R)
          /\ \A y \in R : h.next[y] \in R \cup {NULL} /\ h.child[y] \in R \cup {NULL}
      BY <2>2, BelowWhole
    <3>2. h.child[x] # NULL => h.child[x] \in U
      BY <1>15, <1>17, <3>1
    <3>3. \A y \in U : {h.next[y], h.child[y]} \subseteq U \cup {NULL}
      BY <1>16, <1>17, <3>1
    <3>4. U \in SUBSET h.live
      BY <1>1
    <3> HIDE DEF U, T
    <3>5. CASE h.child[x] = NULL
      <4>1. R = {}
        BY <1>3, <3>5 DEF Reach
      <4>2. QED
        BY <1>15, <3>1, <4>1
    <3>6. CASE h.child[x] # NULL
      <4>1. R \subseteq U
        BY <3>2, <3>3, <3>4, <3>6, ReachStays
      <4>2. QED
        BY <1>15, <3>1, <4>1 DEF U
    <3>7. QED
      BY <3>5, <3>6
  <2>3. QED
    BY <2>1, <2>2
<1>19. new \subseteq S
  BY <1>1, <1>2, <1>5, <1>18
<1>20. CleanedUp(D, cs) = Cleared(D, new)
  BY <1>10, <1>19 DEF CleanedUp, S
<1>21. QED
  BY <1>9, <1>20, ClearedIsOld DEF D

-----------------------------------------------------------------------------
(* What the calls do. *)

\* The item that an index or a name finds is one of the list.
LEMMA ArrayItemIn ==
  ASSUME NEW h, Good(h), NEW a \in h.live, NEW n, GetArrayItem(h, a, n) # NULL
  PROVE  GetArrayItem(h, a, n) \in h.live /\ h.parent[GetArrayItem(h, a, n)] = a
<1>1. GetArrayItem(h, a, n) \in InList(h, a)
  BY OneIn DEF GetArrayItem
<1>2. QED
  BY <1>1, InListIsParent

LEMMA ObjectItemIn ==
  ASSUME NEW h, Good(h), NEW a \in h.live, NEW k, NEW sensitive,
         GetObjectItem(h, a, k, sensitive) # NULL
  PROVE  /\ GetObjectItem(h, a, k, sensitive) \in h.live
         /\ h.parent[GetObjectItem(h, a, k, sensitive)] = a
<1>1. GetObjectItem(h, a, k, sensitive) \in InList(h, a)
  BY OneIn DEF GetObjectItem
<1>2. QED
  BY <1>1, InListIsParent

\* An item that may be added is a root, and is not above where it goes.
LEMMA AddableIsRoot ==
  ASSUME TreeInv, NEW a, NEW x \in Addable(a)
  PROVE  x \in Roots(heap) /\ x \in heap.live /\ a \notin Reach(heap, x)
  BY DEF TreeInv, Addable, Roots

LEMMA NothingKeeps == ASSUME TreeInv, heap' = heap, held' = held PROVE TreeInv'
  BY DEF TreeInv, Good, ListsOf, Blanked, Roots

LEMMA CreateKeeps == ASSUME TreeInv, Create PROVE TreeInv'
<1>1. CASE \E x \in Unused : heap' = Allocated(heap, {x}) /\ held' = held \cup {x}
  <2>1. PICK x \in Unused : heap' = Allocated(heap, {x}) /\ held' = held \cup {x}
    BY <1>1
  <2>2. {x} \in SUBSET (Items \ heap.live)
    BY DEF Unused
  <2>3. QED
    BY <2>1, <2>2, GoodAllocated DEF TreeInv
<1>2. CASE Nothing \/ \E x \in Unused : GivenUp(x)
  BY <1>2, GivenUpIsNothing, NothingKeeps DEF Nothing
<1>3. QED
  BY <1>1, <1>2 DEF Create

\* An array that is made with its elements.
ArrayMade(x, xs, first, after) ==
  /\ x \notin xs /\ InList(ArrayOf(heap, x, xs, first, after), x) = xs
  /\ heap' = ArrayOf(heap, x, xs, first, after)
  /\ held' = held \cup {x} /\ Did("CreateArray", <<>>, x)

ArrayGivenUp(x, xs, first, after) ==
  /\ x \notin xs /\ InList(ArrayOf(heap, x, xs, first, after), x) = xs
  /\ heap' = CleanedUp([ArrayOf(heap, x, xs, first, after) EXCEPT !.prev[first] = NULL], {x})
  /\ UNCHANGED held /\ Did("CreateArray", <<>>, NULL)

\* What CreateArray does, by whether it fails.
LEMMA CreateArrayCases ==
  ASSUME TreeInv, CreateArray
  PROVE  \/ heap' = heap /\ held' = held /\ Did("CreateArray", <<>>, NULL)
         \/ \E x \in Unused, xs \in SUBSET Unused : \E first \in xs :
              \E after \in Bijection(xs, (xs \ {first}) \cup {NULL}) :
                ArrayMade(x, xs, first, after)
<1>1. CASE /\ Nothing \/ \E x \in Unused : GivenUp(x)
           /\ Did("CreateArray", <<>>, NULL)
  BY <1>1, GivenUpIsNothing DEF Nothing
<1>2. ASSUME NEW x \in Unused, NEW xs \in SUBSET Unused, NEW first \in xs,
             NEW after \in Bijection(xs, (xs \ {first}) \cup {NULL}),
             ArrayGivenUp(x, xs, first, after)
      PROVE  heap' = heap /\ held' = held /\ Did("CreateArray", <<>>, NULL)
  <2>1. x \in Items \ heap.live /\ xs \in SUBSET (Items \ heap.live) /\ Good(heap)
    BY DEF Unused, TreeInv
  <2>2. heap = CleanedUp([ArrayOf(heap, x, xs, first, after) EXCEPT !.prev[first] = NULL], {x})
    BY <1>2, <2>1, ArrayUndone DEF ArrayGivenUp
  <2>3. QED
    BY <1>2, <2>2 DEF ArrayGivenUp
<1>3. CASE \E x \in Unused, xs \in SUBSET Unused : \E first \in xs :
             \E after \in Bijection(xs, (xs \ {first}) \cup {NULL}) :
               ArrayMade(x, xs, first, after) \/ ArrayGivenUp(x, xs, first, after)
  <2>1. PICK x \in Unused, xs \in SUBSET Unused : \E first \in xs :
             \E after \in Bijection(xs, (xs \ {first}) \cup {NULL}) :
               ArrayMade(x, xs, first, after) \/ ArrayGivenUp(x, xs, first, after)
    BY <1>3
  <2>2. PICK first \in xs : \E after \in Bijection(xs, (xs \ {first}) \cup {NULL}) :
               ArrayMade(x, xs, first, after) \/ ArrayGivenUp(x, xs, first, after)
    BY <2>1
  <2>3. PICK after \in Bijection(xs, (xs \ {first}) \cup {NULL}) :
               ArrayMade(x, xs, first, after) \/ ArrayGivenUp(x, xs, first, after)
    BY <2>2
  <2>4. QED
    BY <1>2, <2>3
<1>4. QED
  BY <1>1, <1>3, Zenon DEF CreateArray, ArrayMade, ArrayGivenUp

LEMMA CreateArrayKeeps == ASSUME TreeInv, CreateArray PROVE TreeInv'
<1>1. ASSUME NEW x \in Unused, NEW xs \in SUBSET Unused, NEW first \in xs,
             NEW after \in Bijection(xs, (xs \ {first}) \cup {NULL}),
             ArrayMade(x, xs, first, after)
      PROVE  TreeInv'
  <2>1. x \in Items \ heap.live /\ xs \in SUBSET (Items \ heap.live)
    BY DEF Unused
  <2>2. /\ Good(ArrayOf(heap, x, xs, first, after))
        /\ Roots(ArrayOf(heap, x, xs, first, after)) = Roots(heap) \cup {x}
    BY <1>1, <2>1, GoodArray DEF TreeInv, ArrayMade
  <2>3. QED
    BY <1>1, <2>2 DEF TreeInv, ArrayMade
<1>2. QED
  BY <1>1, CreateArrayCases, NothingKeeps

LEMMA AddItemToArrayKeeps ==
  ASSUME TreeInv, NEW a \in heap.live, NEW x \in Addable(a), AddItemToArray(a, x)
  PROVE  TreeInv'
  BY AddableIsRoot, GoodAppended DEF AddItemToArray, TreeInv

LEMMA AddItemToObjectKeeps ==
  ASSUME TreeInv, NEW a \in heap.live, NEW k \in Names, NEW x \in Addable(a),
         AddItemToObject(a, k, x)
  PROVE  TreeInv'
<1> DEFINE h == Named(heap, x, k)
<1>1. CASE heap' = Appended(h, a, x) /\ held' = held \ {x}
  <2>1. x \in Roots(heap) /\ x \in heap.live /\ a \notin Reach(heap, x)
    BY AddableIsRoot
  <2>2. /\ Good(h) /\ Roots(h) = Roots(heap) /\ h.live = heap.live
        /\ Reach(h, x) = Reach(heap, x)
    BY <2>1, GoodNamed DEF TreeInv
  <2> HIDE DEF h
  <2>3. Good(Appended(h, a, x)) /\ Roots(Appended(h, a, x)) = Roots(h) \ {x}
    BY <2>1, <2>2, GoodAppended
  <2>4. QED
    BY <1>1, <2>2, <2>3 DEF TreeInv
<1>2. CASE Nothing
  BY <1>2, NothingKeeps DEF Nothing
<1>3. QED
  BY <1>1, <1>2 DEF AddItemToObject

\* Nothing is reached from an item that has just been allocated, but itself.
LEMMA AllocatedAlone ==
  ASSUME TreeInv, NEW x \in Unused, NEW a \in heap.live
  PROVE  /\ Good(Allocated(heap, {x})) /\ Roots(Allocated(heap, {x})) = Roots(heap) \cup {x}
         /\ x \in Allocated(heap, {x}).live /\ a \in Allocated(heap, {x}).live
         /\ a \notin Reach(Allocated(heap, {x}), x) /\ x \notin Roots(heap)
<1> DEFINE h == Allocated(heap, {x})
<1>1. {x} \in SUBSET (Items \ heap.live) /\ heap \in Heap /\ x \in Items \ heap.live
  BY DEF Unused, TreeInv, Good
<1>2. Good(h) /\ Roots(h) = Roots(heap) \cup {x}
  BY <1>1, GoodAllocated DEF TreeInv
<1>3. h.live = heap.live \cup {x} /\ h.next = heap.next /\ h.child = heap.child
  BY <1>1 DEF Allocated, Heap
<1>4. h.next[x] = NULL /\ h.child[x] = NULL
  BY <1>1, <1>3 DEF TreeInv, Good, Blanked
<1> HIDE DEF h
<1>5. Reach(h, x) \subseteq {x}
  BY <1>3, <1>4 DEF Reach
<1>6. a # x /\ x \notin Roots(heap)
  BY <1>1 DEF Roots
<1>7. QED
  BY <1>2, <1>3, <1>5, <1>6 DEF h

LEMMA AddNewToObjectKeeps ==
  ASSUME TreeInv, NEW a \in heap.live, NEW k \in Names, AddNewToObject(a, k) PROVE TreeInv'
<1>1. ASSUME NEW x \in Unused, UNCHANGED held,
             heap' = Appended(Named(Allocated(heap, {x}), x, k), a, x)
      PROVE  TreeInv'
  <2> DEFINE h == Allocated(heap, {x})
             g == Named(h, x, k)
  <2>1. /\ Good(h) /\ Roots(h) = Roots(heap) \cup {x} /\ x \in h.live /\ a \in h.live
        /\ a \notin Reach(h, x) /\ x \notin Roots(heap)
    BY AllocatedAlone
  <2> HIDE DEF h
  <2>2. Good(g) /\ Roots(g) = Roots(h) /\ g.live = h.live /\ Reach(g, x) = Reach(h, x)
    BY <2>1, GoodNamed
  <2> HIDE DEF g
  <2>3. Good(Appended(g, a, x)) /\ Roots(Appended(g, a, x)) = Roots(g) \ {x}
    BY <2>1, <2>2, GoodAppended
  <2>4. QED
    BY <1>1, <2>1, <2>2, <2>3 DEF TreeInv, g, h
<1>2. CASE Nothing \/ \E x \in Unused : GivenUp(x)
  BY <1>2, GivenUpIsNothing, NothingKeeps DEF Nothing
<1>3. QED
  BY <1>1, <1>2 DEF AddNewToObject

LEMMA InsertItemInArrayKeeps ==
  ASSUME TreeInv, NEW a \in heap.live, NEW n, NEW x \in Addable(a), InsertItemInArray(a, n, x)
  PROVE  TreeInv'
<1> DEFINE y == GetArrayItem(heap, a, n)
<1>1. /\ heap' = IF y = NULL THEN Appended(heap, a, x) ELSE Inserted(heap, a, y, x)
      /\ held' = held \ {x}
  BY DEF InsertItemInArray
<1>2. x \in Roots(heap) /\ a \notin Reach(heap, x)
  BY AddableIsRoot
<1>3. y # NULL => y \in heap.live /\ heap.parent[y] = a
  BY ArrayItemIn DEF TreeInv
<1> HIDE DEF y
<1>4. CASE y = NULL
  BY <1>1, <1>2, <1>4, GoodAppended DEF TreeInv
<1>5. CASE y # NULL
  BY <1>1, <1>2, <1>3, <1>5, GoodInserted DEF TreeInv
<1>6. QED
  BY <1>4, <1>5

LEMMA DetachKeeps ==
  ASSUME TreeInv, NEW a \in heap.live, NEW y,
         y # NULL => y \in heap.live /\ heap.parent[y] = a, Detach(a, y)
  PROVE  TreeInv'
<1>1. CASE y = NULL
  BY <1>1, NothingKeeps DEF Detach, Nothing
<1>2. CASE y # NULL
  <2>1. /\ heap' = Detached(heap, a, y) /\ held' = held \cup {y}
        /\ y \in heap.live /\ heap.parent[y] = a
    BY <1>2 DEF Detach
  <2>2. QED
    BY <2>1, GoodDetached DEF TreeInv
<1>3. QED
  BY <1>1, <1>2

LEMMA DeleteItemKeeps ==
  ASSUME TreeInv, NEW a \in heap.live, NEW y,
         y # NULL => y \in heap.live /\ heap.parent[y] = a, DeleteItem(a, y)
  PROVE  TreeInv'
<1> DEFINE h == Detached(heap, a, y)
<1>1. CASE y = NULL
  BY <1>1, NothingKeeps DEF DeleteItem
<1>2. CASE y # NULL
  <2>1. y \in heap.live /\ heap.parent[y] = a /\ heap' = Freed(h, y) /\ held' = held
    BY <1>2 DEF DeleteItem
  <2>2. Good(h) /\ Roots(h) = Roots(heap) \cup {y}
    BY <2>1, GoodDetached DEF TreeInv
  <2> HIDE DEF h
  <2>3. Good(Freed(h, y)) /\ Roots(Freed(h, y)) = Roots(h) \ {y}
    BY <2>2, GoodFreed
  <2>4. y \notin Roots(heap)
    BY <2>1, HeapFields, <1>2 DEF TreeInv, Good, Roots
  <2>5. QED
    BY <2>1, <2>2, <2>3, <2>4 DEF TreeInv
<1>3. QED
  BY <1>1, <1>2

\* h is heap, but that x may have got a name.
LEMMA ReplaceItemKeeps ==
  ASSUME TreeInv, NEW h, Good(h), Roots(h) = Roots(heap), NEW a \in h.live,
         NEW x \in Roots(h), a \notin Reach(h, x), NEW y,
         y # NULL => y \in h.live /\ h.parent[y] = a, ReplaceItem(h, a, y, x)
  PROVE  TreeInv'
<1>1. CASE y = NULL
  BY <1>1 DEF ReplaceItem, TreeInv
<1>2. CASE y # NULL
  <2> DEFINE g == Replaced(h, a, y, x)
  <2>1. heap' = Freed(g, y) /\ held' = held \ {x}
    BY <1>2 DEF ReplaceItem
  <2>2. Good(g) /\ Roots(g) = (Roots(h) \ {x}) \cup {y}
    BY <1>2, GoodReplaced
  <2> HIDE DEF g
  <2>3. Good(Freed(g, y)) /\ Roots(Freed(g, y)) = Roots(g) \ {y}
    BY <2>2, GoodFreed
  <2>4. y \notin Roots(h)
    BY <1>2, HeapFields DEF Good, Roots
  <2>5. QED
    BY <2>1, <2>2, <2>3, <2>4 DEF TreeInv
<1>3. QED
  BY <1>1, <1>2

LEMMA ReplaceItemInArrayKeeps ==
  ASSUME TreeInv, NEW a \in heap.live, NEW n, NEW x \in Addable(a), ReplaceItemInArray(a, n, x)
  PROVE  TreeInv'
<1> DEFINE y == GetArrayItem(heap, a, n)
<1>1. ReplaceItem(heap, a, y, x)
  BY DEF ReplaceItemInArray
<1>2. x \in Roots(heap) /\ a \notin Reach(heap, x)
  BY AddableIsRoot
<1>3. Good(heap) /\ (y # NULL => y \in heap.live /\ heap.parent[y] = a)
  BY ArrayItemIn DEF TreeInv
<1> HIDE DEF y
<1>4. QED
  BY <1>1, <1>2, <1>3, ReplaceItemKeeps

LEMMA ReplaceItemInObjectKeeps ==
  ASSUME TreeInv, NEW a \in heap.live, NEW k \in Names, NEW sensitive \in BOOLEAN,
         NEW x \in Addable(a), ReplaceItemInObject(a, k, sensitive, x)
  PROVE  TreeInv'
<1> DEFINE y == GetObjectItem(heap, a, k, sensitive)
           h == Named(heap, x, k)
<1>1. x \in Roots(heap) /\ x \in heap.live /\ a \notin Reach(heap, x)
  BY AddableIsRoot
<1>2. CASE ReplaceItem(h, a, y, x)
  <2>1. /\ Good(h) /\ Roots(h) = Roots(heap) /\ h.live = heap.live
        /\ h.parent = heap.parent /\ Reach(h, x) = Reach(heap, x)
    BY <1>1, GoodNamed DEF TreeInv
  <2>2. y # NULL => y \in heap.live /\ heap.parent[y] = a
    BY ObjectItemIn DEF TreeInv
  <2> HIDE DEF y, h
  <2>3. QED
    BY <1>1, <1>2, <2>1, <2>2, ReplaceItemKeeps
<1>3. CASE heap' = Named(heap, x, NULL) /\ UNCHANGED held
  <2> DEFINE g == Named(heap, x, NULL)
  <2>1. Good(g) /\ Roots(g) = Roots(heap)
    BY <1>1, GoodNamed DEF TreeInv
  <2> HIDE DEF g
  <2>2. QED
    BY <1>3, <2>1 DEF TreeInv, g
<1>4. QED
  BY <1>2, <1>3 DEF ReplaceItemInObject

LEMMA DeleteKeeps == ASSUME TreeInv, NEW x \in held, Delete(x) PROVE TreeInv'
  BY GoodFreed DEF Delete, TreeInv

\* A copy that is complete, and one that is given up.
CopyMade(y, recurse) ==
  \E new \in SUBSET Unused : \E orig \in Bijection(new, Copied(heap, y, recurse)) :
    /\ heap' = Duplicated(heap, {y}, orig)
    /\ held' = held \cup {z \in new : orig[z] = y}
    /\ \E z \in new : orig[z] = y /\ Did("Duplicate", <<y, recurse>>, z)

CopyGivenUp(y, recurse, f, new, alone) ==
  \E orig \in Bijection(new, alone \cup Finished(heap, Copied(heap, y, recurse), f)) :
    /\ heap' = Undone(heap, alone, new, orig)
    /\ UNCHANGED held /\ Did("Duplicate", <<y, recurse>>, NULL)

\* What Duplicate does, by whether it fails.
LEMMA DuplicateCases ==
  ASSUME TreeInv, NEW y \in heap.live, NEW recurse \in BOOLEAN, Duplicate(y, recurse)
  PROVE  \/ heap' = heap /\ held' = held /\ Did("Duplicate", <<y, recurse>>, NULL)
         \/ CopyMade(y, recurse)
<1> DEFINE F == Copied(heap, y, recurse)
<1>1. ASSUME NEW f \in F, NEW own \in SUBSET {f}, NEW new \in SUBSET Unused,
             CopyGivenUp(y, recurse, f, new, Begun(heap, F, f) \cup own)
      PROVE  heap' = heap /\ held' = held /\ Did("Duplicate", <<y, recurse>>, NULL)
  <2>1. PICK alone : alone = Begun(heap, F, f) \cup own
    OBVIOUS
  <2>2. CopyGivenUp(y, recurse, f, new, alone)
    BY <1>1, <2>1, Zenon
  <2>3. PICK orig \in Bijection(new, alone \cup Finished(heap, F, f)) :
          /\ heap' = Undone(heap, alone, new, orig)
          /\ UNCHANGED held /\ Did("Duplicate", <<y, recurse>>, NULL)
    BY <2>2 DEF CopyGivenUp
  <2>4. new \in SUBSET (Items \ heap.live) /\ Good(heap)
    BY DEF Unused, TreeInv
  <2>5. Undone(heap, alone, new, orig) = heap
    <3>1. CopyStops(heap, y, recurse, f, own, alone, new, orig)
      BY <2>1, <2>4 DEF CopyStops
    <3>2. QED
      BY <2>4, <3>1, CopyUndone
  <2>6. QED
    BY <2>3, <2>5, Zenon
<1>2. CASE \E f \in F : \E own \in SUBSET {f}, new \in SUBSET Unused :
             CopyGivenUp(y, recurse, f, new, Begun(heap, F, f) \cup own)
  <2>1. PICK f \in F : \E own \in SUBSET {f}, new \in SUBSET Unused :
          CopyGivenUp(y, recurse, f, new, Begun(heap, F, f) \cup own)
    BY <1>2
  <2>2. PICK own \in SUBSET {f}, new \in SUBSET Unused :
          CopyGivenUp(y, recurse, f, new, Begun(heap, F, f) \cup own)
    BY <2>1
  <2>3. QED
    BY <1>1, <2>2
<1>3. QED
  BY <1>2, Zenon DEF Duplicate, CopyMade, CopyGivenUp, Undone

LEMMA DuplicateKeeps ==
  ASSUME TreeInv, NEW y \in heap.live, NEW recurse \in BOOLEAN, Duplicate(y, recurse)
  PROVE  TreeInv'
<1>1. CASE CopyMade(y, recurse)
  <2>1. PICK new \in SUBSET Unused : \E orig \in Bijection(new, Copied(heap, y, recurse)) :
          /\ heap' = Duplicated(heap, {y}, orig)
          /\ held' = held \cup {z \in new : orig[z] = y}
    BY <1>1 DEF CopyMade
  <2>2. PICK orig \in Bijection(new, Copied(heap, y, recurse)) :
          /\ heap' = Duplicated(heap, {y}, orig)
          /\ held' = held \cup {z \in new : orig[z] = y}
    BY <2>1
  <2>3. new \in SUBSET (Items \ heap.live) /\ Good(heap) /\ held = Roots(heap)
    BY DEF Unused, TreeInv
  <2>4. /\ Good(Duplicated(heap, {y}, orig))
        /\ Roots(Duplicated(heap, {y}, orig)) = Roots(heap) \cup {z \in new : orig[z] = y}
    BY <2>3, GoodDuplicated
  <2>5. QED
    BY <2>2, <2>3, <2>4 DEF TreeInv
<1>2. QED
  BY <1>1, DuplicateCases, NothingKeeps

-----------------------------------------------------------------------------
(* The invariant, and what follows from it. *)

LEMMA InitTreeInv == ASSUME Init PROVE TreeInv
<1>1. heap \in Heap
  BY DEF Init, Heap, Link, Blank
<1>2. ListsOf(heap)
  BY DEF Init, ListsOf, Lists, Links, Found, Link, Blank
<1>3. Grounded(heap.live, heap.parent) /\ Blanked(heap)
  BY DEF Init, Grounded, Blanked, Blank
<1>4. QED
  BY <1>1, <1>2, <1>3 DEF Init, TreeInv, Good, Roots

LEMMA StepTreeInv == ASSUME TreeInv, [Next]_vars PROVE TreeInv'
<1>1. CASE UNCHANGED vars
  BY <1>1 DEF vars, TreeInv, Good, ListsOf, Blanked, Roots
<1>2. CASE Create
  BY <1>2, CreateKeeps
<1>3. CASE CreateArray
  BY <1>3, CreateArrayKeeps
<1>4. ASSUME NEW a \in heap.live, NEW x \in Addable(a), AddItemToArray(a, x) PROVE TreeInv'
  BY <1>4, AddItemToArrayKeeps
<1>5. ASSUME NEW a \in heap.live, NEW k \in Names, NEW x \in Addable(a),
             AddItemToObject(a, k, x)
      PROVE  TreeInv'
  BY <1>5, AddItemToObjectKeeps
<1>6. ASSUME NEW a \in heap.live, NEW k \in Names, AddNewToObject(a, k) PROVE TreeInv'
  BY <1>6, AddNewToObjectKeeps
<1>7. ASSUME NEW a \in heap.live, NEW n, DetachItemFromArray(a, n) \/ DeleteItemFromArray(a, n)
      PROVE  TreeInv'
  <2> DEFINE y == GetArrayItem(heap, a, n)
  <2>1. y # NULL => y \in heap.live /\ heap.parent[y] = a
    BY ArrayItemIn DEF TreeInv
  <2>2. Detach(a, y) \/ DeleteItem(a, y)
    BY <1>7 DEF DetachItemFromArray, DeleteItemFromArray
  <2> HIDE DEF y
  <2>3. QED
    BY <2>1, <2>2, DetachKeeps, DeleteItemKeeps
<1>8. ASSUME NEW a \in heap.live, NEW n, NEW x \in Addable(a), InsertItemInArray(a, n, x)
      PROVE  TreeInv'
  BY <1>8, InsertItemInArrayKeeps
<1>9. ASSUME NEW a \in heap.live, NEW n, NEW x \in Addable(a), ReplaceItemInArray(a, n, x)
      PROVE  TreeInv'
  BY <1>9, ReplaceItemInArrayKeeps
<1>10. ASSUME NEW a \in heap.live, NEW k \in Names, NEW sensitive \in BOOLEAN,
              DetachItemFromObject(a, k, sensitive) \/ DeleteItemFromObject(a, k, sensitive)
       PROVE  TreeInv'
  <2> DEFINE y == GetObjectItem(heap, a, k, sensitive)
  <2>1. y # NULL => y \in heap.live /\ heap.parent[y] = a
    BY ObjectItemIn DEF TreeInv
  <2>2. Detach(a, y) \/ DeleteItem(a, y)
    BY <1>10 DEF DetachItemFromObject, DeleteItemFromObject
  <2> HIDE DEF y
  <2>3. QED
    BY <2>1, <2>2, DetachKeeps, DeleteItemKeeps
<1>11. ASSUME NEW a \in heap.live, NEW k \in Names, NEW sensitive \in BOOLEAN,
              NEW x \in Addable(a), ReplaceItemInObject(a, k, sensitive, x)
       PROVE  TreeInv'
  BY <1>11, ReplaceItemInObjectKeeps
<1>12. ASSUME NEW a \in heap.live, NEW recurse \in BOOLEAN, Duplicate(a, recurse)
       PROVE  TreeInv'
  BY <1>12, DuplicateKeeps
<1>13. ASSUME NEW x \in held, Delete(x) PROVE TreeInv'
  BY <1>13, DeleteKeeps
<1>14. QED
  BY <1>1, <1>2, <1>3, <1>4, <1>5, <1>6, <1>7, <1>8, <1>9, <1>10, <1>11, <1>12, <1>13
  DEF Next

LEMMA Inductive == Spec => []TreeInv
<1>1. Init => TreeInv
  BY InitTreeInv
<1>2. TreeInv /\ [Next]_vars => TreeInv'
  BY StepTreeInv
<1>3. QED
  BY <1>1, <1>2, PTL DEF Spec

\* The fields of every item have their types, and one that is not live has none
\* that points anywhere: no call leaves a link to memory it freed in it.
THEOREM TypeCorrect == Spec => []TypeOK
<1>1. TreeInv => TypeOK
  BY DEF TreeInv, Good, Blanked, Roots, TypeOK
<1>2. QED
  BY <1>1, Inductive, PTL

\* For any number of items, every list is well linked after any calls: what
\* add_item_to_array, cJSON_InsertItemInArray, cJSON_DetachItemViaPointer,
\* cJSON_ReplaceItemViaPointer and cJSON_Duplicate_rec assume of next and prev
\* is what each of them leaves.
THEOREM LinksCorrect == Spec => []Linked
<1>1. TreeInv => Linked
  BY GoodLinked DEF TreeInv, Linked
<1>2. QED
  BY <1>1, Inductive, PTL

\* For any number of items, what is allocated is what the caller can still
\* delete: no call, whether it fails or not, loses an item or deletes one that
\* is still in a list.
THEOREM NothingLeaks == Spec => []NoLeak
<1>1. TreeInv => NoLeak
  <2>1. SUFFICES ASSUME TreeInv PROVE NoLeak
    OBVIOUS
  <2>2. Good(heap) /\ held = Roots(heap)
    BY <2>1 DEF TreeInv
  <2>3. heap.live = UNION {Reach(heap, x) : x \in held}
    BY <2>2, RootsReachAll
  <2>4. \A x \in held : heap.parent[x] = NULL
    BY <2>2 DEF Roots
  <2>5. QED
    BY <2>3, <2>4 DEF NoLeak
<1>2. QED
  BY <1>1, Inductive, PTL
=============================================================================
