----------------------------- MODULE JsonForest -----------------------------
(***************************************************************************)
(* What cJSON promises about its items: an array or object is a sequence   *)
(* of items, each of them in one place, and the items that are in none are *)
(* the caller's.  There are no pointers here.  A step is a call: f and g   *)
(* are the items before and after it, and call says which call it is, with *)
(* what arguments and what answer.                                         *)
(***************************************************************************)
EXTENDS Naturals, SequencesExt

CONSTANTS Lower, NULL

VARIABLES
  forest, \* kids: allocated item -> the sequence of what is in it;
          \* keys: allocated item -> its name
  call

Live(f) == DOMAIN f.kids
Roots(f) == Live(f) \ UNION {ToSet(f.kids[a]) : a \in Live(f)}
New(f, g) == Live(g) \ Live(f)

\* x and what is in it, at any depth.
Below(f, x) ==
  {y \in Live(f) : \A S \in SUBSET Live(f) :
     x \in S /\ (\A z \in S : ToSet(f.kids[z]) \subseteq S) => y \in S}

\* The trees of a root and of the item it is put in are two.
Addable(f, a, x) == x \in Roots(f) /\ a \in Live(f) \ Below(f, x)

\* Where the item counted n from 0 is in a, if anywhere.
At(f, a, n) == {i \in DOMAIN f.kids[a] : i = n + 1}

\* Where the first item named k is in a, if anywhere.  With regard to case the
\* search does not go past an item without a name.
IsNamed(key, k, sensitive) ==
  key # NULL /\ (IF sensitive THEN key = k ELSE Lower[key] = Lower[k])
NamedAt(f, a, k, sensitive) ==
  {i \in DOMAIN f.kids[a] :
     /\ IsNamed(f.keys[f.kids[a][i]], k, sensitive)
     /\ \A j \in 1..(i - 1) :
          LET key == f.keys[f.kids[a][j]] IN
          ~IsNamed(key, k, sensitive) /\ (sensitive => key # NULL)}

\* No item but x has another name, or another sequence.
SameKeys(f, g, x) == \A y \in (Live(f) \cap Live(g)) \ {x} : g.keys[y] = f.keys[y]
SameKids(f, g, x) == \A y \in (Live(f) \cap Live(g)) \ {x} : g.kids[y] = f.kids[y]
Kept(f, g) ==
  /\ Live(f) \subseteq Live(g)
  /\ \A y \in Live(f) : g.kids[y] = f.kids[y] /\ g.keys[y] = f.keys[y]
Only(f, g, x, s) == g.kids[x] = s /\ SameKids(f, g, x)
Rename(f, g, x, k) == SameKeys(f, g, x) /\ g.keys[x] = k
-----------------------------------------------------------------------------
(* What happens to the sequences. *)

\* Root x, with name k, gets place i in the sequence of another tree.
Add(f, g, a, i, x, k) ==
  /\ Addable(f, a, x)
  /\ Live(g) = Live(f) /\ Rename(f, g, x, k)
  /\ Only(f, g, a, InsertAt(f.kids[a], i, x))

\* An item leaves its sequence and is a root.
TakeOut(f, g, a, i) ==
  /\ Live(g) = Live(f) /\ g.keys = f.keys
  /\ Only(f, g, a, RemoveAt(f.kids[a], i))

\* An item leaves its sequence and is freed with what is in it.
Drop(f, g, a, i) ==
  /\ Live(g) = Live(f) \ Below(f, f.kids[a][i])
  /\ g.keys = [y \in Live(g) |-> f.keys[y]]
  /\ Only(f, g, a, RemoveAt(f.kids[a], i))

\* Root x, with name k, takes the place of an item, which is freed with what
\* is in it.
Replace(f, g, a, i, x, k) ==
  /\ Live(g) = Live(f) \ Below(f, f.kids[a][i])
  /\ Rename(f, g, x, k)
  /\ Only(f, g, a, ReplaceAt(f.kids[a], i, x))

\* x is a new root with the new plain items xs in it, each once.
NewRoot(f, g, x, xs) ==
  /\ Kept(f, g) /\ Live(g) = Live(f) \cup {x} \cup xs
  /\ x \notin Live(f) \cup xs /\ xs \cap Live(f) = {}
  /\ IsInjective(g.kids[x]) /\ ToSet(g.kids[x]) = xs
  /\ g.keys[x] = NULL /\ \A y \in xs : g.kids[y] = <<>> /\ g.keys[y] = NULL
-----------------------------------------------------------------------------
(* The calls.  One that cannot do what it is for changes nothing, unless it *)
(* says otherwise.                                                          *)

Create(f, g, x) == IF x = NULL THEN g = f ELSE NewRoot(f, g, x, {})

CreateArray(f, g, x) ==
  IF x = NULL THEN g = f ELSE NewRoot(f, g, x, Live(g) \ (Live(f) \cup {x}))

AddItemToArray(f, g, a, x, done) ==
  done /\ Add(f, g, a, Len(f.kids[a]) + 1, x, f.keys[x])

AddItemToObject(f, g, a, k, x, done) ==
  IF done THEN Add(f, g, a, Len(f.kids[a]) + 1, x, k) ELSE g = f

\* x is new, plain and the last.
AddNewToObject(f, g, a, k, x) ==
  IF x = NULL THEN g = f
  ELSE /\ x \notin Live(f) /\ Live(g) = Live(f) \cup {x}
       /\ g.kids[x] = <<>> /\ Rename(f, g, x, k)
       /\ Only(f, g, a, Append(f.kids[a], x))

InsertItemInArray(f, g, a, n, x, done) ==
  /\ done
  /\ \E i \in At(f, a, n) \cup {j \in {Len(f.kids[a]) + 1} : At(f, a, n) = {}} :
       Add(f, g, a, i, x, f.keys[x])

DetachItem(f, g, a, places, y) ==
  IF places = {} THEN g = f /\ y = NULL
  ELSE \E i \in places : TakeOut(f, g, a, i) /\ y = f.kids[a][i]

DeleteItem(f, g, a, places) ==
  IF places = {} THEN g = f ELSE \E i \in places : Drop(f, g, a, i)

ReplaceItemInArray(f, g, a, n, x, done) ==
  /\ done <=> At(f, a, n) # {}
  /\ IF done THEN \E i \in At(f, a, n) : Replace(f, g, a, i, x, f.keys[x]) ELSE g = f

\* When nothing is replaced, x is renamed all the same, or loses its name.
ReplaceItemInObject(f, g, a, k, sensitive, x, done) ==
  LET places == NamedAt(f, a, k, sensitive) IN
  IF done THEN \E i \in places : Replace(f, g, a, i, x, k)
  ELSE /\ g.kids = f.kids
       /\ Rename(f, g, x, NULL) \/ (places = {} /\ Rename(f, g, x, k))

\* Root x is freed with what is in it.
Delete(f, g, x) ==
  /\ x \in Roots(f)
  /\ Live(g) = Live(f) \ Below(f, x)
  /\ Kept(g, f)

\* x is a new root: a copy of the item y, perhaps with a copy of all in it.
Duplicate(f, g, y, recurse, x) ==
  IF x = NULL THEN g = f
  ELSE LET from == IF recurse THEN Below(f, y) ELSE {y} IN
       /\ Kept(f, g)
       /\ \E c \in [from -> New(f, g)] :
            /\ IsInjective(c) /\ ToSet(c) = New(f, g) /\ c[y] = x
            /\ \A z \in from :
                 /\ g.keys[c[z]] = f.keys[z]
                 /\ g.kids[c[z]] = IF recurse THEN [i \in DOMAIN f.kids[z] |-> c[f.kids[z][i]]]
                                   ELSE <<>>

Step(f, g, op, args, answer) ==
  \/ op = "Create" /\ Create(f, g, answer)
  \/ op = "CreateArray" /\ CreateArray(f, g, answer)
  \/ op = "AddItemToArray" /\ AddItemToArray(f, g, args[1], args[2], answer)
  \/ op = "AddItemToObject" /\ AddItemToObject(f, g, args[1], args[2], args[3], answer)
  \/ op = "AddNewToObject" /\ AddNewToObject(f, g, args[1], args[2], answer)
  \/ op = "InsertItemInArray" /\ InsertItemInArray(f, g, args[1], args[2], args[3], answer)
  \/ op = "DetachItemFromArray" /\ DetachItem(f, g, args[1], At(f, args[1], args[2]), answer)
  \/ op = "DetachItemFromObject" /\ DetachItem(f, g, args[1], NamedAt(f, args[1], args[2], args[3]), answer)
  \/ op = "DeleteItemFromArray" /\ DeleteItem(f, g, args[1], At(f, args[1], args[2]))
  \/ op = "DeleteItemFromObject" /\ DeleteItem(f, g, args[1], NamedAt(f, args[1], args[2], args[3]))
  \/ op = "ReplaceItemInArray" /\ ReplaceItemInArray(f, g, args[1], args[2], args[3], answer)
  \/ /\ op = "ReplaceItemInObject"
     /\ ReplaceItemInObject(f, g, args[1], args[2], args[3], args[4], answer)
  \/ op = "Delete" /\ Delete(f, g, args[1])
  \/ op = "Duplicate" /\ Duplicate(f, g, args[1], args[2], answer)

Init == forest = [kids |-> <<>>, keys |-> <<>>]
Next == \E f \in {forest}, g \in {forest'} : Step(f, g, call'.op, call'.args, call'.answer)
Spec == Init /\ [][Next]_<<forest, call>>
=============================================================================
