------------------------------ MODULE JsonTree ------------------------------
(***************************************************************************)
(* The items of cJSON (src/cjson/cJSON.c): what is in an array or object   *)
(* is a doubly linked list whose head points back to its tail and whose    *)
(* tail points to NULL.  An item's own links are what every operation      *)
(* works on; nothing points from an item to the one it is in.              *)
(*                                                                         *)
(* One thread calls, so a call is one step, and it is called as cJSON.h    *)
(* asks: an item that is added is the caller's and not above where it      *)
(* goes.  Memory is limited, and any allocation may fail.  Values and      *)
(* types decide nothing here; names do, in an object.                      *)
(***************************************************************************)
EXTENDS Naturals, SequencesExt

CONSTANTS
  Items,  \* addresses of items
  Names,
  Lower,  \* tolower of a name
  NULL

ASSUME TreeAssumption ==
  NULL \notin Items \cup Names /\ IsFiniteSet(Items) /\ Lower \in [Names -> Names]

VARIABLES
  heap, \* the items; of those that are not live, all fields are NULL
  held, \* the items that the caller has to add or delete
  call  \* a history variable: the last call, its arguments and its answer

vars == <<heap, held, call>>

Link == [Items -> Items \cup {NULL}]
\* parent is a history variable: the item whose list the item was put in.
Heap == [live : SUBSET Items, next : Link, prev : Link, child : Link,
         string : [Items -> Names \cup {NULL}], parent : Link]
Blank == [x \in Items |-> NULL]

Init ==
  /\ heap = [live |-> {}, next |-> Blank, prev |-> Blank, child |-> Blank,
             string |-> Blank, parent |-> Blank]
  /\ held = {}
  /\ call = [op |-> "none", args |-> <<>>, answer |-> NULL]
-----------------------------------------------------------------------------
(* Walks along the links. *)

\* x and the items after it, if x is an item.
Chain(h, x) ==
  {y \in h.live : x \in h.live /\ \A S \in SUBSET h.live :
     x \in S /\ (\A z \in S : h.next[z] \in S \cup {NULL}) => y \in S}

\* What cJSON_Delete(x) visits: x, the items after it, and all they contain.
Reach(h, x) ==
  {y \in h.live : x \in h.live /\ \A S \in SUBSET h.live :
     x \in S /\ (\A z \in S : {h.next[z], h.child[z]} \subseteq S \cup {NULL}) => y \in S}

InList(h, a) == Chain(h, h.child[a])
One(S) == IF S = {} THEN NULL ELSE CHOOSE y \in S : TRUE

\* cJSON_GetArraySize and get_array_item.
GetArraySize(h, a) == Cardinality(InList(h, a))
GetArrayItem(h, a, n) ==
  One({y \in InList(h, a) : Cardinality(Chain(h, y)) = GetArraySize(h, a) - n})

\* GetObjectItem, had the search gone on after a match.
GetObjectItemLast(h, a, k, sensitive) ==
  LET matches == {y \in InList(h, a) : h.string[y] # NULL /\ Lower[h.string[y]] = Lower[k]} IN
  One({y \in matches : Chain(h, y) \cap matches = {y}})

\* get_object_item: the first match.  The search with regard to case ends at
\* an item without a name.
GetObjectItem(h, a, k, sensitive) ==
  LET Stops(s) == IF sensitive THEN s \in {k, NULL} ELSE s # NULL /\ Lower[s] = Lower[k]
      stops == {y \in InList(h, a) : Stops(h.string[y])}
      first == One({y \in stops : stops \subseteq Chain(h, y)}) IN
  IF first = NULL \/ h.string[first] = NULL THEN NULL ELSE first
-----------------------------------------------------------------------------
(* What the operations do to the items. *)

\* cJSON_New_Item, which clears the item.
Allocated(h, xs) == [h EXCEPT !.live = @ \cup xs]

Named(h, x, k) == [h EXCEPT !.string[x] = k]

\* add_item_to_array.
Appended(h, a, x) ==
  LET head == h.child[a] IN
  CASE head = NULL ->
         [h EXCEPT !.child[a] = x, !.prev[x] = x, !.next[x] = NULL, !.parent[x] = a]
    [] head # NULL /\ h.prev[head] # NULL ->
         [h EXCEPT !.next[h.prev[head]] = x, !.prev = [@ EXCEPT ![x] = h.prev[head], ![head] = x],
                   !.parent[x] = a]
    [] OTHER -> h

\* cJSON_InsertItemInArray, in front of y.
Inserted(h, a, y, x) ==
  LET linked == [h EXCEPT !.next[x] = y, !.prev = [@ EXCEPT ![x] = h.prev[y], ![y] = x],
                          !.parent[x] = a] IN
  IF y = h.child[a] THEN [linked EXCEPT !.child[a] = x]
  ELSE [linked EXCEPT !.next[h.prev[y]] = x]

\* Detached, had the head kept the old tail when the tail was detached.
DetachedTailKept(h, a, y) ==
  LET head == h.child[a]
      before == IF y # head THEN [h.next EXCEPT ![h.prev[y]] = h.next[y]] ELSE h.next
      after == IF h.next[y] # NULL THEN [h.prev EXCEPT ![h.next[y]] = h.prev[y]] ELSE h.prev IN
  [h EXCEPT !.next = [before EXCEPT ![y] = NULL], !.prev = [after EXCEPT ![y] = NULL],
            !.child[a] = IF y = head THEN h.next[y] ELSE head, !.parent[y] = NULL]

\* cJSON_DetachItemViaPointer.
Detached(h, a, y) ==
  LET head == h.child[a]
      before == IF y # head THEN [h.next EXCEPT ![h.prev[y]] = h.next[y]] ELSE h.next
      after == IF h.next[y] # NULL THEN [h.prev EXCEPT ![h.next[y]] = h.prev[y]]
               ELSE IF y # head THEN [h.prev EXCEPT ![head] = h.prev[y]]
               ELSE h.prev IN
  [h EXCEPT !.next = [before EXCEPT ![y] = NULL], !.prev = [after EXCEPT ![y] = NULL],
            !.child[a] = IF y = head THEN h.next[y] ELSE head, !.parent[y] = NULL]

\* cJSON_ReplaceItemViaPointer, before it deletes y.
Replaced(h, a, y, x) ==
  LET head == h.child[a]
      next == [h.next EXCEPT ![x] = h.next[y]]
      prev == [z \in Items |-> IF z = x THEN h.prev[y]
                               ELSE IF z = h.next[y] THEN x ELSE h.prev[z]]
      linked ==
        IF y = head
        THEN [h EXCEPT !.next = next, !.child[a] = x,
                       !.prev = IF prev[y] = y THEN [prev EXCEPT ![x] = x] ELSE prev]
        ELSE [h EXCEPT !.next = IF prev[x] # NULL THEN [next EXCEPT ![prev[x]] = x] ELSE next,
                       !.prev = IF next[x] = NULL THEN [prev EXCEPT ![head] = x] ELSE prev] IN
  [linked EXCEPT !.next[y] = NULL, !.prev[y] = NULL, !.parent[y] = NULL, !.parent[x] = a]

\* Items gone are live no more, and nothing is left in them.
Cleared(h, gone) ==
  LET Clear(f) == [y \in Items |-> IF y \in gone THEN NULL ELSE f[y]] IN
  [live |-> h.live \ gone, next |-> Clear(h.next), prev |-> Clear(h.prev),
   child |-> Clear(h.child), string |-> Clear(h.string), parent |-> Clear(h.parent)]

\* cJSON_Delete.
Freed(h, x) == Cleared(h, Reach(h, x))

\* CleanedUp, had the call that failed deleted its own item and the calls
\* around it had not.
CleanedUpOnce(h, xs) == Freed(h, One(xs))

\* A cJSON_Delete of each of xs, which is what is left of a call that failed.
CleanedUp(h, xs) == Cleared(h, UNION {Reach(h, x) : x \in xs})

\* What cJSON_Duplicate copies of x: all that is in it, or x alone.
Copied(h, x, recurse) ==
  {x} \cup IF recurse THEN Reach(h, h.child[x]) ELSE {}

\* When the copy of f fails: the items whose copies are being made, which are
\* those that f is in, and the items whose copies are complete and linked, which
\* are those in front of one of the former, or of f, with all that is in them.
Begun(h, from, f) == {y \in from \ {f} : f \in Copied(h, y, TRUE)}
Finished(h, from, f) ==
  {y \in from : \E a \in from : \E p, z \in InList(h, a) :
     f \in Copied(h, p, TRUE) /\ z \notin Chain(h, p) /\ y \in Copied(h, z, TRUE)}

\* cJSON_Duplicate_rec.  orig gives each new item the one it copies.  A copy
\* is linked to the copy before it and the first to the last, but those of the
\* items alone to nothing.
Duplicated(h, alone, orig) ==
  LET new == DOMAIN orig
      Copy(y) == One({z \in new : orig[z] = y})
      InPlace(y) == IF y \in alone THEN NULL ELSE Copy(y)
      Before(y) == {w \in h.live : h.next[w] = y}
      LastFrom(y) == {w \in Chain(h, y) : h.next[w] = NULL}
      Extend(f, New(_)) == [z \in Items |-> IF z \in new THEN New(orig[z]) ELSE f[z]] IN
  [live   |-> h.live \cup new,
   next   |-> Extend(h.next, LAMBDA y : IF y \in alone THEN NULL ELSE InPlace(h.next[y])),
   prev   |-> Extend(h.prev, LAMBDA y : IF y \in alone THEN NULL
                               ELSE InPlace(One(IF Before(y) # {} THEN Before(y) ELSE LastFrom(y)))),
   child  |-> Extend(h.child, LAMBDA y : InPlace(h.child[y])),
   string |-> Extend(h.string, LAMBDA y : h.string[y]),
   parent |-> Extend(h.parent, LAMBDA y : IF y \in alone THEN NULL ELSE Copy(h.parent[y]))]

\* cJSON_CreateIntArray, cJSON_CreateStringArray and their like: array x with
\* the elements xs, linked one behind the other from first.
ArrayOf(h, x, xs, first, after) ==
  LET Before(y) == One({z \in xs : after[z] = IF y = first THEN NULL ELSE y})
      Extend(f, New(_)) == [y \in Items |-> IF y \in xs THEN New(y) ELSE f[y]] IN
  [h EXCEPT !.live = @ \cup {x} \cup xs,
            !.child[x] = first,
            !.next = Extend(@, LAMBDA y : after[y]),
            !.prev = Extend(@, Before),
            !.parent = Extend(@, LAMBDA y : x)]
-----------------------------------------------------------------------------
(* The calls. *)

Did(op, args, answer) == call' = [op |-> op, args |-> args, answer |-> answer]

\* An item for which there is memory.
Unused == Items \ heap.live

\* An item of the caller's that may go into a.
Addable(a) == {x \in held : a \notin Reach(heap, x)}

Nothing == UNCHANGED <<heap, held>>

\* Item x was created, and is deleted for what came next failed.
GivenUp(x) == heap' = CleanedUp(Allocated(heap, {x}), {x}) /\ UNCHANGED held

\* cJSON_CreateNull, ..., cJSON_CreateNumber, cJSON_CreateString, which fails
\* without memory for the item or for its string.
Create ==
  \/ \E x \in Unused :
       heap' = Allocated(heap, {x}) /\ held' = held \cup {x} /\ Did("Create", <<>>, x)
  \/ (Nothing \/ \E x \in Unused : GivenUp(x)) /\ Did("Create", <<>>, NULL)

\* When there is no memory for the next element, array x is deleted with those
\* it has.  The first then has no prev yet.
CreateArray ==
  \/ \E x \in Unused, xs \in SUBSET Unused :
       \E first \in xs : \E after \in Bijection(xs, (xs \ {first}) \cup {NULL}) :
         LET made == ArrayOf(heap, x, xs, first, after) IN
         /\ x \notin xs /\ InList(made, x) = xs
         /\ \/ heap' = made /\ held' = held \cup {x} /\ Did("CreateArray", <<>>, x)
            \/ /\ heap' = CleanedUp([made EXCEPT !.prev[first] = NULL], {x})
               /\ UNCHANGED held /\ Did("CreateArray", <<>>, NULL)
  \/ (Nothing \/ \E x \in Unused : GivenUp(x)) /\ Did("CreateArray", <<>>, NULL)

\* cJSON_AddItemToArray.
AddItemToArray(a, x) ==
  /\ heap' = Appended(heap, a, x) /\ held' = held \ {x}
  /\ Did("AddItemToArray", <<a, x>>, TRUE)

\* cJSON_AddItemToObject, which gives up without memory for the name.
AddItemToObject(a, k, x) ==
  \/ /\ heap' = Appended(Named(heap, x, k), a, x) /\ held' = held \ {x}
     /\ Did("AddItemToObject", <<a, k, x>>, TRUE)
  \/ Nothing /\ Did("AddItemToObject", <<a, k, x>>, FALSE)

\* cJSON_AddNumberToObject, cJSON_AddStringToObject and their like.
AddNewToObject(a, k) ==
  \/ \E x \in Unused :
       /\ heap' = Appended(Named(Allocated(heap, {x}), x, k), a, x) /\ UNCHANGED held
       /\ Did("AddNewToObject", <<a, k>>, x)
  \/ (Nothing \/ \E x \in Unused : GivenUp(x)) /\ Did("AddNewToObject", <<a, k>>, NULL)

\* cJSON_InsertItemInArray, which appends when there is no such place.
InsertItemInArray(a, n, x) ==
  /\ LET y == GetArrayItem(heap, a, n) IN
       heap' = IF y = NULL THEN Appended(heap, a, x) ELSE Inserted(heap, a, y, x)
  /\ held' = held \ {x}
  /\ Did("InsertItemInArray", <<a, n, x>>, TRUE)

\* cJSON_DetachItemFromArray, cJSON_DetachItemFromObject.
Detach(a, y) ==
  IF y = NULL THEN Nothing ELSE heap' = Detached(heap, a, y) /\ held' = held \cup {y}

DetachItemFromArray(a, n) ==
  LET y == GetArrayItem(heap, a, n) IN
  Detach(a, y) /\ Did("DetachItemFromArray", <<a, n>>, y)

DetachItemFromObject(a, k, sensitive) ==
  LET y == GetObjectItem(heap, a, k, sensitive) IN
  Detach(a, y) /\ Did("DetachItemFromObject", <<a, k, sensitive>>, y)

\* cJSON_DeleteItemFromArray, cJSON_DeleteItemFromObject.
DeleteItem(a, y) ==
  /\ heap' = IF y = NULL THEN heap ELSE Freed(Detached(heap, a, y), y)
  /\ UNCHANGED held

DeleteItemFromArray(a, n) ==
  /\ DeleteItem(a, GetArrayItem(heap, a, n))
  /\ Did("DeleteItemFromArray", <<a, n>>, NULL)

DeleteItemFromObject(a, k, sensitive) ==
  /\ DeleteItem(a, GetObjectItem(heap, a, k, sensitive))
  /\ Did("DeleteItemFromObject", <<a, k, sensitive>>, NULL)

\* cJSON_ReplaceItemViaPointer.
ReplaceItem(h, a, y, x) ==
  IF y = NULL THEN heap' = h /\ UNCHANGED held
  ELSE heap' = Freed(Replaced(h, a, y, x), y) /\ held' = held \ {x}

ReplaceItemInArray(a, n, x) ==
  LET y == GetArrayItem(heap, a, n) IN
  ReplaceItem(heap, a, y, x) /\ Did("ReplaceItemInArray", <<a, n, x>>, y # NULL)

\* replace_item_in_object.  The replacement has the new name even if there is
\* nothing to replace, or none without memory for it, and stays the caller's.
ReplaceItemInObject(a, k, sensitive, x) ==
  LET y == GetObjectItem(heap, a, k, sensitive) IN
  \/ /\ ReplaceItem(Named(heap, x, k), a, y, x)
     /\ Did("ReplaceItemInObject", <<a, k, sensitive, x>>, y # NULL)
  \/ /\ heap' = Named(heap, x, NULL) /\ UNCHANGED held
     /\ Did("ReplaceItemInObject", <<a, k, sensitive, x>>, FALSE)

\* cJSON_Delete.
Delete(x) ==
  heap' = Freed(heap, x) /\ held' = held \ {x} /\ Did("Delete", <<x>>, NULL)

\* cJSON_Duplicate.  Memory, or the depth allowed, may end at the copy of any
\* item f, before its own item is there or after (for a string); then each of
\* the calls that had begun deletes what it has.
Duplicate(y, recurse) ==
  LET from == Copied(heap, y, recurse) IN
  \/ \E new \in SUBSET Unused : \E orig \in Bijection(new, from) :
       /\ heap' = Duplicated(heap, {y}, orig)
       /\ held' = held \cup {z \in new : orig[z] = y}
       /\ \E z \in new : orig[z] = y /\ Did("Duplicate", <<y, recurse>>, z)
  \/ \E f \in from : \E own \in SUBSET {f}, new \in SUBSET Unused :
       LET alone == Begun(heap, from, f) \cup own IN
       \E orig \in Bijection(new, alone \cup Finished(heap, from, f)) :
         /\ heap' = CleanedUp(Duplicated(heap, alone, orig), {z \in new : orig[z] \in alone})
         /\ UNCHANGED held /\ Did("Duplicate", <<y, recurse>>, NULL)

Next ==
  \/ Create \/ CreateArray
  \/ \E a \in heap.live :
       \/ \E x \in Addable(a) :
            \/ AddItemToArray(a, x)
            \/ \E k \in Names :
                 \/ AddItemToObject(a, k, x)
                 \/ \E sensitive \in BOOLEAN : ReplaceItemInObject(a, k, sensitive, x)
            \/ \E n \in 0..GetArraySize(heap, a) :
                 InsertItemInArray(a, n, x) \/ ReplaceItemInArray(a, n, x)
       \/ \E n \in 0..GetArraySize(heap, a) :
            DetachItemFromArray(a, n) \/ DeleteItemFromArray(a, n)
       \/ \E k \in Names :
            \/ AddNewToObject(a, k)
            \/ \E sensitive \in BOOLEAN :
                 DetachItemFromObject(a, k, sensitive) \/ DeleteItemFromObject(a, k, sensitive)
       \/ \E recurse \in BOOLEAN : Duplicate(a, recurse)
  \/ \E x \in held : Delete(x)

Spec == Init /\ [][Next]_vars
-----------------------------------------------------------------------------
(* Properties. *)

\* Every variable has its type, and a field of an item that is not live is NULL.
TypeOK ==
  /\ heap \in Heap /\ held \subseteq heap.live
  /\ \A x \in Items \ heap.live :
       NULL = heap.next[x] /\ NULL = heap.prev[x] /\ NULL = heap.child[x]
       /\ NULL = heap.string[x] /\ NULL = heap.parent[x]

\* The links that the items of every array and object have, after any mix of
\* adding, inserting, replacing, detaching and copying: next and prev are
\* inverse, the head's prev is the one item without a next, an item is in one
\* list at most, and nothing points to a freed item (cJSON.c:1985-2373).
WellLinked(h) ==
  \A x \in h.live :
    /\ h.child[x] # NULL => h.child[x] \in h.live /\ h.parent[h.child[x]] = x
    /\ h.next[x] # NULL =>
         /\ h.next[x] \in h.live /\ h.prev[h.next[x]] = x
         /\ h.parent[x] # NULL /\ h.parent[h.next[x]] = h.parent[x]
         /\ h.next[x] # h.child[h.parent[x]]
    /\ h.parent[x] = NULL => h.prev[x] = NULL
    /\ h.parent[x] # NULL =>
         /\ h.parent[x] \in h.live /\ h.child[h.parent[x]] # NULL
         /\ h.prev[x] \in h.live /\ h.parent[h.prev[x]] = h.parent[x]
         /\ x = h.child[h.parent[x]] \/ h.next[h.prev[x]] = x
         /\ h.next[x] = NULL <=> x = h.prev[h.child[h.parent[x]]]
         /\ x \in InList(h, h.parent[x])
Linked == WellLinked(heap)

\* What is allocated is what the caller can reach from the items it holds, and
\* those are live and in no list: nothing leaks, also when an array or a copy
\* is given up half way, and nothing is freed twice (cJSON.h:152, 170-171,
\* 256-259; cJSON.c:2596-2600, 2794-2830).
NoLeak ==
  /\ heap.live = UNION {Reach(heap, x) : x \in held}
  /\ \A x \in held : heap.parent[x] = NULL

\* The elements of an array or object, in their order.
Elements(h, a) == [n \in 1..GetArraySize(h, a) |-> GetArrayItem(h, a, n - 1)]

\* The links implement sequences (see JsonForest): each call, with the array,
\* place, name and item that it is given, changes the one sequence that it is
\* about as its name says, answers accordingly, and changes no other
\* (cJSON.h:173-179, 227-259).
ForestOf(h) ==
  [kids |-> [a \in h.live |-> Elements(h, a)], keys |-> [a \in h.live |-> h.string[a]]]
Forest == INSTANCE JsonForest WITH forest <- ForestOf(heap)
ImplementsForest == Forest!Spec
=============================================================================
