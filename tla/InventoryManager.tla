-------------------------- MODULE InventoryManager --------------------------
(***************************************************************************)
(* The server's InventoryManager (src/server/InventoryManager.cpp): the    *)
(* stock of every item, and for each client the JSON object it was added   *)
(* or last updated with.  One thread calls it, so a call is one step; but  *)
(* addClient and removeClient walk through a client's object, and when     *)
(* std::stoi throws on a key they stop half way, with what they did done.  *)
(*                                                                         *)
(* A JSON object is the sequence of its items; a quantity stands for the   *)
(* int that its double is truncated to.  An item that the stock object     *)
(* lacks is one with stock 0: only a failing allocation tells them apart.  *)
(* A client whose object is NULL, as a failed cJSON_Duplicate leaves it,   *)
(* lists what the empty object does: nothing.                              *)
(***************************************************************************)
EXTENDS Integers, Sequences, SequencesExt, StdMap

CONSTANTS
  Clients, Items,
  NoClient,    \* the client of a call that names none
  Malformed,   \* a key that std::stoi rejects
  Docs,        \* the JSON objects that callers pass
  Quantities,  \* the quantities that callers pass
  MaxStock     \* bound on the stock of an item

Entry == [key : Items \cup {Malformed}, number : BOOLEAN, quantity : Int]

ASSUME InventoryAssumption ==
  /\ Malformed \notin Items /\ NoClient \notin Clients
  /\ Docs \subseteq Seq(Entry) /\ <<>> \in Docs
  /\ Quantities \subseteq Int /\ MaxStock \in Nat

VARIABLES
  stock,       \* globalInventory: item -> valuedouble
  inventories, \* clientInventories: client -> its JSON object
  plain,       \* history: nothing was updated or taken out, nothing threw
  put,         \* history: while plain, what increaseStock was called for
  last         \* the last call: its name, its client, whether it threw

vars == <<stock, inventories, plain, put, last>>

Zero == [i \in Items |-> 0]
Called(call, c, threw) == last' = [call |-> call, client |-> c, threw |-> threw]
Keep(stillPlain) ==
  plain' = (plain /\ stillPlain) /\ put' = IF plain' THEN put ELSE Zero

Init ==
  /\ stock = Zero
  /\ inventories = EmptyMap
  /\ plain = TRUE /\ put = Zero
  /\ last = [call |-> "none", client |-> NoClient, threw |-> FALSE]
-----------------------------------------------------------------------------
\* An item whose key std::stoi throws on; the loops skip what is no number.
Bad(e) == e.number /\ e.key = Malformed

\* Whether a loop over doc throws, and what it gets to before that.
Throws(doc) == \E i \in DOMAIN doc : Bad(doc[i])
Reached(doc) ==
  SubSeq(doc, 1, Min({i \in DOMAIN doc : Bad(doc[i])} \cup {Len(doc) + 1}) - 1)

\* Increased, had it taken any quantity.
IncreasedByAny(s, i, q) == [s EXCEPT ![i] = @ + q]

\* increaseStock.
Increased(s, i, q) == IF q <= 0 THEN s ELSE [s EXCEPT ![i] = @ + q]

\* Decreased, had it not compared with the stock.
DecreasedBelowZero(s, i, q) == IF q <= 0 THEN s ELSE [s EXCEPT ![i] = @ - q]

\* Decreased, had it taken any quantity.
DecreasedByAny(s, i, q) == IF s[i] < q THEN s ELSE [s EXCEPT ![i] = @ - q]

\* decreaseStock, which refuses more than there is.
Decreased(s, i, q) ==
  IF q <= 0 \/ s[i] < q THEN s ELSE [s EXCEPT ![i] = @ - q]

\* The bodies of the loops in addClient and removeClient.
AddItem(s, e) == IF e.number THEN Increased(s, e.key, e.quantity) ELSE s
RemoveItem(s, e) == IF e.number THEN Decreased(s, e.key, e.quantity) ELSE s

\* The items of doc may be missed: without memory increaseStock does not count one
\* that it has to create in the stock, where no earlier item of doc has put it.
MayMiss(s, doc, missed) ==
  \A k \in missed :
    /\ doc[k].number /\ doc[k].quantity > 0 /\ s[doc[k].key] = 0
    /\ \A j \in 1..(k - 1) :
         doc[j].number /\ doc[j].key = doc[k].key /\ doc[j].quantity > 0 => j \in missed
Without(doc, missed) ==
  [k \in DOMAIN doc |-> [doc[k] EXCEPT !.number = @ /\ k \notin missed]]

\* addClient.  The client is listed before its items are counted, with a copy of
\* the object, or with nothing if there is no memory for one.
AddClient(c, doc, copy, missed) ==
  /\ c \notin DOMAIN inventories
  /\ inventories' = Assign(inventories, c, copy)
  /\ MayMiss(stock, Reached(doc), missed)
  /\ stock' = FoldLeft(AddItem, stock, Without(Reached(doc), missed))
  /\ Called("addClient", c, Throws(doc))
  /\ \A i \in Items : stock'[i] <= MaxStock
  /\ Keep(~Throws(doc) /\ copy = doc /\ missed = {})

\* removeClient.  It ignores what decreaseStock returns, and a client whose
\* object makes it throw stays listed.
RemoveClient(c) ==
  /\ c \in DOMAIN inventories
  /\ LET doc == inventories[c] IN
       /\ stock' = FoldLeft(RemoveItem, stock, Reached(doc))
       /\ inventories' = IF Throws(doc) THEN inventories ELSE Erase(inventories, c)
       /\ Called("removeClient", c, Throws(doc))
       /\ Keep(~Throws(doc))

\* increaseStock, called by the server.  It also answers true if the item is not
\* made, for lack of memory.
IncreaseStock(i, q, made) ==
  /\ made \/ stock[i] = 0
  /\ stock' = IF made THEN Increased(stock, i, q) ELSE stock
  /\ stock'[i] <= MaxStock
  /\ put' = IF plain THEN [put EXCEPT ![i] = @ + stock'[i] - stock[i]] ELSE put
  /\ Called("increaseStock", NoClient, FALSE)
  /\ UNCHANGED <<inventories, plain>>

\* decreaseStock, called by the server.
DecreaseStock(i, q) ==
  /\ stock' = Decreased(stock, i, q)
  /\ Called("decreaseStock", NoClient, FALSE)
  /\ Keep(FALSE)
  /\ UNCHANGED inventories

\* updateClientInventory.  It lists a client that is not, and leaves the stock.
UpdateClientInventory(c, copy) ==
  /\ inventories' = Assign(inventories, c, copy)
  /\ Called("updateClientInventory", c, FALSE)
  /\ Keep(FALSE)
  /\ UNCHANGED stock

Next ==
  \/ \E c \in Clients :
       \/ RemoveClient(c)
       \/ \E doc \in Docs : \E copy \in {doc, <<>>} :
            \/ \E missed \in SUBSET DOMAIN Reached(doc) : AddClient(c, doc, copy, missed)
            \/ UpdateClientInventory(c, copy)
  \/ \E i \in Items, q \in Quantities :
       \/ \E made \in BOOLEAN : IncreaseStock(i, q, made)
       \/ DecreaseStock(i, q)

Spec == Init /\ [][Next]_vars
-----------------------------------------------------------------------------
(* Properties. *)

\* Every variable has its type; in particular no stock is ever negative.
TypeOK ==
  /\ stock \in [Items -> Nat]
  /\ IsMap(inventories, Clients, Docs)
  /\ plain \in BOOLEAN /\ put \in [Items -> Nat]
  /\ last \in [call : {"none", "addClient", "removeClient", "increaseStock",
                       "decreaseStock", "updateClientInventory"},
               client : Clients \cup {NoClient}, threw : BOOLEAN]

\* What an item of a JSON object counts for i, and what the object lists of it.
Counts(e, i) == IF e.number /\ e.key = i /\ e.quantity > 0 THEN e.quantity ELSE 0
Listed(doc, i) == FoldLeft(LAMBDA n, e : n + Counts(e, i), 0, doc)
ListedByAll(m, i) == MapThenSumSet(LAMBDA c : Listed(m[c], i), DOMAIN m)

\* The stock is what the clients list and what increaseStock put in, in whatever
\* order clients come and go, until a call takes out or updates, a key is no
\* number or memory runs out (InventoryManager.cpp:19-52).
StockIsSum == plain => \A i \in Items : stock[i] = put[i] + ListedByAll(inventories, i)

\* Whatever is listed, updated or malformed, a removal takes out at most what
\* the client lists, and puts nothing in (InventoryManager.cpp:35-52, 78-88).
RemovalBounded ==
  [][last'.call = "removeClient" =>
       \A i \in Items : stock[i] - stock'[i] \in 0..Listed(inventories[last'.client], i)]_vars

\* Removing a client subtracts what it lists (InventoryManager.hpp:45-47).
RemovalSubtracts ==
  [][last'.call = "removeClient" /\ ~last'.threw =>
       \A i \in Items : stock'[i] = stock[i] - Listed(inventories[last'.client], i)]_vars
=============================================================================
