# Verification of the ServerHubWarehouseSystem

TLA+ models of the warehouse hub's server, the TLC configurations that check
them, and TLAPS proofs about them. Paths are relative to the repository root
(`src/` below is its `src` directory); `NetworkManager.cpp:22` means
`src/server/NetworkManager.cpp`, line 22, and `.hpp` files are under
`include/server`.

## 1. The system

A hub server in C++ that warehouses (clients in C) connect to over TCP or UDP,
IPv4 or IPv6, with JSON messages. At this commit the repository is a set of
classes with unit tests: the `Server` class that would own and call them is
absent (its calls are commented out in `MessageDispatcher.cpp`), there is no
`main`, and some code still uses an older interface (`Message::getContent` in
the dispatcher and the message tests, a four-argument `notify` in
`NotificationSystemTests.cpp`). The models therefore take any sequence of calls
that the public interface allows. Of the environment they take what section 2
says of each module, and leave out what section 5 lists.

| component | state | operations | interacts with |
|---|---|---|---|
| NetworkManager | `activeClients`, `nextClientID`, four server sockets | `initialize`, `listenForConnections`, `receiveUDPMessage`, `sendMessage`, `receiveTCPMessage`, `closeConnection` | kernel sockets; `Message` (codec); `ClientConnection` (a record) |
| ClientConnection | id, descriptor, address, protocol, `connected` | constructor, getters, `disconnect` (no caller) | copied into `activeClients` |
| Authentication | `credentials` | `authenticate`, `isAuthorized`, `setLoggedOut`, `addCredentials`, `removeCredentials`, `unblockWithFingerprint`, `blockDueToEmergency`, `unlockWithSecretPhrase` | the server |
| InventoryManager | `globalInventory`, `clientInventories` (JSON objects) | `addClient`, `removeClient`, `increaseStock`, `decreaseStock`, `getStockLevel`, `updateClientInventory`, `getClientInventory`; two empty ones | cJSON; the server |
| NotificationSystem | `subscriptions` | `registerClient`, `removeClient`, `subscribe`, `unsubscribe`, `isSubscribed`, `notify`, `broadcastAlert` | `NetworkManager::sendMessage`, `Message` |
| MessageDispatcher | `pendingMessages` (never used) | one handler per message type | `Message`, which it deletes |
| Message | header fields and an owned JSON object | copy, assignment, destructor, `toJSONString`, `fromJSONString` | cJSON |
| client (C) | socket, server address, `is_connected` | `initializeClient`, `sendMessage`, `receiveMessage`, `closeClient` | the server, by sockets |
| EventLogger, client logger | an open file | open, append, close | nobody calls them |
| cJSON | items linked into lists and trees; a buffer to print into | create, add, insert, detach, replace, copy, delete; parse; print | called by Message and InventoryManager |
| Unity | third-party test framework | | |

What is hard, and what makes each part correct:

* **NetworkManager.** `listenForConnections` blocks in `accept`
  (`NetworkManager.cpp:22`) and `receiveUDPMessage` polls, so the two run in two
  threads. Descriptors are recycled by the kernel, UDP clients share the
  server's descriptors, datagrams are lost, malformed ones raise exceptions in
  the middle of a call, and peers disappear. Correct means: an id denotes one
  endpoint for ever; a descriptor that is stored for a client is that client's;
  what is sent or received for an id concerns that client; everybody is served.
* **Authentication.** A flag and a counter that must agree, and a lock, an
  emergency block and a session that come and go independently.
* **InventoryManager.** A total kept beside its parts, by loops that can refuse
  an item, throw half way or run out of memory. Correct means the total is the sum
  of the parts, and that what is removed is gone.
* **NotificationSystem, Message, MessageDispatcher.** Who has to free a JSON
  object, with copies that can fail and a dispatcher that deletes what it gets
  on a dozen paths; subscriptions that outlive connections. Correct means that
  an object has one owner and the owner frees it, and that a client is sent
  what it asked for, and nothing else.
* **cJSON.** The repository carries its own copy, and all of the server's state
  and messages go through it. Lists whose head points back to the tail, changed
  by cases of where an item is; calls that fail half way; rooms that are
  computed before they are written to; escapes that are cut off. Correct means
  that the lists stay lists and nothing leaks, that parser and printer are
  inverse to each other and agree with the grammar, and that no byte is read or
  written outside a buffer.
* **client.** End of stream, closing, datagrams without a connection.

`PROJECT.json` lists the hazards one by one, with their lines and the
properties that answer them.

## 2. Modules

| module | what it is |
|---|---|
| `StdMap` | `std::map` as a partial function: `Assign`, `Emplace`, `Erase` |
| `ClientDirectory` | abstract: ids for endpoints, never given twice; those that are looked for first have at most one |
| `NetworkManager` | the class on top of a model of the kernel's sockets |
| `MCNetworkManager` | its instances for TLC |
| `NetworkManagerProofs` | its theorems |
| `AccessPolicy` | abstract: accounts that are locked by the number of failures, without a flag; what each call, with its client and password, does and answers |
| `Authentication`, `MCAuthentication`, `AuthenticationProofs` | the class, its instances, its theorems |
| `InventoryManager`, `MCInventoryManager`, `InventoryManagerProofs` | the class, its instances, its theorems |
| `Message` | the class: who holds which JSON object |
| `MessageDispatcher` | its handlers, as paths that read and delete a message; EXTENDS `Message` |
| `NotificationPolicy` | abstract: a relation of clients and the types they want; what each call, with its arguments, does to it and sends |
| `NotificationSystem` | the class, on the messages, with the dispatcher and the connections beside it; EXTENDS `MessageDispatcher` |
| `MCNotificationSystem`, `NotificationProofs` | the instances of these three together, and the theorems |
| `JsonForest` | abstract: items that are sequences of items, without pointers; what each call, with its arguments, does to them and answers |
| `JsonTree`, `MCJsonTree` | cJSON's items and all that links, copies and deletes them |
| `JsonTreeProofs` | lemmas about doubly linked lists; the theorems about the items |
| `JsonForestProofs` | the lists as sequences; that `JsonTree` implements `JsonForest` |
| `PrintBuffer` | cJSON's buffer for printing |
| `JsonPrinter` | cJSON's printer, into that buffer |
| `JsonString` | cJSON's string literals, byte by byte |
| `JsonText` | cJSON's parser; EXTENDS the printer and the literals |
| `JsonGrammar`, `MCJsonText` | abstract: what a text means by RFC 8259, and that the parser agrees; the instances of all of these |
| `JsonCodecProofs` | the theorems about the printer, the parser and the literals |
| `FoldProofs` | lemmas about loops over sequences and sums over sets, and about functions defined by recursion |

Operators whose comment says "X, had ..." are variations of X. No
specification uses them; they are what X would be after a plausible slip, and
substituting one for X breaks the property it is meant for.

The abstract specifications of `Authentication`, `NotificationSystem` and
`JsonTree` are tied to the calls: a step of either side carries a label, `call`,
with the name of the method and its arguments (for `JsonTree` its answer too), and
the abstract specification allows, for that label, only what that call is to do.
A wrong method, place, name, client or password is then no step of it.

### NetworkManager

`activeClients` and `nextClientID` are the fields of the class; `phase` is the
state of the process (`setupSocket` calls `exit`, a `send` on a reset connection
raises SIGPIPE). `fdTable`, `inbox`, `backlog` and `conn` are the kernel:

* `fdTable` maps a descriptor to the socket it denotes. `initialize` gets
  descriptors 1 to 4 (`ServerFd`, for 3 to 6 of a real process), `accept` the
  lowest free one, `close` frees one.
* `inbox` has a queue for each UDP server socket and for each stream. A
  datagram that finds the socket closed or the queue full is lost, which is
  also how loss in the network shows. A `recv` on a stream takes any positive
  number of the messages that are there, of which `receiveTCPMessage` returns
  the first; splitting a message over two reads is not modelled.
* `conn` is the state of each TCP connection. A peer that closed answers data
  with a reset, sooner or later, and the next `send` kills the process.

`Tcp4` and `Tcp6` are connections, each of which is made once; `From` gives the
address that one is made from. Several can share one: once its connection is
closed or reset a peer may come back from the address it had, while
`activeClients` still lists the connection that it had before, which only
`closeConnection` removes. `ListenForConnections` does not look for it
(`NetworkManager.cpp:22-27`) and lists the address a second time. Of the senders of
datagrams this is not so, since `handleSocket` looks for them first: they are the
`Unique` endpoints of `ClientDirectory`. A client's record has its connection where
the code has an address, which tells more; no action looks at more than the code
does.

A payload is `good` (`fromJSONString` accepts it), `bad` (it throws) or `empty`
(a datagram of length 0, for which `recvfrom` returns 0).

Each call is one step, apart from `receiveUDPMessage`, which is one step for
each socket it polls: `ReceiveUDP4` and `ReceiveUDP6`, with the local vector
in `received` and `call` saying where it is. The listener's step can come
between them, and so can every step of a peer. Calls of the polling thread
cannot. A call that would block (`recv` on a silent stream) is a disabled step.
This is right for safety, since the blocked call changes nothing, and the
liveness runs about UDP have no TCP clients, so they claim nothing about a
poller that is stuck there. `NoAddr` is the empty address that `recvfrom`
reports on a stream; it matters after a UDP client was closed, when the number
of a server socket may denote a stream.

`Closeable` and `Receivable` restrict the protocols for which the server calls
`closeConnection` and `receiveTCPMessage`. Nothing in the code does, and the
violation runs lift the restriction; the properties below hold only with it.

### Authentication

One action per method; `result` is what a method that returns a `bool`
returned, and `call` the label with its client and password or phrase. `Hash` is a constant function that need not be injective
(`Authentication.cpp:94` uses `std::hash`). `isAuthorized` only reads and is an
operator. In the policy an account has no hash, but the set of passwords that it
accepts (`Alike`, those that collide with the one it was made with).
`EmergencyUnlock` is the literal of `Authentication.cpp:84`.

### InventoryManager

`stock` is `globalInventory` as a function of the items (an item that is absent
and one with 0 are told apart only by a failing allocation), `inventories` is
`clientInventories`, with a JSON object as the sequence of its items. A key that
`std::stoi` rejects is `Malformed`; `AddClient` and `RemoveClient` fold the bodies
of their loops (`AddItem`, `RemoveItem`) over what the loop gets to before the
exception (`Reached`) and leave the rest undone. Memory may run out: the copy of
a client's object is then NULL (`InventoryManager.cpp:21`, `:109`), which lists as
little as an empty object does, and an item that has to be created in the stock is
not, while `increaseStock` answers true (`:69-72`; `made`, and `missed` for those
of `AddClient`). It has to be created if it has stock 0, which also allows the
failure for an item that is there with 0. A quantity is the `int` its
double is cast to. Two history variables serve `StockIsSum`:
`plain` holds until a call updates, takes out, throws or runs out of memory, and `put` is what
`increaseStock` put in while it held. `getStockLevel` and `getClientInventory`
only read.

### Message, MessageDispatcher, NotificationSystem

`Message` is about pointers: `messages` says which object the message at each
place holds, `live` which objects are allocated, `mine` which ones the caller
still has to delete or to pass on. Any allocation of cJSON that these classes
ask for may fail, and then the code's own answer is modelled: the copy constructor
keeps a null content, `operator=` throws when the old object is gone and the
header is assigned already, and `fromJSONString` makes a message without content
when its duplicate fails. `ToJSONString` is the set of what `Message.cpp:24-45` may
come to: the whole text; a text that lacks a field, with the duplicate of the
content left allocated if it was not added (`:38`); or an exception, as a
`std::string` is made of NULL (`:40`), with the objects made so far left allocated.
Allocations of C++ itself (`std::bad_alloc`) are not modelled. Freeing or using
what is not allocated sets `corrupt`, after which nothing is claimed (the
specification stops).

The dispatcher's calls of a server are comments at this commit, so what it reads
goes nowhere; what remains is when it reads a message, and whether and when it
deletes it. A handler is a path, the sequence of its reads and deletions, chosen as
`MessageDispatcher.cpp:5-184` does: by type, by subtype, by whether there is
a content, and by which fields are in that. `Follow` carries a path out: a message
read or deleted after its deletion corrupts the memory.
`ProcessReceivedMessage(nullptr)` returns at once and is not a step. It calls
`Message::getContent`, which the class does not have; that is read as
`getContentRO`. `handed` is a history variable: what it was given and has not
deleted. A proper alert is neither passed on nor deleted, because the call that
would take it over is a comment. `DispatchedDeleted` and `NothingLost` name this
one exception, and `Lost` counts its object as lost.

`NotificationSystem` has one action per method. `active` is what its
`sendMessage` sees of the NetworkManager, and may change at any time: nothing
ties a subscription to a connection. `sent` is what the last call answered, whether
an exception ended it, and the texts that it sent. `notify` looks only at the
subtype, so an alert with the number of a notification is sent too, and its answer
does not depend on the connection. The policy therefore leaves the answer open for
a client that wants the notification and has no connection: `Notifications` claims
nothing of it. The code answers true, which the header does not mean (section 3).
`broadcastAlert` to two clients or more deletes its object twice, and is aborted there in
the policy's words: some of the audience were sent the alert, and nobody else was.

### JsonTree

An item is an address; `heap` has the four fields of `struct cJSON` that matter,
and the history field `parent`, the item in whose list it was put. `held` is
what the caller owes a `cJSON_Delete` or an `Add`. The calls are those that
`cJSON.h` offers for lists, objects, copies and deletion, with the caller that
the header asks for: what is added is the caller's own and is not above the
place it goes to. Any allocation may fail, also half way through a call. For an
array (`cJSON.c:2596-2600`) that is after any of its elements: the array as it is
then, its first element without a prev, is deleted. For a copy
(`cJSON.c:2794-2830`) it is at any of the items: `Begun` are those whose
copies are being made by the calls that are under way, `Finished` those whose
copies hang complete in the copy of one of these; what there is by then is built as
the code has linked it, and then each call that is under way deletes its own
(`CleanedUp`). `cJSON_ReplaceItemInObject` without memory for the name leaves
the replacement without one (`cJSON.c:2395-2401`). The walks of the code along `next` and `child` are
reachability (`Chain`, `Reach`); an item is found by its place
(`GetArrayItem`) or name (`GetObjectItem`, which stops at an item without a
name, as the code's loop does).

### PrintBuffer, JsonPrinter, JsonString, JsonText

The variables are only what callers pass: a value in `JsonPrinter`, a string
literal in `JsonString`, a text in `JsonText`. The buffer is a record: `length`,
`offset` and `noalloc` are the fields of `printbuffer`; `memory` is the size of the
largest buffer that can be had, so that any of the reallocations in a run may be
the one that fails, since each asks for more than the one before; `held` says that
the pointer is not NULL, and `freed` counts how often the buffer was freed. A
failed reallocation frees the buffer, sets its length to 0 and the pointer to NULL
(`cJSON.c:508-531`), after which all requests are refused. Parser and printer are operators,
since they are pure but for the buffer, and the buffer is passed through. A text
is a sequence of characters, where a literal, a number or a string counts as
one; `Width` says how long it is. `Values` is by levels: what is at most n deep
is made of what is at most n - 1 deep. The printer is the list of its requests
for room with what it writes after each, and `Printed` runs that list against
`Ensure`. It too is a function by levels (`PrintValue`), each printing the items
in an array or object by the function of the level below, in place of the code's
recursion.

The parser is the code's recursive descent with its indices: what
`buffer_skip_whitespace` does at the end of a text, where each function looks
before it has checked, and how depth is counted. It is by levels as well
(`ParseValue`): `left` is how many levels the limit leaves, and `At` gives what
`parse_value` reads at a place one level down. A loop of `parse_array` or
`parse_object` is a function of the place where a pass of it begins (`ParseRest`).

`JsonString` has bytes: `Closing` is the search for the end of a literal, which counts the escapes it skips; `Allocated` is the room
computed from that; `Decode` is the second pass, which writes. `PrintString`
counts, then writes.

Some behaviour that is as the code has it: a NUL counts as white space, a text
may go on after its value (`cJSON_Parse`), and `\uXYZW` without hexadecimal
digits reads as 0, the byte that ends a C string.

## 3. What the runs check

`MC*` modules with the `.cfg` of the run's name. Runs marked * are
disagreements between the code and its documentation: TLC finds a
counterexample, and `findings` in `PROJECT.json` quotes the line.

| run | shows | bounds |
|---|---|---|
| NetworkOwnership | types; a client's descriptor stays its own; `sendMessage` reaches the addressee or nobody; UDP messages carry the sender's id; `receiveTCPMessage` returns what that client sent. Only TCP clients are closed. | 2+1 UDP, 2 TCP peers, one free descriptor, so that it is reused; queue 1 |
| NetworkReconnect | an id is never given twice and keeps its endpoint; no address that datagrams come from is listed twice (refinement of `ClientDirectory`). All clients are closed, and TCP peers come back. | 1+1 UDP, 2 TCP connections from one address, two free descriptors, so that both are listed together; queue 1 |
| NetworkServed | a good datagram in the queue gets its sender registered: on the IPv4 socket whatever else comes, on the IPv6 socket unless malformed IPv4 datagrams never cease | 2+1 UDP, queue 2, so that others are ahead; all payloads |
| NetworkSharedSocket * | `closeConnection` of a UDP client closes the server's socket, and messages go to whoever gets its number | |
| NetworkLostAck * | an acknowledged message is lost when the IPv6 datagram is malformed | |
| AuthenticationPolicy | types; blocked iff the attempts are used up; each call, with its client and its password or phrase, does and answers what `AccessPolicy` says of that call; `isAuthorized` agrees with it | 2 clients, 3 passwords of which 2 collide, limit 3 as in the code |
| InventoryLedger | no stock is negative; the stock is what the clients list plus what was put in, as long as clients only come and go; a removal takes out at most what is listed, under all calls, malformed keys and failing allocations | 3 clients, 2 items, stock up to 6; objects with repeated items, quantities that do not count, items that are not numbers, malformed keys |
| InventoryPhantomStock * | after an update a removal subtracts nothing | 2 clients |
| Notifications | types; an object has one owner and is freed by it; nothing is lost, except an alert's object when nobody is registered, a proper alert's that the dispatcher got, and what a failing allocation leaves behind; each call does to subscriptions, and sends, what `NotificationPolicy` says of that call; the dispatcher deletes the message it gets, once, and does not use it after that, except that a proper alert remains | 2 objects, 2 places, 2 clients, 1 type to subscribe; 7 headers, one at least for each handler, with every content and field missing |
| BroadcastAlert * | `broadcastAlert` to two clients deletes one object twice | 1 object, 2 clients |
| JsonLists | types; the links of every list; nothing leaks and nothing is freed twice; each call does to the sequences, at the place and name it is given, what `JsonForest` says of it | 5 items, 1 name |
| JsonCodec | the parser accepts the grammar and nothing else; printing and parsing are inverse; nothing is printed outside a buffer, and one is refused exactly if it has too little room or cannot be reallocated, and is then freed once; literals are decoded to what UTF-8 says, within what was allocated | texts of 4 characters; values printed in up to 9, 4 levels deep, and their texts with one character inserted, replaced or removed; nesting 2; all lengths of buffers up to 12, the caller's or growing, with any amount of memory; literals of 2 units out of 24 |

Disagreements that the models have and no run is spent on:

* `receiveTCPMessage` for a UDP client returns the next datagram of the shared
  socket, whoever sent it (`NetworkManager.cpp:111` against `.hpp:59`); IPv6
  connections are never accepted (`.cpp:22` against `.hpp:13`); a stream of malformed
  IPv4 datagrams starves the IPv6 socket (`.cpp:45`, `:75` against `.hpp:41`), as the
  premise of `Udp6Served` says.
* A client that is logged in stays authorized when an emergency blocks it
  (`Authentication.cpp:30` against `.hpp:111-112`). The predefined phrase that
  `.hpp:122` speaks of is a member, `"defaultSecret"` (`.hpp:153`), which nothing
  reads; what ends the block is the literal `"emergencyUnlock"` (`.cpp:84`).
* A client with a malformed key stays listed when it is removed, with the items in
  front of that key taken out, and taken out again by the next removal
  (`InventoryManager.cpp:41-50` against `.hpp:47`).
* The copy constructor of `Message` does not throw (`Message.cpp:5` against
  `Message.hpp:52`). `notify` is true for a client without a connection
  (`NotificationSystem.cpp:53` against `.hpp:96`); `subscribe` registers clients
  (`.cpp:37`).

The bounds are `MaxFd`, `QueueCap`, `MaxStock` and the sets. Ids need no bound:
each TCP connection is made once and a UDP client is only registered again after it
was closed, which needs a descriptor that, once closed, `initialize` does not
open again. Symmetry is used for peers of one transport and family, in runs
without liveness only; a refinement without fairness, like `ImplementsDirectory`,
is safety. A VIEW hides what only labels a step or tells of
the last call; no action reads it, and the properties about it are properties of
steps, which TLC checks on every step that it generates. `CHECK_DEADLOCK FALSE` is set for NetworkManager, since the process
may exit or be killed, for NotificationSystem, which stops when the memory is
corrupt, and for JsonText, whose callers stop when they have passed all they
may.

Why the other bounds are enough. *NetworkReconnect*: a peer closes, comes back from
the same address, and both its connections are listed at once; the second
connection may get the descriptor of the first after that was closed.
*Notifications*: with two objects and two places
one message can be copied or assigned from the other, an assignment can get the
address it has just freed, and memory can run out; a broadcast to one client is
harmless and to two is not. One of the types is a default and is also what an
alert is numbered; another is subscribed. *JsonLists*: with five items there are
lists of three with an item detached or about to be inserted, which reach head,
middle and tail and all their combinations, trees of depth three, and copies of
lists of two; the heap full is the failed allocation. *JsonCodec*: `INT_MAX`
is 12, so that the texts of the larger values pass half of it, where the buffer
stops doubling, and all of it. A text of nine characters is an array in four
levels, an object in another or with two members, or an array of four. The
parser goes down to 2 levels, and there are texts that are deeper; the units are
the two sides of every boundary of UTF-8 and of the surrogates, escapes, and
every escape cut short, in pairs, so that each is followed by each. Breaking the
texts of values in one place reaches the parser's states that no short text does.

Fairness (`FairSpec`): weak fairness of `ListenForConnections`, `ReceiveUDP4`
and `ReceiveUDP6`, that is, the two threads keep calling, and a call that
polls (`MSG_DONTWAIT`) goes on to its second socket. Nothing is assumed of the
peers. `ListenForConnections` is disabled without a free descriptor, where
`accept` fails. No liveness property is stated of it: that a connection it may
accept is accepted would be this assumption again.

## 4. What is proved

All with tlapm, for every value of the constants that the named assumptions
allow; no run's bound is used.

`NetworkManagerProofs`:

* `TypeCorrect`, `Spec => []TypeOK`. It is inductive. It includes that ids in
  use are below the counter, which the directory needs.
* `DirectoryImplemented`, `Spec => ImplementsDirectory`. The invariant
  `DirectoryInv` adds that no two UDP clients have the same address, which holds
  because `handleSocket` looks for the sender first. Of TCP clients it says nothing:
  one address may be listed any number of times. A step that registers is an
  `Issue`, a `Forget` a `Withdraw`, others stutter. It needs no restriction on what
  is closed: ids stay right even when descriptors do not.
* `DescriptorsOwned`, `MessagesReachAddressee`, `MessagesAttributed`: under
  `ClosesOnlyTcp == Closeable \subseteq {"TCP"}`. The invariant `OwnershipInv`
  says that the server sockets keep their descriptors and that descriptor and
  client correspond one to one for TCP; without the first part a UDP client's
  descriptor could be taken. `LastInv` and `AttributionInv` carry it to what
  the last call showed. That `ClosesOnlyTcp` is needed is what
  NetworkSharedSocket shows.
* `ReceivedAttributed`: what `receiveTCPMessage` returns is from the client it
  was asked for, if that is always a TCP client (`ReceivesOnlyTcp`) and
  `ClosesOnlyTcp` holds.

`AuthenticationProofs`:

* `TypeCorrect`; `LockCorrect`, `Spec => []BlockedIffExhausted`, where the
  bound on the count makes the equivalence inductive; `PolicyImplemented`,
  `Spec => ImplementsPolicy`, which uses `LockCorrect` to replace the flag by
  the count, for any hash function. There is one step for each method: with the same
  label, client and password or phrase, the policy's account changes as the method
  changes the record, and its answer is the method's. `AuthorizationCorrect` says the same of
  what `isAuthorized` answers.

`NotificationProofs`, for any number of objects, messages and clients:

* `OwnershipCorrect`, `Spec => []SoleOwner`, is inductive with the types of the
  messages. `PutMessage` is the lemma that the constructors, copies,
  assignments and setters come down to.
* `TypeCorrect`, and `DispatchCorrect`, `Spec => DispatchedDeleted`. `PathOf` goes
  through the handlers, by type and subtype and by what is missing: each path but
  that of a proper alert ends with its only deletion (`DeletesLast`), so that
  `Follow` deletes the message and uses it no more.
* `NoLoss`, `Spec => NothingLost`: `SendOutcome` says what each outcome of
  `toJSONString` leaves behind, which is nothing if all of the message is in the text;
  the other lemmas say of each call what it may lose. The
  exceptions are those that the property names.
* `PolicyImplemented`, `Spec => ImplementsPolicy`, call by call: the policy's step
  with the same label, for the client and type that the call was made with. What
  messages do on their own changes none of the policy's variables but the label.

`JsonTreeProofs`, for any number of items:

* `Lists` is what a set of doubly linked lists is, over the
  functions next, prev, child and the history variable parent. The one part
  that is not local is `Found`: a set that has the head of a list and is closed
  under next has all of the list. It takes the place of induction along a list. `First`, `Behind`, `InFront`, `Out`, `Swap` and
  `Cut` say that each way of linking in `cJSON.c` keeps `Lists`; `Swap`, which
  is how an item is replaced, is shown to be `InFront` and then `Out`.
* The inductive invariant `TreeInv` is `Lists`; that going up by parent ends
  (`Grounded`), without which a tree could contain itself, and be reached from
  nowhere; that fields of freed items are NULL; and that `held` is exactly the
  items in no list. There is a lemma for what each operation leaves of a good
  heap (`GoodAppended` to `GoodDuplicated`) and one for each call.
* For a call that gives up half way, `ArrayUndone` and `CopyUndone` show that the
  clean-up deletes exactly what was made, and that the heap is what it was before.
  What there is of a copy at that time is no good heap, as the items whose copies
  are being made are linked to nothing yet. `FinishedBelow` says that each copy that
  is complete can be reached, along next and child, from one of those, which are
  what the calls under way delete.
* `LinksCorrect`, `Spec => []Linked`, and `NothingLeaks`, `Spec => []NoLeak`,
  follow from it; the latter because an item that no root reaches would have
  a parent that no root reaches either. `TypeCorrect` comes with it. That an
  item is not added under itself (`Addable`) is needed, and is what the header
  asks of callers.

`JsonForestProofs`, for any number of items: `ForestImplemented`, `Spec =>
ImplementsForest`.

* The mapping is `ForestOf`: an item is mapped to what `GetArrayItem` gives for the
  places below `GetArraySize`. Both come from the set of items reached along
  next, which says nothing of an order. A `Listing` is a sequence that follows
  next from head to NULL: `ListingExists` shows that every list of a good heap
  has one (the longest walk from the head, which ends because no item comes twice
  in it; by `Found` it has every item of the list), and
  `ElementsAre` that the items of the list are the members of that sequence in
  its order. From there on links are sequences.
* `ListingInsert`, `ListingRemove`, `ListingReplace` and `ListingCopy` are what each way
  of linking does to a sequence, and `AppendedSeq` to `ReplacedSeq` what the
  operations of cJSON do: one sequence changes and all others stay.
* `BelowIs`, `BelowRoot`: what is below an item in the forest, a least closed set, is what
  the walk of `cJSON_Delete` reaches (`Reach`). `BelowCopied` says it of
  `cJSON_Duplicate`.
* One lemma per change of the abstract specification (`ForestAdd` to
  `ForestDuplicate`) and one per call (`CreateMaps` to `DuplicateMaps`): the step
  is the abstract one with the same name, arguments and answer. `ArrayItemIs` and
  `ObjectItemIs` are what ties them: the item that the walk of `get_array_item`
  or `get_object_item` ends at is the one at that place, or the first of that name,
  of the sequence. A call that fails is the abstract call with that answer, which
  leaves all as it was. All rest on `TreeInv`.

`InventoryManagerProofs`, for any clients, items and documents:

* `TypeCorrect`, `Spec => []TypeOK`, which says that no stock is negative. The
  inductive invariant `TypeInv` adds that only finitely many clients are listed,
  without which a sum over them would mean nothing. A loop keeps what its body
  keeps (`LeftFold` in `FoldProofs`), and what `Reached` gives it has no
  malformed key.
* `StockCorrect`, `Spec => []StockIsSum`. It is inductive with `TypeInv`: adding a
  client puts exactly what its object lists into the stock and into the sum, and a
  removal takes it out of both, because `StockIsSum` itself implies that there
  is enough, so that `decreaseStock`, whose answer the loop ignores, never
  refuses. An item that is missed for lack of memory, or a copy that fails, ends the
  claim (`plain`); `WithoutIsSound` says that what is missed leaves an object of
  the same type.
* `RemovalCorrect`, `Spec => RemovalBounded`: what one pass of the loop takes out
  of an item is at most what that entry counts for it, and 0 for the others.

`JsonCodecProofs`:

* `ParseStringFits`: for every sequence of numbers as text and every place in it,
  `parse_string` writes fewer bytes than it allocated, so that the final 0 fits
  too. `LiteralsFit`, `Spec => []DecodedFits`, is this for the caller of
  the run. The two passes need not agree on where escapes begin: the first
  skips two bytes for each, the second up to twelve, and after a wrong `\u`
  escape or one that overlaps the end the second may stand where the first
  never did. The lemma `DecodedWithin` therefore goes downward from the end,
  with what the second pass writes from a place k bounded by the bytes from k
  less the escapes that the first pass counted from k or from k + 1. What it
  rests on: an escape of the first pass takes at least two bytes (`Budget`), and
  an escape of the second writes at most half its length (`EscapeWritesLittle`).
* `StringsAreDecoded`, `Spec => []StringsDecoded`. `Means` says what a
  character or an escape means, in terms of RFC 8259 and RFC 3629 and not of the
  code: `Encodes` gives the code point of some bytes, where `Utf8` gives the bytes
  of a code point. The lemma `EscapeOfUnit` shows for each form of unit that the
  code reads its meaning (`Utf8Encodes` by the four lengths, `TenBits` for the
  surrogates). For a literal of many units (`UnitsDecoded`), `ClosingOfUnits` and
  `DecodeOfUnits` go from unit to unit: the search for the closing quote is, at
  the end of a unit, where it was at its beginning, and what the second pass
  writes from there on is what that unit means and what it writes from the next
  one on (`After`).
* `PrintedStringsReadBack`: `print_string_ptr` prints any string in the length it
  counted first (`EscapeRun`, `PrintedLength`), and `parse_string` decodes the
  result to it, because what each byte is printed as is a unit that means this byte
  (`EscapedPrints`).
* `EnsureMakesRoom`, `EnsureRefusesOnlyTooLarge`: what `ensure` grants has room
  for what was asked for and the final byte; a buffer that may grow is refused only
  what `INT_MAX` cannot hold or what there is no memory for, and then it is freed
  and no longer held. For any `INT_MAX` and any amount of memory.
* `PrintingFits`, `Spec => []PrintFits`, for values of any depth and texts of
  any length. It rests on what each piece asks for: its characters and the NUL
  behind them, and at most one byte more (`Fair`), and that the last piece of a
  value has a NUL (`Terminated`), without which the last byte would not be asked
  for. `AtomPrints`, `ArrayPrints`, `ObjectPrints` show it of each
  printing function from what is in the item, and `ValuePrints` of all values,
  level by level; that the functions by levels exist at all is `ValuesLevels` and
  `LevelsExist`. For the buffer, `Sound` is the invariant of a run through the
  pieces: the offset is below the length, and the length is no more than
  `INT_MAX` (`PutIs`, by `EnsureIs`). Since each piece asks for no more than what
  the text has to the end and two bytes, all are granted if the last one is
  (`PiecesFit`). When memory may end, the size that a reallocation asks for is at
  most twice that, which is what the property says of a buffer that is refused; a
  buffer is freed at most once, because it is not held after that.
* `PrintedValuesReadBack`, `Spec => []RoundTrip`: the text of any value, with or
  without format, is parsed to that value, and refused if the value is nested more
  deeply than the parser goes. Printer and parser are followed in the same text.
  `Occurs` says that a text is at a place of another, and `OccursConcat` and
  `OccursList` take it apart as the printer put it together; a `Gap` is the white
  space that the parser skips. `ArrayLaid` and `ObjectLaid` find in what is
  printed of a list where each element begins and ends (`Laid`). `LoopReads` goes
  down from the last element of a list: the loop reads all that is behind a comma,
  or fails in one of those that are nested too deeply. `NestedRead` joins the two,
  `ArrayRead` and `ObjectRead` are what that means for the two kinds of lists,
  and `ValueRead` is the induction over the levels of values, at every place, every
  depth of the printer and with every number of levels left to the parser.
  `Fits` says whether these are enough; `FitsNested` needs that `Values` grows with
  the level, and `ObjectFits` that names do not count. That the parser's functions
  are defined at all rests on its going forward (`PassGoesOn`, `RestIs`,
  `ItemAdvances`).

`FoldProofs` stands under both, and under `JsonForestProofs`. A recursive function is a CHOOSE, of which the
prover knows nothing until one is shown to exist. `RecursionExists` and
`FoldExists` show it: the claim for all domains up to a number n is put as a set
of numbers, of which the least outside (`LeastNumber`) would have a predecessor
inside. `LeftFold` and `SumsAgree` are the laws of the library's `FoldLeft` and
`MapThenSumSet` that follow.

Only model-checked, and why:

* Liveness and fairness (`Udp4Served`, `Udp6Served`), which the prover does not reach.
* `ParsesGrammar`: the grammar of `JsonGrammar` has RECURSIVE operators, with
  which tlapm loses its SMT solver.

## 5. Not modelled

* A step per memory access of the two threads: the race on `nextClientID` and
  `activeClients`, which have no lock. Messages split over reads. Overflow of
  `nextClientID`. A TCP peer that vanishes without closing: in the model it stays
  open and comes back from no address it used, where in fact its address could be
  listed twice as after a close.
* Allocations of C++ itself, for strings, vectors and maps (`std::bad_alloc`), and a
  failing allocation of cJSON in what `NetworkManager` prints and sends
  (`NetworkManager.cpp:46`, `:87`): `NotificationSystem` has it for what it sends,
  `NetworkManager` does not.
* The C client: thin wrappers of socket calls that keep a descriptor and a flag.
  The peers of `NetworkManager` do whatever any client may.
* EventLogger and the client's logger: formatting and file output.
* Of cJSON: references to items of other trees, `cJSON_Minify`, `cJSON_Compare`,
  the setters of values, the hooks, the byte order mark, and the conversion of
  numbers by `strtod` and `sprintf` (a number is one character here, and
  `print_number`'s own buffer of 26 bytes is not modelled). An allocation that
  fails in the parser: it frees what it has built, which `JsonTree` has for
  trees, but `JsonText` does not say when.
* What a message's content says, in `Message`: `JsonText` has texts and values.
* Unity, the tests and the build files.

## 6. Plan

1. `NetworkManager`, `Authentication`, `InventoryManager`, with the first
   theorems (done).
2. `Message`, `MessageDispatcher`, `NotificationSystem` (done); cJSON's items,
   parser and printer (done).
3. Proofs: the messages, the dispatcher and the policy; the lists of `JsonTree`,
   and that they implement the sequences of `JsonForest`; the stock and its sums;
   the literals, what they mean and what strings are printed as; the printer and
   its buffer; that what is printed is parsed to the same value (done).
4. `TcpStream`: messages, reads of at most 1024 bytes, and an abstract FIFO of
   messages that it implements only while peers wait for answers.
   `NetworkThreads`: a step per access to `nextClientID` and `activeClients`.
5. The inventories as JSON trees: `getClientInventory` and
   `updateClientInventory` on `JsonTree`, for the pointers that dangle.
