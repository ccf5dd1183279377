------------------------- MODULE NotificationSystem -------------------------
(***************************************************************************)
(* The NotificationSystem (src/server/NotificationSystem.cpp) with what it *)
(* works on: the messages, the dispatcher that may get them, and the part  *)
(* of the NetworkManager that knows who is connected.                      *)
(*                                                                         *)
(* The calls come in any order.  A client may be registered without a      *)
(* connection, and a connection may go while its client is registered.     *)
(***************************************************************************)
EXTENDS MessageDispatcher, Integers

CONSTANT Types  \* the notification types that calls are made with

VARIABLES
  subscriptions, \* client id -> set of types
  active,        \* the clients that the NetworkManager has a connection of
  call,          \* the last call: its name and its arguments
  sent           \* its answer, whether it was aborted, and the texts it sent

vars == <<ownership, handed, subscriptions, active, call, sent>>

NotificationTypes == 0..3 \* ON_ROUTE, RECEIVED, NO_STOCK, DISCARDED
DEFAULT_NOTIFICATIONS == 0..2

ASSUME NotificationAssumption ==
  Types \subseteq NotificationTypes /\ \A h \in Headers : h[2] \in Int

Sent(answer, aborted, texts) == [answer |-> answer, aborted |-> aborted, texts |-> texts]
Nothing == Sent(TRUE, FALSE, {})
Silent == sent' = Nothing

Init ==
  /\ MessageInit /\ handed = {}
  /\ subscriptions = EmptyMap /\ active = {}
  /\ call = <<"none">> /\ sent = Nothing
-----------------------------------------------------------------------------
(* What NotificationSystem sees of the NetworkManager (see ClientDirectory). *)

Connect(i) ==
  /\ active' = active \cup {i}
  /\ UNCHANGED <<ownership, handed, subscriptions>> /\ Silent

CloseConnection(i) ==
  /\ active' = active \ {i}
  /\ UNCHANGED <<ownership, handed, subscriptions>> /\ Silent

\* What NetworkManager::sendMessage(msg) may come to when l is allocated.  For a
\* client without a connection it returns at once.
SendMessage(msg, l) ==
  IF msg.clientID \in active THEN ToJSONString(msg, l) ELSE {Outcome(FALSE, {}, {})}
-----------------------------------------------------------------------------
\* subscriptions[i] = types.
SetTo(i, types) ==
  /\ subscriptions' = Assign(subscriptions, i, types)
  /\ UNCHANGED <<ownership, handed, active>> /\ Silent

\* What subscriptions[i] is, which makes an empty set for a client not listed.
SetOf(i) == IF i \in DOMAIN subscriptions THEN subscriptions[i] ELSE {}

RegisterClient(i) == SetTo(i, DEFAULT_NOTIFICATIONS)

RemoveClient(i) ==
  /\ subscriptions' = Erase(subscriptions, i)
  /\ UNCHANGED <<ownership, handed, active>> /\ Silent

IsSubscribed(i, t) == i \in DOMAIN subscriptions /\ t \in subscriptions[i]

\* subscribe lists a client that is not listed.
Subscribe(i, t) == SetTo(i, SetOf(i) \cup {t})

Unsubscribe(i, t) ==
  IF i \in DOMAIN subscriptions THEN SetTo(i, subscriptions[i] \ {t})
  ELSE UNCHANGED <<ownership, handed, subscriptions, active>> /\ Silent

\* What is left of sending a message.
After(answer, o) ==
  /\ sent' = Sent(answer, o.aborted, o.texts)
  /\ live' = live \cup o.lost

\* Notify, had it looked for the client alone.
NotifyListed(m) ==
  /\ \E o \in SendMessage(messages[m], live) :
       IF messages[m].clientID \in DOMAIN subscriptions THEN After(~o.aborted, o)
       ELSE After(FALSE, Outcome(FALSE, {}, {}))
  /\ UNCHANGED <<mine, messages, corrupt, handed, subscriptions, active>>

\* notify.  It looks at the subtype alone, and does not ask whether the
\* message was sent.
Notify(m) ==
  /\ \E o \in SendMessage(messages[m], live) :
       IF IsSubscribed(messages[m].clientID, messages[m].header[2]) THEN After(~o.aborted, o)
       ELSE After(FALSE, Outcome(FALSE, {}, {}))
  /\ UNCHANGED <<mine, messages, corrupt, handed, subscriptions, active>>

\* broadcastAlert with an object: for each client listed, in the order of the
\* ids, a message that holds it, is sent, and is destroyed with it.  Without a
\* client nobody deletes it; with two, the second finds it deleted, unless
\* sending to the first threw.
AlertWith(c, h) ==
  LET audience == DOMAIN subscriptions IN
  \/ audience = {} /\ live' = live \cup {c} /\ Silent /\ UNCHANGED corrupt
  \/ \E i \in audience : \E o \in SendMessage(Msg(i, h, c), live \cup {c}) :
       /\ \A k \in audience : i <= k
       /\ corrupt' = (~o.aborted /\ audience # {i})
       /\ live' = live \cup o.lost
       /\ sent' = Sent(TRUE, o.aborted \/ corrupt', o.texts)

\* broadcastAlert without memory for the object: the messages have no content,
\* and those before one that throws have been sent.
AlertWithout(h) ==
  LET Plain(S) == {Text(Msg(i, h, NULL), FALSE) : i \in S \cap active} IN
  /\ \/ After(TRUE, Outcome(FALSE, Plain(DOMAIN subscriptions), {}))
     \/ \E i \in DOMAIN subscriptions : \E o \in SendMessage(Msg(i, h, NULL), live) :
          /\ o.aborted
          /\ After(TRUE, [o EXCEPT !.texts = Plain({j \in DOMAIN subscriptions : j < i})])
  /\ UNCHANGED corrupt

BroadcastAlert(h) ==
  /\ (\E c \in Contents \ live : AlertWith(c, h)) \/ AlertWithout(h)
  /\ UNCHANGED <<mine, messages, handed, subscriptions, active>>
-----------------------------------------------------------------------------
\* A call op with the arguments that follow its name.
Called(op) == call' = op

Next ==
  /\ ~corrupt
  /\ \/ /\ Called(<<"message">>) /\ MessageNext(DOMAIN messages \ handed)
        /\ UNCHANGED <<handed, subscriptions, active>> /\ Silent
     \/ \E m \in DOMAIN messages \ handed :
          \/ /\ Called(<<"ProcessReceivedMessage">>) /\ ProcessReceivedMessage(m)
             /\ UNCHANGED <<subscriptions, active>> /\ Silent
          \/ Called(<<"notify", messages[m].clientID, messages[m].header[2]>>) /\ Notify(m)
     \/ \E i \in Ids :
          \/ Called(<<"connect", i>>) /\ Connect(i)
          \/ Called(<<"closeConnection", i>>) /\ CloseConnection(i)
          \/ Called(<<"registerClient", i>>) /\ RegisterClient(i)
          \/ Called(<<"removeClient", i>>) /\ RemoveClient(i)
     \/ \E i \in Ids, t \in Types :
          \/ Called(<<"subscribe", i, t>>) /\ Subscribe(i, t)
          \/ Called(<<"unsubscribe", i, t>>) /\ Unsubscribe(i, t)
     \/ \E h \in Headers \cap Alerts :
          Called(<<"broadcastAlert", h[2]>>) /\ BroadcastAlert(h)

Spec == Init /\ [][Next]_vars
-----------------------------------------------------------------------------
(* Properties. *)

\* Every variable has its type.
TypeOK ==
  /\ MessageTypeOK /\ handed \subseteq DOMAIN messages
  /\ IsMap(subscriptions, Ids, SUBSET NotificationTypes)
  /\ active \subseteq Ids
  /\ sent.answer \in BOOLEAN /\ sent.aborted \in BOOLEAN
  /\ \A x \in sent.texts : x.clientID \in Ids

\* A message handed to the dispatcher is deleted before the call returns, and
\* not used after that, whatever its type and subtype and whatever is missing
\* in its content.  An alert that the server is to broadcast is the one that
\* remains (MessageDispatcher.cpp:5-184).
DispatchedDeleted ==
  [][ call'[1] = "ProcessReceivedMessage" =>
        /\ ~corrupt'
        /\ \A m \in handed' \ handed : messages[m].header \in Alerts ]_vars

\* No call loses an object, neither one that was held nor one that it makes,
\* except for an alert's when there is nobody to send it to, a proper alert's
\* that the dispatcher got, and what sending a message leaves behind when an
\* allocation fails meanwhile (Message.hpp:72; NotificationSystem.cpp:25-34;
\* MessageDispatcher.cpp:54-61).
Loses(objects) ==
  \/ objects = {}
  \/ /\ call'[1] = "broadcastAlert" /\ DOMAIN subscriptions = {}
     /\ objects \cap live = {}
  \/ \E m \in handed' \ handed :
       messages[m].header \in Alerts /\ objects = {messages[m].content}
  \/ /\ call'[1] \in {"notify", "broadcastAlert"} /\ objects \cap live = {}
     /\ sent'.aborted \/ \E x \in sent'.texts : ~x.whole
NothingLost == [][Loses(Lost' \ Lost)]_vars

\* A client is sent the notifications that were asked for it, and no others,
\* as long as it is connected, whatever order registering, subscribing,
\* closing and removing come in; an alert goes to everybody who is listed and
\* connected, and to nobody else (NotificationSystem.hpp:26-32, 53-96).
Policy ==
  INSTANCE NotificationPolicy WITH
    Types <- NotificationTypes \cup {h[2] : h \in Headers}, Defaults <- DEFAULT_NOTIFICATIONS,
    audience <- DOMAIN subscriptions,
    wants <- {w \in Ids \X NotificationTypes : IsSubscribed(w[1], w[2])},
    online <- active,
    sent <- [answer |-> sent.answer, aborted |-> sent.aborted,
             to |-> {<<x.clientID, x.header[2]>> : x \in sent.texts}]
ImplementsPolicy == Policy!Spec

\* Each message frees the content it holds, and that is its own: no content is
\* freed twice (Message.hpp:41-42; NotificationSystem.hpp:58-59).
ContentFreedOnce == ~corrupt
=============================================================================
