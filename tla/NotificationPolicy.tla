------------------------- MODULE NotificationPolicy -------------------------
(***************************************************************************)
(* What the NotificationSystem promises its clients: a relation of clients *)
(* and the types they want, and an audience for alerts.  A notification    *)
(* goes to the client it is for if that wants its type and is connected,   *)
(* and to nobody else; an alert goes to everybody in the audience.         *)
(*                                                                         *)
(* A step is the call that it is labelled with, and only that.             *)
(***************************************************************************)
CONSTANTS Ids, Types, Defaults

VARIABLES
  call,     \* the last call: its name and its arguments
  audience, \* who gets alerts
  wants,    \* the pairs <<client, type>>
  online,   \* who is connected
  sent      \* its answer, whether it was aborted, and the pairs it sent something to

Nothing == [answer |-> TRUE, aborted |-> FALSE, to |-> {}]

Init == call = <<"none">> /\ audience = {} /\ wants = {} /\ online = {} /\ sent = Nothing

Of(i) == {w \in wants : w[1] = i}

Register(i) ==
  /\ call' = <<"registerClient", i>>
  /\ audience' = audience \cup {i} /\ wants' = (wants \ Of(i)) \cup ({i} \X Defaults)

Remove(i) ==
  /\ call' = <<"removeClient", i>>
  /\ audience' = audience \ {i} /\ wants' = wants \ Of(i)

\* Wanting something makes a client part of the audience.
Subscribe(w) ==
  /\ call' = <<"subscribe", w[1], w[2]>>
  /\ audience' = audience \cup {w[1]} /\ wants' = wants \cup {w}

Unsubscribe(w) ==
  /\ call' = <<"unsubscribe", w[1], w[2]>>
  /\ UNCHANGED audience /\ wants' = wants \ {w}

\* Who is connected is the network's business, and what becomes of a message
\* its owner's.
Elsewhere ==
  /\ \/ \E i \in Ids :
          \/ call' = <<"connect", i>> /\ online' = online \cup {i}
          \/ call' = <<"closeConnection", i>> /\ online' = online \ {i}
     \/ call' \in {<<"message">>, <<"ProcessReceivedMessage">>} /\ UNCHANGED online
  /\ UNCHANGED <<audience, wants>>

\* TRUE is the answer to everything that was sent and to nothing that is not
\* wanted.  The call is aborted only while it sends.
Notify(w) ==
  LET due == w \in wants /\ w[1] \in online IN
  /\ call' = <<"notify", w[1], w[2]>>
  /\ sent'.aborted => due
  /\ sent'.to = IF due /\ ~sent'.aborted THEN {w} ELSE {}
  /\ sent'.answer \in BOOLEAN
  /\ (due /\ ~sent'.aborted) => sent'.answer
  /\ w \notin wants => ~sent'.answer

\* One alert, to everybody in the audience who is connected.  A call that is
\* aborted reached some of them.
Alert(a) ==
  LET due == (audience \cap online) \X {a} IN
  /\ call' = <<"broadcastAlert", a>>
  /\ sent'.to \subseteq due
  /\ ~sent'.aborted => sent'.to = due
  /\ sent'.aborted => audience # {}

Next ==
  \/ /\ sent' = Nothing
     /\ \/ Elsewhere
        \/ /\ UNCHANGED online
           /\ \/ \E i \in Ids : Register(i) \/ Remove(i)
              \/ \E w \in Ids \X Types : Subscribe(w) \/ Unsubscribe(w)
  \/ /\ UNCHANGED <<audience, wants, online>>
     /\ (\E w \in Ids \X Types : Notify(w)) \/ (\E a \in Types : Alert(a))

Spec == Init /\ [][Next]_<<call, audience, wants, online, sent>>
=============================================================================
