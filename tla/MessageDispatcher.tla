------------------------- MODULE MessageDispatcher -------------------------
(***************************************************************************)
(* The MessageDispatcher (src/server/MessageDispatcher.cpp).  A message    *)
(* that was received is handed to it by a pointer, and it deletes it.  The *)
(* calls of a Server are comments at this commit, so what it reads from a  *)
(* message goes nowhere.                                                   *)
(*                                                                         *)
(* A handler is the sequence of what it does with the message on the path  *)
(* it takes.  The path depends on whether there is a content, and on which *)
(* of the fields it looks for are in it and of the right type.             *)
(***************************************************************************)
EXTENDS Message, Sequences

VARIABLE handed \* the messages in memory that the caller gave to a dispatcher

Fields == {"password", "subscribe", "unsubscribe", "products"}

Uses == {"header", "clientID", "content"} \* what is read of the message or its content

\* The subtypes from WEATHER to INFECTION.
Alerts == {"ALERT"} \X (0..2)

\* A path that ends with the message's deletion.
Deletes(reads) == Append(reads, "delete")
JustDeletes == Deletes(<<>>)

\* Nothing happens to a proper alert: it would be the server's to broadcast.
ProcessReceivedAlert(header) ==
  IF header \in Alerts THEN <<"header">> ELSE Deletes(<<"header">>)

\* ProcessLogin, had it returned without a delete when the password is missing.
ProcessLoginReturns(hasContent, fields) ==
  IF ~hasContent THEN Deletes(<<"content">>)
  ELSE IF "password" \notin fields THEN <<"content", "content">>
  ELSE Deletes(<<"content", "content", "content", "clientID">>)

ProcessLogin(hasContent, fields) ==
  IF ~hasContent THEN Deletes(<<"content">>)
  ELSE IF "password" \notin fields THEN Deletes(<<"content", "content">>)
  ELSE Deletes(<<"content", "content", "content", "clientID">>)

\* processLogout, and the two about the inventory that look at no content.
ProcessSender == Deletes(<<"clientID">>)

\* The elements of a list that is there are read as well.
Elements(field, fields) == IF field \in fields THEN <<"content", "content">> ELSE <<"content">>

ProcessSubscriptions(hasContent, fields) ==
  IF ~hasContent THEN Deletes(<<"content">>)
  ELSE Deletes(<<"content", "clientID">>
                 \o Elements("subscribe", fields) \o Elements("unsubscribe", fields))

ProcessReceivedInventoryRequest(hasContent, fields) ==
  IF ~hasContent THEN Deletes(<<"content">>)
  ELSE IF "products" \notin fields THEN Deletes(<<"content", "content">>)
  ELSE Deletes(<<"content", "content", "clientID", "content">>)

\* The switches of ProcessReceivedMessage: by type, then by subtype.
Handle(header, hasContent, fields) ==
  <<"header">> \o
  CASE header[1] = "ALERT"            -> ProcessReceivedAlert(header)
    [] header = <<"INVENTORY", 0>>    -> ProcessReceivedInventoryRequest(hasContent, fields)
    [] header \in {"INVENTORY"} \X {1, 2} -> ProcessSender \* INFO, HISTORY
    [] header = <<"CREDENTIALS", 0>>  -> ProcessLogin(hasContent, fields)
    [] header = <<"CREDENTIALS", 1>>  -> ProcessSender     \* LOGOUT
    [] header = <<"CREDENTIALS", 2>>  -> ProcessSubscriptions(hasContent, fields)
    [] OTHER                          -> JustDeletes

\* What following a path does: the message is destroyed where it is deleted,
\* and using it or deleting it after that corrupts the memory.
Follow(m, path) ==
  IF \A k \in DOMAIN path : path[k] # "delete" THEN UNCHANGED ownership ELSE
  /\ messages' = Erase(messages, m)
  /\ live' = Without(messages[m].content)
  /\ corrupt' = \/ messages[m].content \notin live \cup {NULL}
                \/ \E j, k \in DOMAIN path : j < k /\ path[j] = "delete"
  /\ UNCHANGED mine

\* ProcessReceivedMessage, had the pointer been kept as well.
ProcessAndKeep(m) ==
  /\ \E fields \in SUBSET Fields :
       Follow(m, Handle(messages[m].header, messages[m].content # NULL, fields))
  /\ handed' = handed \cup {m}

ProcessReceivedMessage(m) ==
  /\ \E fields \in SUBSET Fields :
       Follow(m, Handle(messages[m].header, messages[m].content # NULL, fields))
  /\ handed' = (handed \cup {m}) \cap DOMAIN messages'
-----------------------------------------------------------------------------
\* The objects that nobody will delete any more: neither the caller nor one of
\* the messages that are still its own.
Lost == live \ (mine \cup {messages[m].content : m \in DOMAIN messages \ handed})
=============================================================================
