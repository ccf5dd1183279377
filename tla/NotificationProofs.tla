-------------------------- MODULE NotificationProofs --------------------------
(***************************************************************************)
(* What is proved of the NotificationSystem, the dispatcher and the        *)
(* messages they work on, for any number of objects, messages and clients. *)
(***************************************************************************)
EXTENDS NotificationSystem, TLAPS

OwnInv == MessageTypeOK /\ SoleOwner

\* The objects that neither the caller nor any message has.
Unheld == live \ (mine \cup {messages[m].content : m \in DOMAIN messages})

\* Everybody's message but that at m stays.
OnlyAt(m) ==
  \A n \in DOMAIN messages \ {m} : n \in DOMAIN messages' /\ messages'[n] = messages[n]

\* Whose content the new message at m may have: nobody else's.
Fresh(m, c) ==
  c # NULL => /\ c \in live' \ mine'
              /\ \A n \in DOMAIN messages \ {m} : messages[n].content # c

-----------------------------------------------------------------------------
(* One message changes. *)

\* A message r at m, with a content of its own; what the caller and the other
\* messages held they still hold, and what m held is deleted or in r.
LEMMA PutMessage ==
  ASSUME OwnInv, NEW m \in Places, NEW r \in MessageRecord,
         messages' = Assign(messages, m, r),
         mine' \subseteq live', live' \subseteq Contents, corrupt' = corrupt,
         Fresh(m, r.content),
         live' \subseteq live \cup {r.content}, mine \subseteq mine' \cup {r.content},
         \A n \in DOMAIN messages \ {m} :
           messages[n].content # NULL => messages[n].content \in live' \ mine',
         m \in DOMAIN messages => messages[m].content \notin live' \ {r.content}
  PROVE  OwnInv' /\ OnlyAt(m) /\ Unheld' \subseteq Unheld
<1>1. /\ DOMAIN messages' = DOMAIN messages \cup {m}
      /\ \A n \in DOMAIN messages' : messages'[n] = IF n = m THEN r ELSE messages[n]
      /\ messages' = [n \in DOMAIN messages' |-> messages'[n]]
  BY DEF Assign
<1>2. /\ DOMAIN messages \subseteq Places /\ corrupt \in BOOLEAN
      /\ \A n \in DOMAIN messages : messages[n] \in MessageRecord
  BY DEF OwnInv, MessageTypeOK, IsMap
<1>3. OnlyAt(m)
  BY <1>1 DEF OnlyAt
<1>4. MessageTypeOK'
  BY <1>1, <1>2 DEF MessageTypeOK, IsMap
<1>5. SoleOwner'
  BY <1>1 DEF OwnInv, SoleOwner, Fresh
<1>6. Unheld' \subseteq Unheld
  <2> SUFFICES ASSUME NEW c \in Unheld' PROVE c \in Unheld
    OBVIOUS
  <2>1. /\ c \in live' /\ c \notin mine' /\ c # r.content
        /\ \A n \in DOMAIN messages \ {m} : messages[n].content # c
    BY <1>1 DEF Unheld
  <2>2. m \in DOMAIN messages => messages[m].content # c
    BY <2>1
  <2> QED
    BY <2>1, <2>2 DEF Unheld
<1> QED
  BY <1>3, <1>4, <1>5, <1>6 DEF OwnInv

LEMMA RecordOf ==
  ASSUME OwnInv, NEW m \in DOMAIN messages
  PROVE  /\ messages[m] \in MessageRecord /\ m \in Places
         /\ messages[m] = Msg(messages[m].clientID, messages[m].header, messages[m].content)
         /\ messages[m].content # NULL => messages[m].content \in live \ mine
         /\ \A n \in DOMAIN messages \ {m} :
              messages[m].content # NULL => messages[n].content # messages[m].content
  BY DEF OwnInv, MessageTypeOK, SoleOwner, IsMap, MessageRecord, Msg

LEMMA ConstructStep ==
  ASSUME OwnInv, NEW m \in Places, NEW i \in Ids, NEW h \in Headers, Construct(m, i, h)
  PROVE  OwnInv' /\ OnlyAt(m) /\ Unheld' \subseteq Unheld
<1>1. PICK c \in mine \cup {NULL} :
        messages' = Assign(messages, m, Msg(i, h, c)) /\ mine' = mine \ {c}
  BY DEF Construct
<1>2. /\ m \notin DOMAIN messages /\ live' = live /\ corrupt' = corrupt
      /\ mine \subseteq live /\ live \subseteq Contents
  BY DEF Construct, Free, OwnInv, MessageTypeOK, SoleOwner
<1>3. Msg(i, h, c) \in MessageRecord /\ Msg(i, h, c).content = c
  BY <1>1, <1>2 DEF Msg, MessageRecord
<1>4. \A n \in DOMAIN messages :
        messages[n].content # NULL => messages[n].content \in live \ mine
  BY RecordOf
<1> QED
  BY <1>1, <1>2, <1>3, <1>4, PutMessage DEF Fresh

LEMMA FromJSONStep ==
  ASSUME OwnInv, NEW m \in Places, NEW i \in Ids, NEW h \in Headers,
         FromJSONString(m, i, h)
  PROVE  OwnInv' /\ OnlyAt(m) /\ Unheld' \subseteq Unheld
<1>1. PICK c \in NewObject(live) :
        messages' = Assign(messages, m, Msg(i, h, c)) /\ live' = Added(live, c)
  BY DEF FromJSONString
<1>2. /\ m \notin DOMAIN messages /\ mine' = mine /\ corrupt' = corrupt
      /\ mine \subseteq live /\ live \subseteq Contents
  BY DEF FromJSONString, Free, OwnInv, MessageTypeOK, SoleOwner
<1>3. c = NULL \/ c \in Contents \ live
  BY <1>1 DEF NewObject
<1>4. Msg(i, h, c) \in MessageRecord /\ Msg(i, h, c).content = c
  BY <1>3 DEF Msg, MessageRecord
<1>5. \A n \in DOMAIN messages :
        messages[n].content # NULL => messages[n].content \in live \ mine
  BY RecordOf
<1> QED
  BY <1>1, <1>2, <1>3, <1>4, <1>5, PutMessage DEF Fresh, Added

LEMMA SetHeaderStep ==
  ASSUME OwnInv, NEW m \in DOMAIN messages, NEW i \in Ids, NEW h \in Headers,
         SetHeader(m, i, h)
  PROVE  OwnInv' /\ OnlyAt(m) /\ Unheld' \subseteq Unheld
<1> DEFINE r == Msg(i, h, messages[m].content)
<1>1. /\ messages' = Assign(messages, m, r)
      /\ live' = live /\ mine' = mine /\ corrupt' = corrupt
      /\ mine \subseteq live /\ live \subseteq Contents
  BY DEF SetHeader, OwnInv, MessageTypeOK, SoleOwner
<1>2. r \in MessageRecord /\ r.content = messages[m].content
  BY RecordOf DEF Msg, MessageRecord
<1>3. \A n \in DOMAIN messages :
        messages[n].content # NULL => messages[n].content \in live \ mine
  BY RecordOf
<1>4. Fresh(m, r.content)
  BY <1>1, <1>2, RecordOf DEF Fresh
<1> HIDE DEF r
<1> QED
  BY <1>1, <1>2, <1>3, <1>4, RecordOf, PutMessage

LEMMA CopyStep ==
  ASSUME OwnInv, NEW m \in Places, NEW n \in DOMAIN messages, CopyConstruct(m, n)
  PROVE  OwnInv' /\ OnlyAt(m) /\ Unheld' \subseteq Unheld
<1>1. PICK c \in CopyOf(messages[n].content, live) :
        /\ messages' = Assign(messages, m, [messages[n] EXCEPT !.content = c])
        /\ live' = Added(live, c)
  BY DEF CopyConstruct
<1> DEFINE r == [messages[n] EXCEPT !.content = c]
<1>2. /\ m \notin DOMAIN messages /\ mine' = mine /\ corrupt' = corrupt
      /\ mine \subseteq live /\ live \subseteq Contents
  BY DEF CopyConstruct, Free, OwnInv, MessageTypeOK, SoleOwner
<1>3. c = NULL \/ c \in Contents \ live
  BY <1>1 DEF CopyOf, NewObject
<1>4. r \in MessageRecord /\ r.content = c
  BY <1>3, RecordOf DEF MessageRecord
<1>5. \A k \in DOMAIN messages :
        messages[k].content # NULL => messages[k].content \in live \ mine
  BY RecordOf
<1> HIDE DEF r
<1>6. messages' = Assign(messages, m, r)
  BY <1>1 DEF r
<1> QED
  BY <1>1, <1>2, <1>3, <1>4, <1>5, <1>6, PutMessage DEF Fresh, Added

\* The old object is deleted first: the copy may have its address.
LEMMA AssignStep ==
  ASSUME OwnInv, NEW m \in DOMAIN messages, NEW n \in DOMAIN messages,
         AssignMessage(m, n)
  PROVE  OwnInv' /\ OnlyAt(m) /\ Unheld' \subseteq Unheld
<1>1. CASE m = n
  BY <1>1 DEF AssignMessage, ownership, OwnInv, MessageTypeOK, SoleOwner, OnlyAt, Unheld
<1>2. CASE m # n
  <2> DEFINE left == Without(messages[m].content)
  <2>1. PICK c \in CopyOf(messages[n].content, left) :
          /\ messages' = Assign(messages, m, [messages[n] EXCEPT !.content = c])
          /\ live' = Added(left, c) /\ mine' = mine /\ corrupt' = corrupt
    BY <1>2 DEF AssignMessage
  <2> DEFINE r == [messages[n] EXCEPT !.content = c]
  <2>2. /\ mine \subseteq left /\ left \subseteq live /\ live \subseteq Contents
        /\ messages[m].content \notin left
    BY RecordOf, MessageAssumption DEF OwnInv, MessageTypeOK, SoleOwner, Without
  <2>3. c = NULL \/ c \in Contents \ left
    BY <2>1 DEF CopyOf, NewObject
  <2>4. r \in MessageRecord /\ r.content = c
    BY <2>3, RecordOf DEF MessageRecord
  <2>5. \A k \in DOMAIN messages \ {m} :
          messages[k].content # NULL => messages[k].content \in left \ mine
    BY RecordOf DEF Without
  <2>6. m \in Places
    BY RecordOf
  <2> HIDE DEF r, left
  <2>7. messages' = Assign(messages, m, r)
    BY <2>1 DEF r
  <2>8. Fresh(m, r.content)
    BY <2>1, <2>2, <2>3, <2>4, <2>5 DEF Fresh, Added
  <2> QED
    BY <2>1, <2>2, <2>3, <2>4, <2>5, <2>6, <2>7, <2>8, PutMessage DEF Added
<1> QED
  BY <1>1, <1>2

LEMMA DestroyStep ==
  ASSUME OwnInv, ~corrupt, NEW m \in DOMAIN messages, Destroy(m)
  PROVE  /\ OwnInv' /\ ~corrupt' /\ OnlyAt(m) /\ Unheld' \subseteq Unheld
         /\ DOMAIN messages' = DOMAIN messages \ {m}
<1>1. /\ DOMAIN messages' = DOMAIN messages \ {m}
      /\ \A n \in DOMAIN messages' : messages'[n] = messages[n]
      /\ messages' = [n \in DOMAIN messages' |-> messages'[n]]
      /\ live' = live \ {messages[m].content} /\ mine' = mine
  BY DEF Destroy, Erase, Without
<1>2. ~corrupt'
  BY RecordOf DEF Destroy
<1>3. OnlyAt(m)
  BY <1>1 DEF OnlyAt
<1>4. MessageTypeOK'
  <2>1. /\ DOMAIN messages \subseteq Places
        /\ \A n \in DOMAIN messages : messages[n] \in MessageRecord
    BY RecordOf
  <2>2. messages' \in [DOMAIN messages' -> MessageRecord]
    BY <1>1, <2>1
  <2>3. live' \subseteq Contents /\ mine' \subseteq Contents
    BY <1>1 DEF OwnInv, MessageTypeOK
  <2>4. corrupt' \in BOOLEAN
    BY <1>2 DEF Destroy
  <2> QED
    BY <1>1, <2>1, <2>2, <2>3, <2>4 DEF MessageTypeOK, IsMap
<1>5. mine' \subseteq live'
  BY <1>1, RecordOf, MessageAssumption DEF OwnInv, SoleOwner, MessageTypeOK
<1>6. \A n \in DOMAIN messages' : messages[n].content # NULL =>
        /\ messages[n].content \in live' \ mine'
        /\ \A k \in DOMAIN messages' \ {n} : messages[k].content # messages[n].content
  BY <1>1, RecordOf
<1>7. SoleOwner'
  BY <1>1, <1>5, <1>6 DEF SoleOwner
<1>8. Unheld' \subseteq Unheld
  BY <1>1 DEF Unheld
<1> QED
  BY <1>1, <1>2, <1>3, <1>4, <1>7, <1>8 DEF OwnInv

LEMMA CreateStep ==
  ASSUME OwnInv, CreateContent
  PROVE  OwnInv' /\ messages' = messages /\ corrupt' = corrupt /\ Unheld' \subseteq Unheld
<1>1. PICK c \in Contents \ live : live' = live \cup {c} /\ mine' = mine \cup {c}
  BY DEF CreateContent
<1>2. messages' = messages /\ corrupt' = corrupt
  BY DEF CreateContent
<1>3. OwnInv'
  BY <1>1, <1>2, RecordOf DEF OwnInv, MessageTypeOK, SoleOwner
<1> QED
  BY <1>1, <1>2, <1>3 DEF Unheld

\* Any call on the messages of the caller's leaves the others alone.
LEMMA MessageStep ==
  ASSUME OwnInv, ~corrupt, NEW own \in SUBSET DOMAIN messages, MessageNext(own)
  PROVE  /\ OwnInv' /\ ~corrupt' /\ Unheld' \subseteq Unheld
         /\ \A n \in DOMAIN messages \ own :
              n \in DOMAIN messages' /\ messages'[n] = messages[n]
<1>1. CASE CreateContent
  BY <1>1, CreateStep
<1>2. ASSUME NEW m \in Places, NEW i \in Ids, NEW h \in Headers,
             Construct(m, i, h) \/ FromJSONString(m, i, h)
      PROVE  /\ OwnInv' /\ OnlyAt(m) /\ Unheld' \subseteq Unheld /\ ~corrupt'
             /\ m \notin DOMAIN messages
  BY <1>2, ConstructStep, FromJSONStep DEF Construct, FromJSONString, Free
<1>3. ASSUME NEW i \in Ids, NEW h \in Headers, NEW m \in own, SetHeader(m, i, h)
      PROVE  OwnInv' /\ OnlyAt(m) /\ Unheld' \subseteq Unheld /\ ~corrupt'
  BY <1>3, SetHeaderStep DEF SetHeader
<1>4. ASSUME NEW m \in Places, NEW n \in own, CopyConstruct(m, n)
      PROVE  /\ OwnInv' /\ OnlyAt(m) /\ Unheld' \subseteq Unheld /\ ~corrupt'
             /\ m \notin DOMAIN messages
  BY <1>4, CopyStep DEF CopyConstruct, Free
<1>5. ASSUME NEW m \in own, NEW n \in own, AssignMessage(m, n)
      PROVE  OwnInv' /\ OnlyAt(m) /\ Unheld' \subseteq Unheld /\ ~corrupt'
  BY <1>5, AssignStep DEF AssignMessage, ownership
<1>6. ASSUME NEW n \in own, Destroy(n)
      PROVE  OwnInv' /\ OnlyAt(n) /\ Unheld' \subseteq Unheld /\ ~corrupt'
  BY <1>6, DestroyStep
<1>7. ASSUME NEW m, OnlyAt(m), m \in own \/ m \notin DOMAIN messages
      PROVE  \A n \in DOMAIN messages \ own :
               n \in DOMAIN messages' /\ messages'[n] = messages[n]
  BY <1>7 DEF OnlyAt
<1> QED
  BY <1>1, <1>2, <1>3, <1>4, <1>5, <1>6, <1>7 DEF MessageNext

-----------------------------------------------------------------------------
(* The calls of the dispatcher and of the NotificationSystem. *)

HandedInv == handed \subseteq DOMAIN messages

\* What TypeOK says of the NotificationSystem itself.
ClientInv ==
  /\ IsMap(subscriptions, Ids, SUBSET NotificationTypes)
  /\ active \subseteq Ids
  /\ sent.answer \in BOOLEAN /\ sent.aborted \in BOOLEAN
  /\ \A x \in sent.texts : x.clientID \in Ids

NInv == OwnInv /\ HandedInv /\ ClientInv

\* What DispatchedDeleted says of a step.
DispatchOK ==
  call'[1] = "ProcessReceivedMessage" =>
    ~corrupt' /\ \A m \in handed' \ handed : messages[m].header \in Alerts

\* Nothing is lost when all objects remain held, and handed messages as they are.
LEMMA NoneLost ==
  ASSUME OwnInv, HandedInv, handed' = handed, Unheld' \subseteq Unheld, OwnInv',
         \A n \in handed : n \in DOMAIN messages' /\ messages'[n] = messages[n]
  PROVE  Lost' \subseteq Lost
<1> SUFFICES ASSUME NEW c \in Lost' PROVE c \in Lost
  OBVIOUS
<1>1. /\ c \in live' /\ c \notin mine' /\ c # NULL
      /\ \A n \in DOMAIN messages' \ handed : messages'[n].content # c
  BY MessageAssumption DEF Lost, OwnInv, MessageTypeOK
<1>2. CASE c \in Unheld'
  <2>1. c \in Unheld
    BY <1>2
  <2> QED
    BY <2>1 DEF Unheld, Lost
<1>3. CASE c \notin Unheld'
  <2>1. PICK n \in handed : messages[n].content = c
    BY <1>1, <1>3 DEF Unheld
  <2>2. n \in DOMAIN messages
    BY <2>1 DEF HandedInv
  <2>3. c \in live \ mine /\ \A k \in DOMAIN messages \ {n} : messages[k].content # c
    BY <1>1, <2>1, <2>2, RecordOf
  <2> QED
    BY <2>1, <2>3 DEF Lost
<1> QED
  BY <1>2, <1>3

\* A handler that deletes does so last.
LEMMA DeletesLast ==
  ASSUME NEW reads \in Seq(Uses)
  PROVE  LET path == <<"header">> \o Deletes(reads) IN
         /\ \E k \in DOMAIN path : path[k] = "delete"
         /\ \A j, k \in DOMAIN path : j < k => path[j] # "delete"
<1> DEFINE path == <<"header">> \o Append(reads, "delete")
<1>1. /\ Len(path) = Len(reads) + 2 /\ DOMAIN path = 1..(Len(reads) + 2)
      /\ Len(reads) \in Nat
  OBVIOUS
<1>2. path[Len(reads) + 2] = "delete"
  OBVIOUS
<1>3. \A j \in 1..(Len(reads) + 1) : path[j] # "delete"
  <2> SUFFICES ASSUME NEW j \in 1..(Len(reads) + 1) PROVE path[j] # "delete"
    OBVIOUS
  <2>1. CASE j = 1
    BY <2>1
  <2>2. CASE j # 1
    <3>1. path[j] = reads[j - 1] /\ reads[j - 1] \in Uses
      BY <2>2
    <3> QED
      BY <3>1 DEF Uses
  <2> QED
    BY <2>1, <2>2
<1> HIDE DEF path
<1>4. /\ \E k \in DOMAIN path : path[k] = "delete"
      /\ \A j, k \in DOMAIN path : j < k => path[j] # "delete"
  BY <1>1, <1>2, <1>3
<1> QED
  BY <1>4 DEF path, Deletes

\* Every path of every handler, apart from that of a proper alert, reads what it
\* wants and then deletes.
LEMMA PathOf ==
  ASSUME NEW header, NEW hasContent \in BOOLEAN, NEW fields \in SUBSET Fields
  PROVE  \/ /\ header \in Alerts
            /\ Handle(header, hasContent, fields) = <<"header">> \o <<"header">>
         \/ \E reads \in Seq(Uses) :
              Handle(header, hasContent, fields) = <<"header">> \o Deletes(reads)
<1> DEFINE path == Handle(header, hasContent, fields)
           Ends(p) == \E reads \in Seq(Uses) : p = Deletes(reads)
<1>1. /\ <<>> \in Seq(Uses) /\ <<"header">> \in Seq(Uses) /\ <<"content">> \in Seq(Uses)
      /\ <<"clientID">> \in Seq(Uses) /\ <<"content", "content">> \in Seq(Uses)
      /\ <<"content", "content", "content", "clientID">> \in Seq(Uses)
      /\ <<"content", "content", "clientID", "content">> \in Seq(Uses)
      /\ <<"content", "clientID">> \in Seq(Uses)
  BY DEF Uses
<1>2. \A field : Elements(field, fields) \in Seq(Uses)
  BY <1>1 DEF Elements
<1>3. Ends(ProcessLogin(hasContent, fields))
  BY <1>1 DEF ProcessLogin
<1>4. Ends(ProcessSender) /\ Ends(JustDeletes)
  BY <1>1 DEF ProcessSender, JustDeletes
<1>5. Ends(ProcessReceivedInventoryRequest(hasContent, fields))
  BY <1>1 DEF ProcessReceivedInventoryRequest
<1>6. Ends(ProcessSubscriptions(hasContent, fields))
  <2>1. <<"content", "clientID">> \o Elements("subscribe", fields)
          \o Elements("unsubscribe", fields) \in Seq(Uses)
    <3>1. Elements("subscribe", fields) \in Seq(Uses)
          /\ Elements("unsubscribe", fields) \in Seq(Uses)
      BY <1>2
    <3> QED
      BY <1>1, <3>1
  <2> QED
    BY <1>1, <2>1 DEF ProcessSubscriptions
<1>7. header \in Alerts => ProcessReceivedAlert(header) = <<"header">>
  BY DEF ProcessReceivedAlert
<1>8. header \notin Alerts => Ends(ProcessReceivedAlert(header))
  BY <1>1 DEF ProcessReceivedAlert
<1>9. header \in Alerts => header[1] = "ALERT"
  BY DEF Alerts
<1>10. \E q : /\ path = <<"header">> \o q
              /\ \/ header[1] = "ALERT" /\ q = ProcessReceivedAlert(header)
                 \/ header[1] # "ALERT" /\ Ends(q)
  <2> DEFINE request == ProcessReceivedInventoryRequest(hasContent, fields)
             login == ProcessLogin(hasContent, fields)
             subscribe == ProcessSubscriptions(hasContent, fields)
             alert == ProcessReceivedAlert(header)
             q == CASE header[1] = "ALERT" -> alert
                    [] header = <<"INVENTORY", 0>> -> request
                    [] header \in {"INVENTORY"} \X {1, 2} -> ProcessSender
                    [] header = <<"CREDENTIALS", 0>> -> login
                    [] header = <<"CREDENTIALS", 1>> -> ProcessSender
                    [] header = <<"CREDENTIALS", 2>> -> subscribe
                    [] OTHER -> JustDeletes
  <2>1. path = <<"header">> \o q
    BY DEF Handle
  <2>2. Ends(request) /\ Ends(login) /\ Ends(subscribe)
    BY <1>3, <1>5, <1>6
  <2> HIDE DEF Ends, request, login, subscribe, alert
  <2>3. CASE header[1] = "ALERT"
    <3>1. header # <<"INVENTORY", 0>> /\ header # <<"CREDENTIALS", 0>>
          /\ header # <<"CREDENTIALS", 1>> /\ header # <<"CREDENTIALS", 2>>
          /\ header \notin {"INVENTORY"} \X {1, 2}
      BY <2>3
    <3>2. q = alert
      BY <2>3, <3>1
    <3> QED
      BY <2>1, <2>3, <3>2 DEF alert
  <2>4. CASE header[1] # "ALERT"
    <3>1. q \in {request, login, subscribe, ProcessSender, JustDeletes}
      BY <2>4
    <3> HIDE DEF q
    <3>2. Ends(q)
      BY <1>4, <2>2, <3>1
    <3> QED
      BY <2>1, <2>4, <3>2
  <2> QED
    BY <2>3, <2>4
<1> HIDE DEF path
<1>11. PICK q : /\ path = <<"header">> \o q
                /\ \/ header[1] = "ALERT" /\ q = ProcessReceivedAlert(header)
                   \/ header[1] # "ALERT" /\ Ends(q)
  BY <1>10
<1>12. CASE header \in Alerts
  BY <1>7, <1>9, <1>11, <1>12 DEF path
<1>13. CASE header \notin Alerts
  <2>1. Ends(q)
    BY <1>8, <1>11, <1>13
  <2> QED
    BY <1>11, <2>1 DEF path
<1> QED
  BY <1>12, <1>13

\* The message is destroyed, or it is a proper alert and kept.
LEMMA DispatchStep ==
  ASSUME OwnInv, HandedInv, ~corrupt, NEW m \in DOMAIN messages \ handed,
         ProcessReceivedMessage(m)
  PROVE  /\ OwnInv' /\ HandedInv' /\ ~corrupt'
         /\ \/ handed' = handed /\ Lost' \subseteq Lost
            \/ /\ handed' = handed \cup {m} /\ messages[m].header \in Alerts
               /\ Lost' \subseteq Lost \cup ({messages[m].content} \ {NULL})
<1> DEFINE hasContent == messages[m].content # NULL
<1>1. PICK fields \in SUBSET Fields :
        Follow(m, Handle(messages[m].header, hasContent, fields))
  BY DEF ProcessReceivedMessage
<1>2. handed' = (handed \cup {m}) \cap DOMAIN messages'
  BY DEF ProcessReceivedMessage
<1> DEFINE path == Handle(messages[m].header, hasContent, fields)
<1>3. \/ messages[m].header \in Alerts /\ path = <<"header">> \o <<"header">>
      \/ \E reads \in Seq(Uses) : path = <<"header">> \o Deletes(reads)
  <2>1. hasContent \in BOOLEAN
    OBVIOUS
  <2> HIDE DEF hasContent
  <2> QED
    BY <2>1, PathOf
<1> HIDE DEF path
<1>4. Follow(m, path)
  BY <1>1 DEF path
<1>5. CASE messages[m].header \in Alerts /\ path = <<"header">> \o <<"header">>
  <2>1. \A k \in DOMAIN path : path[k] # "delete"
    BY <1>5
  <2>2. UNCHANGED ownership
    BY <1>4, <2>1 DEF Follow
  <2>3. OwnInv' /\ ~corrupt' /\ messages' = messages /\ live' = live /\ mine' = mine
    BY <2>2 DEF ownership, OwnInv, MessageTypeOK, SoleOwner
  <2>4. handed' = handed \cup {m}
    BY <1>2, <2>3 DEF HandedInv
  <2>5. Lost' \subseteq Lost \cup ({messages[m].content} \ {NULL})
    <3> SUFFICES ASSUME NEW c \in Lost', c # messages[m].content PROVE c \in Lost
      BY MessageAssumption, <2>3 DEF Lost, OwnInv, MessageTypeOK
    <3>1. /\ c \in live \ mine
          /\ \A n \in DOMAIN messages \ (handed \cup {m}) : messages[n].content # c
      BY <2>3, <2>4 DEF Lost
    <3> QED
      BY <3>1 DEF Lost
  <2> QED
    BY <1>5, <2>3, <2>4, <2>5 DEF HandedInv
<1>6. CASE \E reads \in Seq(Uses) : path = <<"header">> \o Deletes(reads)
  <2>1. /\ \E k \in DOMAIN path : path[k] = "delete"
        /\ \A j, k \in DOMAIN path : j < k => path[j] # "delete"
    BY <1>6, DeletesLast
  <2>2. Destroy(m)
    BY <1>4, <2>1 DEF Follow, Destroy
  <2>3. /\ OwnInv' /\ ~corrupt' /\ OnlyAt(m) /\ Unheld' \subseteq Unheld
        /\ DOMAIN messages' = DOMAIN messages \ {m}
    BY <2>2, DestroyStep
  <2>4. handed' = handed
    BY <1>2, <2>3 DEF HandedInv
  <2>5. \A n \in handed : n \in DOMAIN messages' /\ messages'[n] = messages[n]
    BY <2>3 DEF OnlyAt, HandedInv
  <2>6. Lost' \subseteq Lost
    BY <2>3, <2>4, <2>5, NoneLost
  <2> QED
    BY <2>3, <2>4, <2>5, <2>6 DEF HandedInv
<1> QED
  BY <1>3, <1>5, <1>6

\* A call that changes no message.
LEMMA MessagesKept ==
  ASSUME OwnInv, HandedInv, UNCHANGED <<ownership, handed>>
  PROVE  OwnInv' /\ HandedInv' /\ Lost' \subseteq Lost
  BY DEF ownership, OwnInv, MessageTypeOK, SoleOwner, HandedInv, Lost

LEMMA SentType ==
  ASSUME NEW answer \in BOOLEAN, NEW aborted \in BOOLEAN, NEW texts,
         \A x \in texts : x.clientID \in Ids, sent' = Sent(answer, aborted, texts)
  PROVE  /\ sent'.answer \in BOOLEAN /\ sent'.aborted \in BOOLEAN
         /\ \A x \in sent'.texts : x.clientID \in Ids
<1>1. sent'.answer = answer /\ sent'.aborted = aborted /\ sent'.texts = texts
  BY DEF Sent
<1> QED
  BY <1>1

LEMMA SilentType ==
  ASSUME Silent
  PROVE  /\ sent'.answer \in BOOLEAN /\ sent'.aborted \in BOOLEAN
         /\ \A x \in sent'.texts : x.clientID \in Ids
  BY DEF Silent, Nothing, Sent

LEMMA SetToStep ==
  ASSUME ClientInv, NEW i \in Ids, NEW types \in SUBSET NotificationTypes, SetTo(i, types)
  PROVE  ClientInv' /\ UNCHANGED <<ownership, handed>>
<1>1. subscriptions' = Assign(subscriptions, i, types)
  BY DEF SetTo
<1>2. IsMap(subscriptions, Ids, SUBSET NotificationTypes)'
  BY <1>1 DEF ClientInv, IsMap, Assign
<1> QED
  BY <1>2, SilentType DEF SetTo, ClientInv

LEMMA SubscriptionStep ==
  ASSUME ClientInv, NEW i \in Ids,
         \/ Connect(i) \/ CloseConnection(i) \/ RegisterClient(i) \/ RemoveClient(i)
         \/ \E t \in Types : Subscribe(i, t) \/ Unsubscribe(i, t)
  PROVE  ClientInv' /\ UNCHANGED <<ownership, handed>>
<1>1. CASE Connect(i) \/ CloseConnection(i)
  BY <1>1, SilentType DEF Connect, CloseConnection, ClientInv
<1>2. CASE RemoveClient(i)
  <2>1. subscriptions' = Erase(subscriptions, i)
    BY <1>2 DEF RemoveClient
  <2>2. IsMap(subscriptions, Ids, SUBSET NotificationTypes)'
    BY <2>1 DEF ClientInv, IsMap, Erase
  <2> QED
    BY <1>2, <2>2, SilentType DEF RemoveClient, ClientInv
<1>3. SetOf(i) \in SUBSET NotificationTypes
  BY DEF SetOf, ClientInv, IsMap
<1>4. CASE RegisterClient(i)
  BY <1>4, SetToStep DEF RegisterClient, DEFAULT_NOTIFICATIONS, NotificationTypes
<1>5. ASSUME NEW t \in Types, Subscribe(i, t)
      PROVE  ClientInv' /\ UNCHANGED <<ownership, handed>>
  <2>1. SetOf(i) \cup {t} \in SUBSET NotificationTypes
    BY <1>3, NotificationAssumption
  <2> QED
    BY <1>5, <2>1, SetToStep DEF Subscribe
<1>6. ASSUME NEW t \in Types, Unsubscribe(i, t)
      PROVE  ClientInv' /\ UNCHANGED <<ownership, handed>>
  <2>1. CASE i \in DOMAIN subscriptions
    <3>1. SetTo(i, subscriptions[i] \ {t})
      BY <1>6, <2>1 DEF Unsubscribe
    <3>2. subscriptions[i] \ {t} \in SUBSET NotificationTypes
      BY <2>1 DEF ClientInv, IsMap
    <3> QED
      BY <3>1, <3>2, SetToStep
  <2>2. CASE i \notin DOMAIN subscriptions
    BY <1>6, <2>2, SilentType DEF Unsubscribe, ClientInv
  <2> QED
    BY <2>1, <2>2
<1> QED
  BY <1>1, <1>2, <1>4, <1>5, <1>6

\* What sending a message comes to: nothing for a client without a connection;
\* else a text or an exception, and objects are left only when memory ran out.
LEMMA SendOutcome ==
  ASSUME NEW msg, NEW l, NEW o \in SendMessage(msg, l)
  PROVE  /\ o.aborted \in BOOLEAN /\ o.lost \subseteq Contents \ l
         /\ o = [aborted |-> o.aborted, texts |-> o.texts, lost |-> o.lost]
         /\ \A x \in o.texts : x.clientID = msg.clientID /\ x.header = msg.header
         /\ o.lost # {} => o.aborted \/ \E x \in o.texts : ~x.whole
         /\ o.aborted => msg.clientID \in active /\ o.texts = {}
         /\ ~o.aborted => (o.texts # {} <=> msg.clientID \in active)
<1>1. CASE msg.clientID \notin active
  <2>1. o = [aborted |-> FALSE, texts |-> {}, lost |-> {}]
    BY <1>1 DEF SendMessage, Outcome
  <2> QED
    BY <1>1, <2>1
<1>2. CASE msg.clientID \in active
  <2>1. o \in ToJSONString(msg, l)
    BY <1>2 DEF SendMessage
  <2>2. \/ \E w \in BOOLEAN, x \in SUBSET (Contents \ l) :
             /\ o = [aborted |-> FALSE, texts |-> {Text(msg, w)}, lost |-> x]
             /\ x # {} => ~w
        \/ \E x \in SUBSET (Contents \ l) : o = [aborted |-> TRUE, texts |-> {}, lost |-> x]
    <3>1. CASE o \in ToWholeString(msg, l)
      <4> DEFINE w == msg.content # NULL
      <4>1. o = [aborted |-> FALSE, texts |-> {Text(msg, w)}, lost |-> {}]
        BY <3>1 DEF ToWholeString, Outcome
      <4>2. w \in BOOLEAN /\ {} \in SUBSET (Contents \ l)
        OBVIOUS
      <4> HIDE DEF w
      <4> QED
        BY <4>1, <4>2
    <3>2. CASE \E x \in SUBSET (Contents \ l) : o = Outcome(FALSE, {Text(msg, FALSE)}, x)
      BY <3>2 DEF Outcome
    <3>3. CASE \E x \in SUBSET (Contents \ l) : o = Outcome(TRUE, {}, x)
      BY <3>3 DEF Outcome
    <3> QED
      BY <2>1, <3>1, <3>2, <3>3 DEF ToJSONString
  <2>3. CASE \E w \in BOOLEAN, x \in SUBSET (Contents \ l) :
               /\ o = [aborted |-> FALSE, texts |-> {Text(msg, w)}, lost |-> x]
               /\ x # {} => ~w
    <3>1. PICK w \in BOOLEAN, x \in SUBSET (Contents \ l) :
               /\ o = [aborted |-> FALSE, texts |-> {Text(msg, w)}, lost |-> x]
               /\ x # {} => ~w
      BY <2>3
    <3>2. /\ Text(msg, w).clientID = msg.clientID /\ Text(msg, w).header = msg.header
          /\ Text(msg, w).whole = w
      BY DEF Text
    <3> QED
      BY <1>2, <3>1, <3>2
  <2>4. CASE \E x \in SUBSET (Contents \ l) : o = [aborted |-> TRUE, texts |-> {}, lost |-> x]
    BY <1>2, <2>4
  <2> QED
    BY <2>2, <2>3, <2>4
<1> QED
  BY <1>1, <1>2

\* A call that leaves objects behind, and otherwise everything as it was.
LEMMA LeavesBehind ==
  ASSUME OwnInv, HandedInv, NEW lost, lost \subseteq Contents \ live,
         live' = live \cup lost, corrupt' \in BOOLEAN, UNCHANGED <<mine, messages, handed>>
  PROVE  OwnInv' /\ HandedInv' /\ Lost' \ Lost \subseteq lost
  BY DEF OwnInv, MessageTypeOK, SoleOwner, HandedInv, Lost

LEMMA NotifyStep ==
  ASSUME NInv, NEW m \in DOMAIN messages, Notify(m), call'[1] = "notify"
  PROVE  NInv' /\ Loses(Lost' \ Lost)
<1> DEFINE msg == messages[m]
           wanted == IsSubscribed(msg.clientID, msg.header[2])
<1>1. PICK o \in SendMessage(msg, live) :
        IF wanted THEN After(~o.aborted, o) ELSE After(FALSE, Outcome(FALSE, {}, {}))
  BY DEF Notify
<1>2. UNCHANGED <<mine, messages, corrupt, handed, subscriptions, active>>
  BY DEF Notify
<1>3. msg.clientID \in Ids
  BY RecordOf DEF MessageRecord, NInv
<1>4. PICK answer \in BOOLEAN, p \in {o, [aborted |-> FALSE, texts |-> {}, lost |-> {}]} :
        After(answer, p)
  BY <1>1, SendOutcome DEF Outcome
<1>5. /\ p.aborted \in BOOLEAN /\ p.lost \subseteq Contents \ live
      /\ \A x \in p.texts : x.clientID \in Ids
      /\ p.lost # {} => p.aborted \/ \E x \in p.texts : ~x.whole
  <2>1. CASE p = o
    <3>1. \A x \in o.texts : x.clientID = msg.clientID
      BY SendOutcome
    <3> HIDE DEF msg
    <3> QED
      BY <1>3, <2>1, <3>1, SendOutcome
  <2>2. CASE p = [aborted |-> FALSE, texts |-> {}, lost |-> {}]
    BY <2>2
  <2> QED
    BY <1>4, <2>1, <2>2
<1>6. /\ sent' = Sent(answer, p.aborted, p.texts) /\ live' = live \cup p.lost
      /\ sent'.aborted = p.aborted /\ sent'.texts = p.texts
  BY <1>4 DEF After, Sent
<1>7. OwnInv' /\ HandedInv' /\ Lost' \ Lost \subseteq p.lost
  BY <1>2, <1>5, <1>6, LeavesBehind DEF NInv, OwnInv, MessageTypeOK
<1>8. ClientInv'
  BY <1>2, <1>5, <1>6, SentType DEF NInv, ClientInv
<1>9. Loses(Lost' \ Lost)
  BY <1>5, <1>6, <1>7 DEF Loses
<1> QED
  BY <1>7, <1>8, <1>9 DEF NInv

\* The object of an alert is lost when nobody is listed, and the messages do
\* not survive the call.
LEMMA AlertStep ==
  ASSUME NInv, ~corrupt, NEW h \in Headers, BroadcastAlert(h), call'[1] = "broadcastAlert"
  PROVE  NInv' /\ Loses(Lost' \ Lost)
<1> DEFINE audience == DOMAIN subscriptions
<1>1. UNCHANGED <<mine, messages, handed, subscriptions, active>>
  BY DEF BroadcastAlert
<1>2. audience \subseteq Ids /\ live \subseteq Contents
  BY DEF NInv, OwnInv, MessageTypeOK, ClientInv, IsMap
\* It is enough to say what is left, and what was sent.
<1>3. ASSUME NEW lost, lost \subseteq Contents \ live, live' = live \cup lost,
             corrupt' \in BOOLEAN,
             sent'.answer \in BOOLEAN, sent'.aborted \in BOOLEAN,
             \A x \in sent'.texts : x.clientID \in Ids,
             lost # {} => \/ audience = {} \/ sent'.aborted
                          \/ \E x \in sent'.texts : ~x.whole
      PROVE  NInv' /\ Loses(Lost' \ Lost)
  <2>1. OwnInv' /\ HandedInv' /\ Lost' \ Lost \subseteq lost
    BY <1>1, <1>3, LeavesBehind DEF NInv
  <2>2. ClientInv'
    BY <1>1, <1>3 DEF NInv, ClientInv
  <2>3. Loses(Lost' \ Lost)
    BY <1>3, <2>1 DEF Loses
  <2> QED
    BY <2>1, <2>2, <2>3 DEF NInv
<1>4. ASSUME NEW c \in Contents \ live, AlertWith(c, h)
      PROVE  NInv' /\ Loses(Lost' \ Lost)
  <2>1. CASE audience = {}
    <3>1. live' = live \cup {c} /\ Silent /\ corrupt' \in BOOLEAN
      BY <1>4, <2>1 DEF AlertWith, NInv, OwnInv, MessageTypeOK
    <3> QED
      BY <1>3, <1>4, <2>1, <3>1, SilentType
  <2>2. CASE audience # {}
    <3>a. PICK first \in audience : \E o \in SendMessage(Msg(first, h, c), live \cup {c}) :
            /\ corrupt' = (~o.aborted /\ audience # {first})
            /\ live' = live \cup o.lost
            /\ sent' = Sent(TRUE, o.aborted \/ corrupt', o.texts)
      BY <1>4, <2>2 DEF AlertWith
    <3>1. PICK o \in SendMessage(Msg(first, h, c), live \cup {c}) :
            /\ corrupt' = (~o.aborted /\ audience # {first})
            /\ live' = live \cup o.lost
            /\ sent' = Sent(TRUE, o.aborted \/ corrupt', o.texts)
      BY <3>a
    <3>2. Msg(first, h, c).clientID = first
      BY DEF Msg
    <3>3. /\ o.aborted \in BOOLEAN /\ o.lost \subseteq Contents \ (live \cup {c})
          /\ \A x \in o.texts : x.clientID = first
          /\ o.lost # {} => o.aborted \/ \E x \in o.texts : ~x.whole
          /\ o.texts # {} => first \in active
      BY <3>1, <3>2, SendOutcome
    <3>4. /\ sent'.answer = TRUE /\ sent'.aborted = (o.aborted \/ corrupt')
          /\ sent'.texts = o.texts
      BY <3>1 DEF Sent
    <3>5. corrupt' \in BOOLEAN /\ sent'.aborted \in BOOLEAN
      BY <3>1, <3>4, Zenon
    <3>6. \A x \in o.texts : x.clientID \in Ids
      BY <3>3 DEF NInv, ClientInv
    <3>7. o.aborted => sent'.aborted
      BY <3>4
    <3> QED
      BY <1>3, <3>1, <3>3, <3>4, <3>5, <3>6, <3>7
  <2> QED
    BY <2>1, <2>2
<1>5. ASSUME AlertWithout(h)
      PROVE  NInv' /\ Loses(Lost' \ Lost)
  <2> DEFINE Plain(S) == {Text(Msg(i, h, NULL), FALSE) : i \in S \cap active}
  <2>1. \A S \in SUBSET audience : \A x \in Plain(S) : x.clientID \in Ids
    BY <1>2 DEF Text, Msg
  <2>2. corrupt' \in BOOLEAN
    BY <1>5 DEF AlertWithout, NInv, OwnInv, MessageTypeOK
  <2>3. CASE After(TRUE, Outcome(FALSE, Plain(audience), {}))
    <3> DEFINE texts == Plain(audience)
    <3>1. \A x \in texts : x.clientID \in Ids
      BY <2>1
    <3> HIDE DEF texts
    <3>2. After(TRUE, Outcome(FALSE, texts, {}))
      BY <2>3 DEF texts
    <3>3. live' = live \cup {} /\ sent' = Sent(TRUE, FALSE, texts)
      BY <3>2 DEF After, Outcome
    <3>4. /\ sent'.answer \in BOOLEAN /\ sent'.aborted \in BOOLEAN
          /\ \A x \in sent'.texts : x.clientID \in Ids
      BY <3>1, <3>3, SentType
    <3> QED
      BY <1>3, <2>2, <3>3, <3>4
  <2>4. CASE \E i \in audience : \E o \in SendMessage(Msg(i, h, NULL), live) :
               /\ o.aborted
               /\ After(TRUE, [o EXCEPT !.texts = Plain({j \in audience : j < i})])
    <3>a. PICK i \in audience : \E o \in SendMessage(Msg(i, h, NULL), live) :
               /\ o.aborted
               /\ After(TRUE, [o EXCEPT !.texts = Plain({j \in audience : j < i})])
      BY <2>4
    <3>1. PICK o \in SendMessage(Msg(i, h, NULL), live) :
               /\ o.aborted
               /\ After(TRUE, [o EXCEPT !.texts = Plain({j \in audience : j < i})])
      BY <3>a
    <3> DEFINE texts == Plain({j \in audience : j < i})
    <3>2. \A x \in texts : x.clientID \in Ids
      BY <2>1
    <3> HIDE DEF texts
    <3>3. After(TRUE, [o EXCEPT !.texts = texts])
      BY <3>1 DEF texts
    <3>4. o.aborted \in BOOLEAN /\ o.lost \subseteq Contents \ live
      BY SendOutcome
    <3>5. o = [aborted |-> o.aborted, texts |-> o.texts, lost |-> o.lost]
      BY SendOutcome
    <3>6. live' = live \cup o.lost /\ sent' = Sent(TRUE, TRUE, texts)
      BY <3>1, <3>3, <3>4, <3>5 DEF After
    <3>7. /\ sent'.answer \in BOOLEAN /\ sent'.aborted \in BOOLEAN
          /\ \A x \in sent'.texts : x.clientID \in Ids
          /\ sent'.aborted
      BY <3>2, <3>6, SentType DEF Sent
    <3> QED
      BY <1>3, <2>2, <3>4, <3>6, <3>7
  <2> QED
    BY <1>5, <2>3, <2>4 DEF AlertWithout
<1> QED
  BY <1>4, <1>5 DEF BroadcastAlert

LEMMA NInitial == Init => NInv
<1> SUFFICES ASSUME Init PROVE NInv
  OBVIOUS
<1>1. DOMAIN messages = {} /\ DOMAIN subscriptions = {}
  BY DEF Init, MessageInit, EmptyMap
<1>2. OwnInv
  BY <1>1 DEF Init, MessageInit, EmptyMap, OwnInv, MessageTypeOK, SoleOwner, IsMap
<1>3. HandedInv
  BY DEF Init, HandedInv
<1>4. ClientInv
  BY <1>1 DEF Init, EmptyMap, ClientInv, IsMap, Nothing, Sent
<1> QED
  BY <1>2, <1>3, <1>4 DEF NInv

\* Each call on its own, with its label.
LEMMA NStep ==
  NInv /\ [Next]_vars => NInv' /\ [Loses(Lost' \ Lost)]_vars /\ [DispatchOK]_vars
<1> SUFFICES ASSUME NInv, [Next]_vars
             PROVE  NInv' /\ (UNCHANGED vars \/ (Loses(Lost' \ Lost) /\ DispatchOK))
  OBVIOUS
<1>1. OwnInv /\ HandedInv /\ ClientInv
  BY DEF NInv
<1>2. CASE UNCHANGED vars
  BY <1>1, <1>2, MessagesKept DEF vars, NInv, ClientInv
<1>3. CASE ~corrupt /\ Called(<<"message">>) /\ MessageNext(DOMAIN messages \ handed)
           /\ UNCHANGED <<handed, subscriptions, active>> /\ Silent
  <2>1. /\ OwnInv' /\ Unheld' \subseteq Unheld
        /\ \A n \in handed : n \in DOMAIN messages' /\ messages'[n] = messages[n]
    BY <1>1, <1>3, MessageStep DEF HandedInv
  <2>2. HandedInv' /\ Lost' \subseteq Lost
    BY <1>1, <1>3, <2>1, NoneLost DEF HandedInv
  <2>3. ClientInv'
    BY <1>1, <1>3, SilentType DEF ClientInv
  <2>4. call'[1] = "message"
    BY <1>3 DEF Called
  <2> QED
    BY <2>1, <2>2, <2>3, <2>4 DEF NInv, Loses, DispatchOK
<1>4. ASSUME ~corrupt, NEW m \in DOMAIN messages \ handed, ProcessReceivedMessage(m),
             UNCHANGED <<subscriptions, active>>, Silent
      PROVE  NInv' /\ Loses(Lost' \ Lost) /\ DispatchOK
  <2>1. /\ OwnInv' /\ HandedInv' /\ ~corrupt'
        /\ \/ handed' = handed /\ Lost' \subseteq Lost
           \/ /\ handed' = handed \cup {m} /\ messages[m].header \in Alerts
              /\ Lost' \subseteq Lost \cup ({messages[m].content} \ {NULL})
    BY <1>1, <1>4, DispatchStep
  <2>2. Loses(Lost' \ Lost)
    <3>1. CASE Lost' \ Lost = {}
      BY <3>1 DEF Loses
    <3>2. CASE Lost' \ Lost # {}
      <4>1. /\ m \in handed' \ handed /\ messages[m].header \in Alerts
            /\ Lost' \ Lost = {messages[m].content}
        BY <1>4, <2>1, <3>2
      <4> QED
        BY <4>1 DEF Loses
    <3> QED
      BY <3>1, <3>2
  <2>3. DispatchOK
    BY <2>1 DEF DispatchOK
  <2>4. ClientInv'
    BY <1>1, <1>4, SilentType DEF ClientInv
  <2> QED
    BY <2>1, <2>2, <2>3, <2>4 DEF NInv
<1>5. ASSUME NEW m \in DOMAIN messages, Notify(m),
             Called(<<"notify", messages[m].clientID, messages[m].header[2]>>)
      PROVE  NInv' /\ Loses(Lost' \ Lost) /\ DispatchOK
  <2>1. call'[1] = "notify"
    BY <1>5 DEF Called
  <2> QED
    BY <1>5, <2>1, NotifyStep DEF DispatchOK
<1>6. ASSUME NEW i \in Ids,
             \/ Connect(i) \/ CloseConnection(i) \/ RegisterClient(i) \/ RemoveClient(i)
             \/ \E t \in Types : Subscribe(i, t) \/ Unsubscribe(i, t),
             call'[1] \in {"connect", "closeConnection", "registerClient", "removeClient",
                           "subscribe", "unsubscribe"}
      PROVE  NInv' /\ Loses(Lost' \ Lost) /\ DispatchOK
  BY <1>1, <1>6, SubscriptionStep, MessagesKept DEF NInv, Loses, DispatchOK
<1>7. ASSUME ~corrupt, NEW h \in Headers, BroadcastAlert(h),
             Called(<<"broadcastAlert", h[2]>>)
      PROVE  NInv' /\ Loses(Lost' \ Lost) /\ DispatchOK
  <2>1. call'[1] = "broadcastAlert"
    BY <1>7 DEF Called
  <2> QED
    BY <1>7, <2>1, AlertStep DEF DispatchOK
<1>8. ASSUME NEW i \in Ids,
             \/ Called(<<"connect", i>>) /\ Connect(i)
             \/ Called(<<"closeConnection", i>>) /\ CloseConnection(i)
             \/ Called(<<"registerClient", i>>) /\ RegisterClient(i)
             \/ Called(<<"removeClient", i>>) /\ RemoveClient(i)
      PROVE  NInv' /\ Loses(Lost' \ Lost) /\ DispatchOK
  BY <1>6, <1>8 DEF Called
<1>9. ASSUME NEW i \in Ids, NEW t \in Types,
             \/ Called(<<"subscribe", i, t>>) /\ Subscribe(i, t)
             \/ Called(<<"unsubscribe", i, t>>) /\ Unsubscribe(i, t)
      PROVE  NInv' /\ Loses(Lost' \ Lost) /\ DispatchOK
  BY <1>6, <1>9 DEF Called
<1> QED
  BY <1>2, <1>3, <1>4, <1>5, <1>7, <1>8, <1>9 DEF Next

-----------------------------------------------------------------------------
(* The abstract policy. *)

audience == DOMAIN subscriptions
wants == {w \in Ids \X NotificationTypes : IsSubscribed(w[1], w[2])}
shown == [answer |-> sent.answer, aborted |-> sent.aborted,
          to |-> {<<x.clientID, x.header[2]>> : x \in sent.texts}]
PolicyTypes == NotificationTypes \cup {h[2] : h \in Headers}
abstract == <<call, audience, wants, active, shown>>

LEMMA WantsOf ==
  ASSUME ClientInv, NEW i, NEW t
  PROVE  <<i, t>> \in wants <=> i \in DOMAIN subscriptions /\ t \in subscriptions[i]
  BY DEF wants, IsSubscribed, ClientInv, IsMap

LEMMA SilentShown ==
  ASSUME Silent
  PROVE  shown' = Policy!Nothing
<1>1. sent' = [answer |-> TRUE, aborted |-> FALSE, texts |-> {}]
  BY DEF Silent, Nothing, Sent
<1> QED
  BY <1>1 DEF shown, Policy!Nothing

\* What setting the types of a client does to the relation.
LEMMA SetToPolicy ==
  ASSUME ClientInv, NEW i \in Ids, NEW types \in SUBSET NotificationTypes, SetTo(i, types)
  PROVE  /\ wants' = (wants \ Policy!Of(i)) \cup ({i} \X types)
         /\ audience' = audience \cup {i}
         /\ shown' = Policy!Nothing /\ UNCHANGED active
<1>1. /\ DOMAIN subscriptions' = DOMAIN subscriptions \cup {i}
      /\ \A j \in DOMAIN subscriptions' :
           subscriptions'[j] = IF j = i THEN types ELSE subscriptions[j]
      /\ UNCHANGED active /\ Silent
  BY DEF SetTo, Assign
<1>2. Policy!Of(i) = {w \in wants : w[1] = i}
  BY DEF Policy!Of, wants
<1>3. wants' = {w \in Ids \X NotificationTypes :
                  w[1] \in DOMAIN subscriptions' /\ w[2] \in subscriptions'[w[1]]}
  BY DEF wants, IsSubscribed
<1>4. wants = {w \in Ids \X NotificationTypes :
                 w[1] \in DOMAIN subscriptions /\ w[2] \in subscriptions[w[1]]}
  BY DEF wants, IsSubscribed
<1>5. \A j, t : <<j, t>> \in wants' <=> <<j, t>> \in (wants \ Policy!Of(i)) \cup ({i} \X types)
  BY <1>1, <1>2, <1>3, <1>4
<1>6. wants' = (wants \ Policy!Of(i)) \cup ({i} \X types)
  <2>1. wants' \subseteq Ids \X NotificationTypes
    BY <1>3
  <2>2. (wants \ Policy!Of(i)) \cup ({i} \X types) \subseteq Ids \X NotificationTypes
    BY <1>4
  <2> QED
    BY <1>5, <2>1, <2>2
<1> QED
  BY <1>1, <1>6, SilentShown DEF audience

LEMMA SubscriptionPolicy ==
  ASSUME ClientInv, NEW i \in Ids,
         \/ Called(<<"registerClient", i>>) /\ RegisterClient(i)
         \/ Called(<<"removeClient", i>>) /\ RemoveClient(i)
         \/ \E t \in Types :
              \/ Called(<<"subscribe", i, t>>) /\ Subscribe(i, t)
              \/ Called(<<"unsubscribe", i, t>>) /\ Unsubscribe(i, t)
  PROVE  Policy!Next
<1>1. CASE Called(<<"registerClient", i>>) /\ RegisterClient(i)
  <2>1. SetTo(i, DEFAULT_NOTIFICATIONS) /\ DEFAULT_NOTIFICATIONS \in SUBSET NotificationTypes
    BY <1>1 DEF RegisterClient, DEFAULT_NOTIFICATIONS, NotificationTypes
  <2> QED
    BY <1>1, <2>1, SetToPolicy DEF Policy!Next, Policy!Register, wants, audience, Called, shown
<1>2. CASE Called(<<"removeClient", i>>) /\ RemoveClient(i)
  <2>1. /\ DOMAIN subscriptions' = DOMAIN subscriptions \ {i}
        /\ \A j \in DOMAIN subscriptions' : subscriptions'[j] = subscriptions[j]
        /\ UNCHANGED active /\ Silent
    BY <1>2 DEF RemoveClient, Erase
  <2>2. wants' = wants \ Policy!Of(i)
    BY <2>1 DEF wants, IsSubscribed, Policy!Of
  <2>3. shown' = Policy!Nothing
    BY <2>1, SilentShown
  <2> QED
    BY <1>2, <2>1, <2>2, <2>3
       DEF Policy!Next, Policy!Remove, wants, audience, Called, shown
<1>3. SetOf(i) \in SUBSET NotificationTypes /\ Policy!Of(i) = {i} \X SetOf(i)
  <2>1. SetOf(i) \in SUBSET NotificationTypes
    BY DEF SetOf, ClientInv, IsMap
  <2> QED
    BY <2>1 DEF SetOf, Policy!Of, IsSubscribed
<1>4. Policy!Of(i) \subseteq wants
  BY DEF Policy!Of, wants
<1>5. ASSUME NEW t \in Types, Subscribe(i, t), Called(<<"subscribe", i, t>>)
      PROVE  Policy!Next
  <2>1. /\ SetTo(i, SetOf(i) \cup {t}) /\ t \in NotificationTypes
        /\ SetOf(i) \cup {t} \in SUBSET NotificationTypes
    BY <1>3, <1>5, NotificationAssumption DEF Subscribe
  <2>2. wants' = (wants \ Policy!Of(i)) \cup ({i} \X (SetOf(i) \cup {t}))
    BY <2>1, SetToPolicy
  <2>3. wants' = wants \cup {<<i, t>>}
    BY <1>3, <1>4, <2>2
  <2> DEFINE w == <<i, t>>
  <2>4. w \in Ids \X PolicyTypes /\ call' = <<"subscribe", w[1], w[2]>>
    BY <1>5, <2>1 DEF Called, PolicyTypes
  <2>5. audience' = audience \cup {w[1]} /\ wants' = wants \cup {w}
    BY <2>1, <2>3, SetToPolicy
  <2>6. shown' = Policy!Nothing /\ UNCHANGED active
    BY <2>1, SetToPolicy
  <2> HIDE DEF w
  <2> QED
    BY <2>4, <2>5, <2>6
       DEF Policy!Next, Policy!Subscribe, wants, audience, shown, PolicyTypes
<1>6. ASSUME NEW t \in Types, Unsubscribe(i, t), Called(<<"unsubscribe", i, t>>)
      PROVE  Policy!Next
  <2> DEFINE w == <<i, t>>
  <2>1. w \in Ids \X PolicyTypes /\ call' = <<"unsubscribe", w[1], w[2]>>
    BY <1>6, NotificationAssumption DEF Called, PolicyTypes
  <2>2. /\ audience' = audience /\ wants' = wants \ {w}
        /\ shown' = Policy!Nothing /\ UNCHANGED active
    <3>1. CASE i \notin DOMAIN subscriptions
      <4>1. UNCHANGED <<subscriptions, active>> /\ Silent
        BY <1>6, <3>1 DEF Unsubscribe
      <4>2. w \notin wants
        BY <3>1, WantsOf
      <4>3. wants' = wants
        BY <4>1 DEF wants, IsSubscribed
      <4> QED
        BY <4>1, <4>2, <4>3, SilentShown DEF audience
    <3>2. CASE i \in DOMAIN subscriptions
      <4>1. SetTo(i, SetOf(i) \ {t}) /\ SetOf(i) \ {t} \in SUBSET NotificationTypes
        BY <1>3, <1>6, <3>2 DEF Unsubscribe, SetOf
      <4>2. wants' = (wants \ Policy!Of(i)) \cup ({i} \X (SetOf(i) \ {t}))
        BY <4>1, SetToPolicy
      <4>3. wants \subseteq Ids \X NotificationTypes
        BY DEF wants
      <4>4. \A j, u : <<j, u>> \in wants' <=> <<j, u>> \in wants /\ ~(j = i /\ u = t)
        <5>1. \A u : <<i, u>> \in wants <=> u \in SetOf(i)
          BY <3>2, WantsOf DEF SetOf
        <5> QED
          BY <1>3, <4>2, <5>1
      <4>5. wants' \subseteq Ids \X NotificationTypes
        BY <1>3, <4>2, <4>3
      <4>6. wants' = wants \ {w}
        BY <4>3, <4>4, <4>5
      <4>7. audience' = audience /\ shown' = Policy!Nothing /\ UNCHANGED active
        BY <3>2, <4>1, SetToPolicy DEF audience
      <4> QED
        BY <4>6, <4>7
    <3> QED
      BY <3>1, <3>2
  <2> HIDE DEF w
  <2> QED
    BY <2>1, <2>2
       DEF Policy!Next, Policy!Unsubscribe, wants, audience, shown, PolicyTypes
<1> QED
  BY <1>1, <1>2, <1>5, <1>6

\* What a notification's texts show of it.
LEMMA NotifyPolicy ==
  ASSUME OwnInv, ClientInv, NEW m \in DOMAIN messages, Notify(m),
         Called(<<"notify", messages[m].clientID, messages[m].header[2]>>)
  PROVE  Policy!Next
<1> DEFINE msg == messages[m]
           w == <<msg.clientID, msg.header[2]>>
           wanted == IsSubscribed(msg.clientID, msg.header[2])
           due == w \in wants /\ w[1] \in active
<1>1. PICK o \in SendMessage(msg, live) :
        IF wanted THEN After(~o.aborted, o) ELSE After(FALSE, Outcome(FALSE, {}, {}))
  BY DEF Notify
<1>2. w \in Ids \X PolicyTypes /\ call' = <<"notify", w[1], w[2]>>
  BY RecordOf DEF MessageRecord, PolicyTypes, Called
<1>3. wanted <=> w \in wants
  BY WantsOf DEF IsSubscribed
<1>4. UNCHANGED <<audience, wants, active>>
  BY DEF Notify, audience, wants, IsSubscribed
<1>5. /\ o.aborted \in BOOLEAN
      /\ \A x \in o.texts : x.clientID = msg.clientID /\ x.header = msg.header
      /\ o.aborted => msg.clientID \in active /\ o.texts = {}
      /\ ~o.aborted => (o.texts # {} <=> msg.clientID \in active)
  BY SendOutcome
<1>6. {<<x.clientID, x.header[2]>> : x \in o.texts} =
        IF msg.clientID \in active /\ ~o.aborted THEN {w} ELSE {}
  <2>1. \A x \in o.texts : <<x.clientID, x.header[2]>> = w
    BY <1>5
  <2> HIDE DEF w, msg
  <2>2. CASE o.texts = {}
    BY <1>5, <2>2
  <2>3. CASE o.texts # {}
    BY <1>5, <2>1, <2>3
  <2> QED
    BY <2>2, <2>3
<1>7. /\ shown'.aborted => due
      /\ shown'.to = IF due /\ ~shown'.aborted THEN {w} ELSE {}
      /\ shown'.answer \in BOOLEAN
      /\ (due /\ ~shown'.aborted) => shown'.answer
      /\ w \notin wants => ~shown'.answer
  <2> DEFINE to == {<<x.clientID, x.header[2]>> : x \in o.texts}
  <2>1. CASE wanted
    <3>1. sent' = [answer |-> ~o.aborted, aborted |-> o.aborted, texts |-> o.texts]
      BY <1>1, <2>1 DEF After, Sent
    <3>2. shown' = [answer |-> ~o.aborted, aborted |-> o.aborted, to |-> to]
      BY <3>1 DEF shown
    <3>3. w[1] = msg.clientID
      OBVIOUS
    <3> HIDE DEF to
    <3>4. shown'.answer = ~o.aborted /\ shown'.aborted = o.aborted /\ shown'.to = to
      BY <3>2
    <3>5. to = IF msg.clientID \in active /\ ~o.aborted THEN {w} ELSE {}
      BY <1>6 DEF to
    <3> HIDE DEF w, wanted, msg
    <3> QED
      BY <1>3, <1>5, <2>1, <3>3, <3>4, <3>5
  <2>2. CASE ~wanted
    <3>1. sent' = [answer |-> FALSE, aborted |-> FALSE, texts |-> {}]
      BY <1>1, <2>2 DEF After, Sent, Outcome
    <3>2. shown' = [answer |-> FALSE, aborted |-> FALSE, to |-> {}]
      BY <3>1 DEF shown
    <3> HIDE DEF w, wanted
    <3> QED
      BY <1>3, <2>2, <3>2
  <2> QED
    BY <2>1, <2>2
<1> HIDE DEF w
<1> QED
  BY <1>2, <1>4, <1>7
     DEF Policy!Next, Policy!Notify, PolicyTypes, wants, audience, shown

LEMMA ElsewherePolicy ==
  ASSUME Silent, UNCHANGED subscriptions,
         \/ \E i \in Ids : \/ Called(<<"connect", i>>) /\ active' = active \cup {i}
                           \/ Called(<<"closeConnection", i>>) /\ active' = active \ {i}
         \/ /\ Called(<<"message">>) \/ Called(<<"ProcessReceivedMessage">>)
            /\ UNCHANGED active
  PROVE  Policy!Next
<1>1. wants' = wants /\ audience' = audience
  BY DEF wants, audience, IsSubscribed
<1>2. shown' = Policy!Nothing
  BY SilentShown
<1> QED
  BY <1>1, <1>2 DEF Policy!Next, Policy!Elsewhere, Called, wants, audience, shown

\* Whoever gets the alert is listed and connected; without an exception or a
\* second client that finds the object deleted, those are all.
LEMMA AlertPolicy ==
  ASSUME NInv, NEW h \in Headers, BroadcastAlert(h), Called(<<"broadcastAlert", h[2]>>)
  PROVE  Policy!Next
<1> DEFINE due == (audience \cap active) \X {h[2]}
           ToOf(texts) == {<<x.clientID, x.header[2]>> : x \in texts}
<1>1. /\ UNCHANGED <<wants, audience, active>>
      /\ call' = <<"broadcastAlert", h[2]>> /\ h[2] \in PolicyTypes
  BY DEF BroadcastAlert, wants, audience, IsSubscribed, PolicyTypes, Called
\* It is enough to say whom the texts went to.
<1>2. ASSUME NEW aborted, NEW texts, sent' = Sent(TRUE, aborted, texts),
             ToOf(texts) \subseteq due, ~aborted => ToOf(texts) = due,
             aborted => audience # {}
      PROVE  Policy!Next
  <2>1. sent' = [answer |-> TRUE, aborted |-> aborted, texts |-> texts]
    BY <1>2 DEF Sent
  <2>2. shown' = [answer |-> TRUE, aborted |-> aborted, to |-> ToOf(texts)]
    BY <2>1 DEF shown
  <2> DEFINE to == ToOf(texts)
  <2>3. to \subseteq due /\ (~aborted => to = due)
    BY <1>2
  <2> HIDE DEF to
  <2>4. shown'.aborted = aborted /\ shown'.to = to
    BY <2>2 DEF to
  <2> QED
    BY <1>1, <1>2, <2>3, <2>4
       DEF Policy!Next, Policy!Alert, PolicyTypes, wants, audience, shown
<1>3. ASSUME NEW c \in Contents \ live, AlertWith(c, h) PROVE Policy!Next
  <2>1. CASE audience = {} /\ Silent
    <3>1. sent' = Sent(TRUE, FALSE, {})
      BY <2>1 DEF Silent, Nothing
    <3> QED
      BY <1>2, <2>1, <3>1
  <2>2. CASE \E i \in audience : \E o \in SendMessage(Msg(i, h, c), live \cup {c}) :
               /\ corrupt' = (~o.aborted /\ audience # {i})
               /\ sent' = Sent(TRUE, o.aborted \/ corrupt', o.texts)
    <3>1. PICK i \in audience : \E o \in SendMessage(Msg(i, h, c), live \cup {c}) :
               /\ corrupt' = (~o.aborted /\ audience # {i})
               /\ sent' = Sent(TRUE, o.aborted \/ corrupt', o.texts)
      BY <2>2
    <3>2. PICK o \in SendMessage(Msg(i, h, c), live \cup {c}) :
               /\ corrupt' = (~o.aborted /\ audience # {i})
               /\ sent' = Sent(TRUE, o.aborted \/ corrupt', o.texts)
      BY <3>1
    <3>3. /\ \A x \in o.texts : x.clientID = i /\ x.header = h
          /\ o.aborted => o.texts = {}
          /\ ~o.aborted => (o.texts # {} <=> i \in active)
      BY <3>2, SendOutcome DEF Msg
    <3>4. ToOf(o.texts) = IF ~o.aborted /\ i \in active THEN {<<i, h[2]>>} ELSE {}
      <4>1. \A x \in o.texts : <<x.clientID, x.header[2]>> = <<i, h[2]>>
        BY <3>3
      <4>2. CASE o.texts = {}
        BY <3>3, <4>2
      <4>3. CASE o.texts # {}
        BY <3>3, <4>1, <4>3
      <4> QED
        BY <4>2, <4>3
    <3> DEFINE texts == o.texts
               aborted == o.aborted \/ corrupt'
    <3>5. ToOf(texts) \subseteq due
      BY <3>4
    <3>6. ~aborted => ToOf(texts) = due
      <4> SUFFICES ASSUME ~aborted PROVE ToOf(texts) = due
        OBVIOUS
      <4>1. ~o.aborted /\ audience = {i}
        BY <3>2
      <4> QED
        BY <3>4, <4>1
    <3>7. sent' = Sent(TRUE, aborted, texts)
      BY <3>2
    <3> HIDE DEF aborted, texts, due
    <3> QED
      BY <1>2, <3>5, <3>6, <3>7
  <2> QED
    BY <1>3, <2>1, <2>2 DEF AlertWith, audience
<1>4. ASSUME AlertWithout(h) PROVE Policy!Next
  <2> DEFINE Plain(S) == {Text(Msg(i, h, NULL), FALSE) : i \in S \cap active}
  <2>1. \A S : ToOf(Plain(S)) = (S \cap active) \X {h[2]}
    <3> SUFFICES ASSUME NEW S PROVE ToOf(Plain(S)) = (S \cap active) \X {h[2]}
      OBVIOUS
    <3>1. \A i : /\ Text(Msg(i, h, NULL), FALSE).clientID = i
                 /\ Text(Msg(i, h, NULL), FALSE).header = h
      BY DEF Text, Msg
    <3> DEFINE text(i) == Text(Msg(i, h, NULL), FALSE)
    <3>2. ToOf(Plain(S)) = {<<text(i).clientID, text(i).header[2]>> : i \in S \cap active}
      OBVIOUS
    <3>3. \A i : text(i).clientID = i /\ text(i).header = h
      BY <3>1
    <3> HIDE DEF text
    <3>4. {<<text(i).clientID, text(i).header[2]>> : i \in S \cap active}
            = {<<i, h[2]>> : i \in S \cap active}
      BY <3>3
    <3>5. {<<i, h[2]>> : i \in S \cap active} = (S \cap active) \X {h[2]}
      OBVIOUS
    <3> QED
      BY <3>2, <3>4, <3>5
  <2>2. CASE After(TRUE, Outcome(FALSE, Plain(audience), {}))
    <3> DEFINE texts == Plain(audience)
    <3>1. ToOf(texts) = due
      BY <2>1
    <3>2. After(TRUE, [aborted |-> FALSE, texts |-> texts, lost |-> {}])
      BY <2>2 DEF Outcome
    <3> HIDE DEF texts, due
    <3>3. sent' = Sent(TRUE, FALSE, texts)
      BY <3>2 DEF After
    <3> QED
      BY <1>2, <3>1, <3>3
  <2>3. CASE \E i \in audience : \E o \in SendMessage(Msg(i, h, NULL), live) :
               /\ o.aborted
               /\ After(TRUE, [o EXCEPT !.texts = Plain({j \in audience : j < i})])
    <3>1. PICK i \in audience : \E o \in SendMessage(Msg(i, h, NULL), live) :
               /\ o.aborted
               /\ After(TRUE, [o EXCEPT !.texts = Plain({j \in audience : j < i})])
      BY <2>3
    <3>2. PICK o \in SendMessage(Msg(i, h, NULL), live) :
               /\ o.aborted
               /\ After(TRUE, [o EXCEPT !.texts = Plain({j \in audience : j < i})])
      BY <3>1
    <3> DEFINE texts == Plain({j \in audience : j < i})
    <3>3. ToOf(texts) \subseteq due
      <4> DEFINE J == {j \in audience : j < i}
      <4>1. ToOf(Plain(J)) = (J \cap active) \X {h[2]}
        BY <2>1
      <4>2. J \subseteq audience
        OBVIOUS
      <4> QED
        BY <4>1, <4>2
    <3>4. o = [aborted |-> o.aborted, texts |-> o.texts, lost |-> o.lost]
      BY SendOutcome
    <3> HIDE DEF texts, due
    <3>5. After(TRUE, [o EXCEPT !.texts = texts])
      BY <3>2 DEF texts
    <3>6. sent' = Sent(TRUE, o.aborted, texts)
      BY <3>4, <3>5 DEF After
    <3> QED
      BY <1>2, <3>2, <3>3, <3>6
  <2> QED
    BY <1>4, <2>2, <2>3 DEF AlertWithout, audience
<1> QED
  BY <1>3, <1>4 DEF BroadcastAlert

LEMMA PolicyInitial == Init => Policy!Init
<1> SUFFICES ASSUME Init PROVE Policy!Init
  OBVIOUS
<1>1. audience = {} /\ wants = {} /\ active = {} /\ call = <<"none">>
  BY DEF Init, EmptyMap, audience, wants, IsSubscribed
<1>2. shown = Policy!Nothing
  <2>1. sent = [answer |-> TRUE, aborted |-> FALSE, texts |-> {}]
    BY DEF Init, Nothing, Sent
  <2> QED
    BY <2>1 DEF shown, Policy!Nothing
<1> QED
  BY <1>1, <1>2 DEF Policy!Init, wants, audience, shown

LEMMA PolicyStep == NInv /\ [Next]_vars => [Policy!Next]_abstract
<1> SUFFICES ASSUME NInv, [Next]_vars
             PROVE  Policy!Next \/ UNCHANGED abstract
  OBVIOUS
<1>1. OwnInv /\ ClientInv
  BY DEF NInv
<1>2. CASE UNCHANGED vars
  BY <1>2 DEF vars, abstract, audience, wants, shown, IsSubscribed
<1>3. CASE /\ Called(<<"message">>) \/ Called(<<"ProcessReceivedMessage">>)
           /\ UNCHANGED <<subscriptions, active>> /\ Silent
  BY <1>3, ElsewherePolicy
<1>4. ASSUME NEW m \in DOMAIN messages, Notify(m),
             Called(<<"notify", messages[m].clientID, messages[m].header[2]>>)
      PROVE  Policy!Next
  BY <1>1, <1>4, NotifyPolicy
<1>5. ASSUME NEW i \in Ids,
             \/ Called(<<"connect", i>>) /\ Connect(i)
             \/ Called(<<"closeConnection", i>>) /\ CloseConnection(i)
      PROVE  Policy!Next
  BY <1>5, ElsewherePolicy DEF Connect, CloseConnection
<1>6. ASSUME NEW i \in Ids,
             \/ Called(<<"registerClient", i>>) /\ RegisterClient(i)
             \/ Called(<<"removeClient", i>>) /\ RemoveClient(i)
             \/ \E t \in Types : \/ Called(<<"subscribe", i, t>>) /\ Subscribe(i, t)
                                 \/ Called(<<"unsubscribe", i, t>>) /\ Unsubscribe(i, t)
      PROVE  Policy!Next
  BY <1>1, <1>6, SubscriptionPolicy
<1>7. ASSUME NEW h \in Headers, BroadcastAlert(h), Called(<<"broadcastAlert", h[2]>>)
      PROVE  Policy!Next
  BY <1>7, AlertPolicy
<1> QED
  BY <1>2, <1>3, <1>4, <1>5, <1>6, <1>7 DEF Next

-----------------------------------------------------------------------------
\* Every reachable state is well typed.
THEOREM TypeCorrect == Spec => []TypeOK
<1>1. NInv => TypeOK
  BY DEF NInv, OwnInv, HandedInv, ClientInv, TypeOK
<1> QED
  BY <1>1, NInitial, NStep, PTL DEF Spec

\* However messages are constructed, copied, assigned, dispatched and
\* destroyed, each object has one owner, and is allocated as long as it has
\* (Message.cpp:4-22; MessageDispatcher.cpp:5-184).
THEOREM OwnershipCorrect == Spec => []SoleOwner
<1>1. NInv => SoleOwner
  BY DEF NInv, OwnInv
<1> QED
  BY <1>1, NInitial, NStep, PTL DEF Spec

\* On every path of every handler a message that is not a proper alert is
\* deleted, and neither used nor deleted after that, for messages of any types
\* and subtypes (MessageDispatcher.cpp:5-184).
THEOREM DispatchCorrect == Spec => DispatchedDeleted
<1>1. [DispatchOK]_vars =>
        [ call'[1] = "ProcessReceivedMessage" =>
            /\ ~corrupt'
            /\ \A m \in handed' \ handed : messages[m].header \in Alerts ]_vars
  BY DEF DispatchOK
<1> QED
  BY <1>1, NInitial, NStep, PTL DEF Spec, DispatchedDeleted

\* No call loses an object, apart from an alert's that has no audience or that
\* the dispatcher keeps, and what a failing allocation leaves in toJSONString
\* (Message.cpp:8-43; NotificationSystem.cpp:25-56; MessageDispatcher.cpp:54-61).
THEOREM NoLoss == Spec => NothingLost
  BY NInitial, NStep, PTL DEF Spec, NothingLost

\* Each call does to the subscriptions what its name and arguments say, and
\* clients are sent what they asked for as long as they are connected, and
\* nothing else, for any clients, types and messages
\* (NotificationSystem.cpp:13-56).
THEOREM PolicyImplemented == Spec => ImplementsPolicy
<1>1. Spec => []NInv
  BY NInitial, NStep, PTL DEF Spec
<1> QED
  BY <1>1, PolicyInitial, PolicyStep, PTL
     DEF Spec, ImplementsPolicy, Policy!Spec, abstract, audience, wants, shown
=============================================================================
