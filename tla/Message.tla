------------------------------- MODULE Message -------------------------------
(***************************************************************************)
(* Messages (src/server/Message.cpp) and who has to free their contents.   *)
(*                                                                         *)
(* A message holds a pointer to a JSON object.  Its constructor takes the  *)
(* object over, copies duplicate it, and its destructor deletes it.  The   *)
(* object's text decides nothing here, only where the object is and who    *)
(* holds it.  Deleting what is not allocated, or copying it, corrupts the  *)
(* memory: nothing is claimed of the program from then on.                 *)
(***************************************************************************)
EXTENDS Naturals, FiniteSets, StdMap

CONSTANTS
  Contents, \* addresses of JSON objects (bound)
  Places,   \* where a message can live: variables, elements, new (bound)
  Ids,      \* client ids
  Headers,  \* the types and subtypes of the messages: <<type, subType>>
  NULL

ASSUME MessageAssumption == NULL \notin Contents /\ Ids \subseteq Nat

VARIABLES
  live,     \* the objects that are allocated
  mine,     \* those that the caller has to delete or to give to a message
  messages, \* place -> the message there
  corrupt   \* the memory is corrupt

ownership == <<live, mine, messages, corrupt>>

MessageRecord == [clientID : Ids, header : Headers, content : Contents \cup {NULL}]

MessageInit == live = {} /\ mine = {} /\ messages = EmptyMap /\ corrupt = FALSE

Free == Places \ DOMAIN messages
Msg(i, h, c) == [clientID |-> i, header |-> h, content |-> c]
Without(c) == live \ {c}
-----------------------------------------------------------------------------
\* The caller makes an object, with cJSON_CreateObject or cJSON_Parse.
CreateContent ==
  /\ \E c \in Contents \ live : live' = live \cup {c} /\ mine' = mine \cup {c}
  /\ UNCHANGED <<messages, corrupt>>

\* Message(id, type, subType, msgContent).
Construct(m, i, h) ==
  /\ m \in Free
  /\ \E c \in mine \cup {NULL} :
       messages' = Assign(messages, m, Msg(i, h, c)) /\ mine' = mine \ {c}
  /\ UNCHANGED <<live, corrupt>>

\* The address of a new object beside those of l, or NULL when memory has run
\* out.
NewObject(l) == {NULL} \cup (Contents \ l)
Added(l, c) == l \cup ({c} \ {NULL})

\* CopyOf, had the pointer been copied.
SharedCopy(c, l) == {c}

\* What cJSON_Duplicate(c, 1) may return when l is allocated.
CopyOf(c, l) == IF c = NULL THEN {NULL} ELSE NewObject(l)

\* Message(const Message&).
CopyConstruct(m, n) ==
  /\ m \in Free
  /\ \E c \in CopyOf(messages[n].content, live) :
       /\ messages' = Assign(messages, m, [messages[n] EXCEPT !.content = c])
       /\ live' = Added(live, c)
  /\ UNCHANGED <<mine, corrupt>>

\* AssignMessage, had the old object been forgotten.
AssignOver(m, n) ==
  /\ \E c \in CopyOf(messages[n].content, live) :
       /\ messages' = Assign(messages, m, [messages[n] EXCEPT !.content = c])
       /\ live' = Added(live, c)
  /\ UNCHANGED <<mine, corrupt>>

\* operator=.  The old object is deleted first, so the copy may get its
\* address.  With nothing copied it throws, and leaves the rest assigned.
AssignMessage(m, n) ==
  IF m = n THEN UNCHANGED ownership ELSE
  LET left == Without(messages[m].content) IN
  /\ \E c \in CopyOf(messages[n].content, left) :
       /\ messages' = Assign(messages, m, [messages[n] EXCEPT !.content = c])
       /\ live' = Added(left, c)
  /\ UNCHANGED <<mine, corrupt>>

\* ~Message: leaves the place free and deletes the object.
Destroy(m) ==
  /\ messages' = Erase(messages, m)
  /\ live' = Without(messages[m].content)
  /\ corrupt' = (messages[m].content \notin live \cup {NULL})
  /\ UNCHANGED mine

\* setClientID, setType and setSubType.
SetHeader(m, i, h) ==
  /\ messages' = Assign(messages, m, Msg(i, h, messages[m].content))
  /\ UNCHANGED <<live, mine, corrupt>>

\* fromJSONString of a text with all fields.  The tree that the text is parsed
\* to is deleted again, and a text that lacks one throws with nothing changed.
FromJSONString(m, i, h) ==
  /\ m \in Free
  /\ \E c \in NewObject(live) :
       messages' = Assign(messages, m, Msg(i, h, c)) /\ live' = Added(live, c)
  /\ UNCHANGED <<mine, corrupt>>

\* The text of a message, and whether all of the message is in it.
Text(msg, whole) == [clientID |-> msg.clientID, header |-> msg.header, whole |-> whole]
Outcome(aborted, texts, lost) == [aborted |-> aborted, texts |-> texts, lost |-> lost]

\* The one outcome of toJSONString when memory does not run out.
ToWholeString(msg, l) == {Outcome(FALSE, {Text(msg, msg.content # NULL)}, {})}

\* toJSONString when l is allocated: what it may come to, and the objects that
\* it leaves allocated.  It makes an object and duplicates the content into it.
\* A field that there is no memory for is not in the text; a duplicate that
\* cannot be added is deleted by nobody.  When there is no object, or no text
\* of it, a std::string is made of NULL and throws: what was made remains.
ToJSONString(msg, l) ==
  LET duplicates == IF msg.content = NULL THEN 0 ELSE 1
      Left(n) == {o \in SUBSET (Contents \ l) : Cardinality(o) <= n} IN
  ToWholeString(msg, l)
    \cup {Outcome(FALSE, {Text(msg, FALSE)}, o) : o \in Left(duplicates)}
    \cup {Outcome(TRUE, {}, o) : o \in Left(1 + duplicates)}

\* What the caller may do with the messages of its own.
MessageNext(own) ==
  \/ CreateContent
  \/ \E m \in Places, i \in Ids, h \in Headers :
       \/ Construct(m, i, h) \/ FromJSONString(m, i, h)
       \/ m \in own /\ SetHeader(m, i, h)
  \/ \E n \in own :
       \/ \E m \in Places : CopyConstruct(m, n)
       \/ \E m \in own : AssignMessage(m, n)
       \/ Destroy(n)
-----------------------------------------------------------------------------
(* Properties. *)

\* Every variable has its type.
MessageTypeOK ==
  /\ live \subseteq Contents /\ mine \subseteq Contents
  /\ IsMap(messages, Places, MessageRecord)
  /\ corrupt \in BOOLEAN

\* An object is held by one message at most or by the caller, and is allocated
\* for as long: constructing, copying, assigning and destroying messages in any
\* order frees nothing twice and uses nothing freed, also when memory runs out
\* and operator= throws (Message.hpp:26-27, 51, 61, 72).
SoleOwner ==
  /\ mine \subseteq live
  /\ \A m \in DOMAIN messages :
       LET c == messages[m].content IN
       c # NULL => /\ c \in live \ mine
                   /\ \A n \in DOMAIN messages \ {m} : messages[n].content # c
=============================================================================
