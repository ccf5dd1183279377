--------------------------- MODULE NetworkManager ---------------------------
(***************************************************************************)
(* The server's NetworkManager (src/server/NetworkManager.cpp) on top of   *)
(* the kernel's sockets.                                                   *)
(*                                                                         *)
(* The manager keeps a map of active clients and a counter for their ids.  *)
(* A TCP client owns the descriptor accept() gave it; every UDP client of  *)
(* an address family holds the one descriptor of that family's server      *)
(* socket.  The kernel part of the state is the descriptor table, where    *)
(* the lowest free number is handed out first, one input queue per socket, *)
(* and the state of each TCP peer.                                         *)
(*                                                                         *)
(* Two threads call the manager: one runs listenForConnections, which      *)
(* blocks in accept(), the other every other method.  Each call is one     *)
(* step, except receiveUDPMessage, which is one step per socket it polls.  *)
(* Messages are whole: a send() of the peer is one packet.                 *)
(***************************************************************************)
EXTENDS Integers, Sequences, FiniteSets, StdMap

CONSTANTS
  Udp4, Udp6,  \* the addresses UDP clients send from, by family
  Tcp4, Tcp6,  \* the connections TCP clients make, by family
  From,        \* connection -> the address it is made from, an endpoint
  NoAddr,      \* what recvfrom() reports on a stream socket: length 0
  Nobody,      \* no recipient
  MaxFd,       \* limit of open descriptors; 1..4 are the server sockets
  QueueCap,    \* packets a socket's input queue holds (bound)
  Payloads,    \* subset of {"good", "bad", "empty"} that peers send
  Closeable,   \* protocols whose clients closeConnection is called for
  Receivable   \* protocols whose clients receiveTCPMessage is called for

Udp == Udp4 \cup Udp6
Tcp == Tcp4 \cup Tcp6
ServerSockets == {"tcp4", "udp4", "tcp6", "udp6"}

ASSUME AddrAssumption ==
  /\ Udp4 \cap Udp6 = {} /\ Udp \cap Tcp = {} /\ Tcp4 \cap Tcp6 = {}
  /\ NoAddr \notin Udp \cup Tcp
  /\ \A a \in Tcp : From[a] \notin Udp \cup {NoAddr}
  /\ Nobody \notin Udp \cup Tcp
  /\ (ServerSockets \cup {"free"}) \cap (Udp \cup Tcp) = {}
ASSUME BoundAssumption ==
  /\ MaxFd \in Nat /\ MaxFd >= 4
  /\ QueueCap \in Nat
  /\ Payloads \subseteq {"good", "bad", "empty"}
  /\ Closeable \subseteq {"TCP", "UDP"} /\ Receivable \subseteq {"TCP", "UDP"}

VARIABLES
  phase,         \* the process: "created", "running", "exited" or "killed"
  activeClients, \* id -> ClientConnection
  nextClientID,
  fdTable,       \* descriptor -> the socket it denotes
  inbox,         \* socket -> packets the kernel has queued for it
  backlog,       \* connections that wait to be accepted
  conn,          \* connection -> its state
  call,          \* receiveUDPMessage: "idle", or "udp6" between its sockets
  received,      \* its local vector receivedMessages
  last           \* what the last call showed its caller and the peers

kernel == <<fdTable, inbox, backlog, conn>>
vars == <<phase, activeClients, nextClientID, kernel, call, received, last>>

Fd == 1..MaxFd
\* The descriptors initialize() gets, in the order it creates the sockets.
ServerFd == [tcp4 |-> 1, udp4 |-> 2, tcp6 |-> 3, udp6 |-> 4]

Sockets == ServerSockets \cup Tcp4 \* what an open descriptor may denote
Readers == {"udp4", "udp6"} \cup Tcp \* sockets with an input queue
Packet == [origin : Udp \cup Tcp, payload : {"good", "bad", "empty"}]
\* ClientConnection.  A TCP client has its connection as addr, which tells more
\* than the address that accept() gives and the code stores, From[addr].
Connection == [sock : Fd, addr : Udp \cup Tcp4 \cup {NoAddr},
               proto : {"TCP", "UDP"}]
\* A message handed to the caller, and the peer that really sent it.
Returned == [client : Nat, origin : Udp \cup Tcp]
\* op, the client it is about, the messages returned (or lost, for a call
\* that raised), and the peer that the bytes sent went to.
Event == [op : {"none", "send", "tcp", "udp", "raised"}, client : Nat,
          msgs : Seq(Returned), peer : Udp \cup Tcp \cup {NoAddr, Nobody}]

NoEvent == [op |-> "none", client |-> 0, msgs |-> <<>>, peer |-> Nobody]
Raised(msgs) == [op |-> "raised", client |-> 0, msgs |-> msgs, peer |-> Nobody]

\* NetworkManager::NetworkManager.
Init ==
  /\ phase = "created"
  /\ activeClients = EmptyMap
  /\ nextClientID = 1
  /\ fdTable = [f \in Fd |-> "free"]
  /\ inbox = [s \in Readers |-> <<>>]
  /\ backlog = {}
  /\ conn = [a \in Tcp |-> "fresh"]
  /\ call = "idle"
  /\ received = <<>>
  /\ last = NoEvent

\* initialize: the four setupSocket calls, or exit() when one of them fails.
Initialize ==
  /\ phase = "created"
  /\ \/ /\ phase' = "running"
        /\ fdTable' = [f \in Fd |-> IF f \in {ServerFd[s] : s \in ServerSockets}
                         THEN CHOOSE s \in ServerSockets : ServerFd[s] = f
                         ELSE "free"]
     \/ phase' = "exited" /\ UNCHANGED fdTable
  /\ UNCHANGED <<activeClients, nextClientID, inbox, backlog, conn,
                 call, received, last>>
-----------------------------------------------------------------------------
(* The peers and the kernel, as far as the manager can see them. *)

\* A TCP peer connects; the listening sockets complete the handshake.  It may
\* have been connected from the same address before.  An earlier connection that
\* the peer closed and the server did not is reset when the address is used again.
Connect(a) ==
  LET Earlier(b) == b # a /\ From[b] = From[a] IN
  /\ phase = "running" /\ conn[a] = "fresh"
  /\ \A b \in Tcp : Earlier(b) => conn[b] # "open"
  /\ conn' = [b \in Tcp |->
       IF b = a THEN "open"
       ELSE IF Earlier(b) /\ conn[b] = "closed" THEN "reset" ELSE conn[b]]
  /\ backlog' = backlog \cup {a}
  /\ UNCHANGED <<phase, activeClients, nextClientID, fdTable, inbox,
                 call, received, last>>

\* A connected TCP peer sends a message.
SendStream(a, p) ==
  /\ phase = "running" /\ conn[a] = "open" /\ p # "empty"
  /\ Len(inbox[a]) < QueueCap
  /\ inbox' = [inbox EXCEPT ![a] = Append(@, [origin |-> a, payload |-> p])]
  /\ UNCHANGED <<phase, activeClients, nextClientID, fdTable, backlog, conn,
                 call, received, last>>

\* A TCP peer closes its end.
PeerClose(a) ==
  /\ phase = "running" /\ conn[a] = "open"
  /\ conn' = [conn EXCEPT ![a] = "closed"]
  /\ UNCHANGED <<phase, activeClients, nextClientID, fdTable, inbox, backlog,
                 call, received, last>>

\* A datagram reaches the socket of its family, if that is open and has room;
\* otherwise it is lost, as one the network drops is.
SendDatagram(a, p) ==
  LET s == IF a \in Udp4 THEN "udp4" ELSE "udp6" IN
  /\ phase = "running" /\ fdTable[ServerFd[s]] = s
  /\ Len(inbox[s]) < QueueCap
  /\ inbox' = [inbox EXCEPT ![s] = Append(@, [origin |-> a, payload |-> p])]
  /\ UNCHANGED <<phase, activeClients, nextClientID, fdTable, backlog, conn,
                 call, received, last>>

\* send() or sendto() on descriptor f for address `to`: a datagram socket
\* uses the address, a stream socket ignores it.
Recipient(f, to) ==
  IF fdTable[f] \in {"udp4", "udp6"} THEN to
  ELSE IF fdTable[f] \in Tcp /\ conn[fdTable[f]] = "open" THEN fdTable[f]
  ELSE Nobody

\* The rest of its effect: a peer that is gone answers with a reset, sooner or
\* later, and sending on a reset connection raises SIGPIPE, which kills.
Transmit(f) ==
  LET s == fdTable[f] IN
  /\ IF s \in Tcp /\ conn[s] = "closed"
       THEN \E state \in {"closed", "reset"} : conn' = [conn EXCEPT ![s] = state]
       ELSE UNCHANGED conn
  /\ phase' = IF s \in Tcp /\ conn[s] = "reset" THEN "killed" ELSE phase
-----------------------------------------------------------------------------
\* Register, had the counter not been advanced.
RegisterSameID(f, addr, proto) ==
  /\ activeClients' = Emplace(activeClients, nextClientID,
                        [sock |-> f, addr |-> addr, proto |-> proto])
  /\ UNCHANGED nextClientID

\* Register, had the id been the size of the map, plus one.
RegisterBySize(f, addr, proto) ==
  /\ activeClients' = Emplace(activeClients, Cardinality(DOMAIN activeClients) + 1,
                        [sock |-> f, addr |-> addr, proto |-> proto])
  /\ nextClientID' = nextClientID + 1

\* activeClients.emplace(nextClientID++, ...).
Register(f, addr, proto) ==
  /\ activeClients' = Emplace(activeClients, nextClientID,
                        [sock |-> f, addr |-> addr, proto |-> proto])
  /\ nextClientID' = nextClientID + 1

\* The connections that wait at serverSocketTCPv4.
Acceptable == backlog \cap Tcp4

\* listenForConnections: accept() takes a waiting connection and the lowest
\* free descriptor; with none free it fails and nothing changes.
ListenForConnections ==
  /\ phase = "running"
  /\ \E a \in Acceptable, f \in Fd :
       /\ fdTable[f] = "free"
       /\ \A g \in 1..(f - 1) : fdTable[g] # "free"
       /\ fdTable' = [fdTable EXCEPT ![f] = a]
       /\ backlog' = backlog \ {a}
       /\ Register(f, a, "TCP")
  /\ UNCHANGED <<phase, inbox, conn, call, received, last>>

\* sendMessage.
SendMessage(c) ==
  /\ phase = "running" /\ call = "idle"
  /\ c \in DOMAIN activeClients
  /\ LET client == activeClients[c] IN
       /\ last' = [op |-> "send", client |-> c, msgs |-> <<>>,
                   peer |-> Recipient(client.sock, client.addr)]
       /\ Transmit(client.sock)
  /\ UNCHANGED <<activeClients, nextClientID, fdTable, inbox, backlog,
                 call, received>>

\* The descriptor that closeConnection closes.
SocketToClose(client) == client.sock

\* Forget, had the entry been left in the map.
ForgetNot(c) == UNCHANGED activeClients

\* activeClients.erase(it).
Forget(c) == activeClients' = Erase(activeClients, c)

\* closeConnection: close() drops what is queued on the socket.
CloseConnection(c) ==
  /\ phase = "running" /\ call = "idle"
  /\ c \in DOMAIN activeClients /\ activeClients[c].proto \in Closeable
  /\ LET f == SocketToClose(activeClients[c])
         s == fdTable[f] IN
       /\ fdTable' = [fdTable EXCEPT ![f] = "free"]
       /\ inbox' = [inbox EXCEPT ![s] = <<>>]
       /\ conn' = [conn EXCEPT ![s] = "gone"]
  /\ Forget(c)
  /\ last' = NoEvent
  /\ UNCHANGED <<phase, nextClientID, backlog, call, received>>
-----------------------------------------------------------------------------
\* The packets one recv() on socket s takes: a datagram, or whatever prefix of
\* the byte stream is there.
Taken(s) == IF s \in Tcp THEN 1..Len(inbox[s]) ELSE {1}

\* Consume, had recv() been told to peek.
Peek(s, k) == inbox' = [inbox EXCEPT ![s] = SubSeq(@, k, Len(@))]

\* recv() on socket s takes k packets.
Consume(s, k) == inbox' = [inbox EXCEPT ![s] = SubSeq(@, k + 1, Len(@))]

Readable(s) == s \in Readers /\ inbox[s] # <<>>

\* receiveTCPMessage.  It returns the first message of the bytes read, without
\* regard to who sent them, and raises on a malformed one.  A peer that closed
\* yields nullopt, as does an empty datagram or a closed descriptor.  A recv()
\* that would block, on a silent peer, is no step.
ReceiveTCPMessage(c) ==
  /\ phase = "running" /\ call = "idle"
  /\ c \in DOMAIN activeClients /\ activeClients[c].proto \in Receivable
  /\ LET s == fdTable[activeClients[c].sock]
         head == Head(inbox[s]) IN
       \/ /\ Readable(s)
          /\ \E k \in Taken(s) : Consume(s, k)
          /\ last' = CASE head.payload = "good" ->
                            [op |-> "tcp", client |-> c, peer |-> Nobody,
                             msgs |-> <<[client |-> c, origin |-> head.origin]>>]
                       [] head.payload = "bad" -> Raised(<<>>)
                       [] OTHER -> NoEvent
       \/ /\ s = "free" \/ (s \in Tcp /\ inbox[s] = <<>> /\ conn[s] # "open")
          /\ last' = NoEvent
          /\ UNCHANGED inbox
  /\ UNCHANGED <<phase, activeClients, nextClientID, fdTable, backlog, conn,
                 call, received>>

\* Matching, had the addresses not been compared.
MatchingProtocol(addr) ==
  {c \in DOMAIN activeClients : activeClients[c].proto = "UDP"}

\* The UDP clients whose stored address is the sender's.
Matching(addr) ==
  {c \in DOMAIN activeClients :
     activeClients[c].proto = "UDP" /\ activeClients[c].addr = addr}

\* NextSocket, had the call returned as soon as it has a message.
NextSocketOnlyIfNone(msgs) ==
  IF call = "idle" /\ msgs = <<>>
  THEN call' = "udp6" /\ received' = msgs /\ UNCHANGED last
  ELSE /\ call' = "idle" /\ received' = <<>>
       /\ last' = [op |-> "udp", client |-> 0, msgs |-> msgs, peer |-> Nobody]

\* handleSocket is done with one socket; msgs is the vector so far.  After the
\* IPv4 socket comes the IPv6 one, and after that the call returns.
NextSocket(msgs) ==
  IF call = "idle"
  THEN call' = "udp6" /\ received' = msgs /\ UNCHANGED last
  ELSE /\ call' = "idle" /\ received' = <<>>
       /\ last' = [op |-> "udp", client |-> 0, msgs |-> msgs, peer |-> Nobody]

\* fromJSONString threw: the call ends and its vector is destroyed.
Raise ==
  /\ call' = "idle" /\ received' = <<>>
  /\ last' = Raised(received)

\* A well-formed message: find or register its sender, keep it, acknowledge.
Accept(f, head) ==
  LET addr == IF head.origin \in Udp THEN head.origin ELSE NoAddr IN
  /\ \/ \E c \in Matching(addr) :
          /\ \A d \in Matching(addr) : c <= d
          /\ NextSocket(Append(received, [client |-> c, origin |-> head.origin]))
          /\ UNCHANGED <<activeClients, nextClientID>>
     \/ /\ Matching(addr) = {}
        /\ Register(f, addr, "UDP")
        /\ NextSocket(Append(received, [client |-> nextClientID,
                                        origin |-> head.origin]))
  /\ Transmit(f)

\* handleSocket on descriptor f, within receiveUDPMessage.
HandleSocket(f) ==
  LET s == fdTable[f]
      head == Head(inbox[s]) IN
  /\ phase = "running"
  /\ \/ /\ ~Readable(s)
        /\ NextSocket(received)
        /\ UNCHANGED <<phase, activeClients, nextClientID, inbox, conn>>
     \/ /\ Readable(s)
        /\ \E k \in Taken(s) : Consume(s, k)
        /\ \/ /\ head.payload = "empty"
              /\ NextSocket(received)
              /\ UNCHANGED <<phase, activeClients, nextClientID, conn>>
           \/ /\ head.payload = "bad"
              /\ Raise
              /\ UNCHANGED <<phase, activeClients, nextClientID, conn>>
           \/ head.payload = "good" /\ Accept(f, head)
  /\ UNCHANGED <<fdTable, backlog>>

\* receiveUDPMessage, its IPv4 and then its IPv6 socket.
ReceiveUDP4 == call = "idle" /\ HandleSocket(ServerFd.udp4)
ReceiveUDP6 == call = "udp6" /\ HandleSocket(ServerFd.udp6)
-----------------------------------------------------------------------------
Peers ==
  \/ \E a \in Tcp : Connect(a) \/ PeerClose(a)
  \/ \E a \in Tcp, p \in Payloads : SendStream(a, p)
  \/ \E a \in Udp, p \in Payloads : SendDatagram(a, p)

Caller ==
  \/ \E c \in DOMAIN activeClients :
       SendMessage(c) \/ CloseConnection(c) \/ ReceiveTCPMessage(c)
  \/ ReceiveUDP4
  \/ ReceiveUDP6

Next == Initialize \/ Peers \/ ListenForConnections \/ Caller

Spec == Init /\ [][Next]_vars

\* The two threads keep calling: the listener accepts and the other polls.
FairSpec ==
  /\ Spec
  /\ WF_vars(ListenForConnections)
  /\ WF_vars(ReceiveUDP4) /\ WF_vars(ReceiveUDP6)
-----------------------------------------------------------------------------
(* Properties. *)

\* Every variable has its type; ids in use are below the counter.
TypeOK ==
  /\ phase \in {"created", "running", "exited", "killed"}
  /\ nextClientID \in Nat \ {0}
  /\ IsMap(activeClients, 1..(nextClientID - 1), Connection)
  /\ fdTable \in [Fd -> Sockets \cup {"free"}]
  /\ inbox \in [Readers -> Seq(Packet)]
  /\ backlog \subseteq Tcp
  /\ conn \in [Tcp -> {"fresh", "open", "closed", "reset", "gone"}]
  /\ call \in {"idle", "udp6"}
  /\ received \in Seq(Returned)
  /\ last \in Event

\* The socket a client's descriptor ought to denote.
OwnSocket(client) ==
  IF client.proto = "TCP" THEN client.addr
  ELSE IF client.addr \in Udp4 THEN "udp4" ELSE "udp6"

\* The descriptor stored for a client denotes that client's socket for as long
\* as it is active, and no accepted descriptor is left without a client, over
\* any accept, close and reuse of descriptors (NetworkManager.cpp:22-27, 121-128).
DescriptorOwnership ==
  /\ \A c \in DOMAIN activeClients :
       fdTable[activeClients[c].sock] = OwnSocket(activeClients[c])
  /\ \A f \in Fd : fdTable[f] \in Tcp4 =>
       \E c \in DOMAIN activeClients :
         activeClients[c].sock = f /\ activeClients[c].proto = "TCP"

\* What sendMessage sends reaches the client named in the message or nobody,
\* never another client (NetworkManager.hpp:50).
SentToAddressee ==
  last.op = "send" => last.peer \in {activeClients[last.client].addr, Nobody}

\* A message receiveUDPMessage returns carries the id of the client that sent
\* it, however clients registered in the meantime (NetworkManager.cpp:48-67).
UdpMessagesAttributed ==
  \A msgs \in {received, IF last.op = "udp" THEN last.msgs ELSE <<>>} :
    \A i \in 1..Len(msgs) : activeClients[msgs[i].client].addr = msgs[i].origin

\* receiveTCPMessage returns what that client sent (NetworkManager.hpp:59).
ReceivedFromClient ==
  last.op = "tcp" =>
    \A i \in 1..Len(last.msgs) :
      activeClients[last.client].addr = last.msgs[i].origin

\* A message receiveUDPMessage acknowledged is among those it returns, also
\* when the call ends by an exception (NetworkManager.hpp:41-43).
AcknowledgedIsReturned == last.op = "raised" => last.msgs = <<>>

\* The clients as a directory of endpoints (see ClientDirectory): an id never
\* denotes two endpoints, not even at different times, and an address that UDP
\* messages come from is never listed twice, however often it was closed.  A TCP
\* address is: accept() lists a peer that comes back from the same address again,
\* beside its dead connection (NetworkManager.cpp:24, 48-64).
Endpoint(client) == IF client.proto = "TCP" THEN From[client.addr] ELSE client.addr
Directory ==
  INSTANCE ClientDirectory WITH
    Endpoints <- Udp \cup {NoAddr} \cup {From[a] : a \in Tcp4},
    Unique <- Udp \cup {NoAddr},
    directory <- [c \in DOMAIN activeClients |-> Endpoint(activeClients[c])],
    issued <- 1..(nextClientID - 1)
ImplementsDirectory == Directory!Spec

Registered(a) == \E c \in DOMAIN activeClients : activeClients[c].addr = a
Waiting(a) ==
  \E s \in {"udp4", "udp6"} : \E i \in 1..Len(inbox[s]) :
    inbox[s][i] = [origin |-> a, payload |-> "good"]

\* A well-formed datagram queued on the IPv4 socket gets its sender registered,
\* whatever malformed and empty ones are ahead of it and whatever comes in on
\* the IPv6 socket (NetworkManager.cpp:74-75).
Udp4Served == \A a \in Udp4 : Waiting(a) ~> (Registered(a) \/ phase = "killed")

\* So does one queued on the IPv6 socket, whatever well-formed and empty datagrams
\* come in on the IPv4 socket and how many, unless malformed ones never cease to:
\* each of these ends the call before the IPv6 socket is polled
\* (NetworkManager.cpp:45, 74-75; NetworkManager.hpp:41).
Malformed4 == \E i \in 1..Len(inbox.udp4) : inbox.udp4[i].payload = "bad"
Udp6Served ==
  <>[]~Malformed4 =>
    \A a \in Udp6 : Waiting(a) ~> (Registered(a) \/ phase = "killed")
=============================================================================
