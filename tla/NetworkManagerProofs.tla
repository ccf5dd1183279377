------------------------ MODULE NetworkManagerProofs ------------------------
(***************************************************************************)
(* What is proved of NetworkManager for every set of peers, every limit of *)
(* descriptors and every queue length.                                     *)
(***************************************************************************)
EXTENDS NetworkManager, SequenceTheorems, TLAPS

\* A map stays one when a new key is put in it or a key is erased.
LEMMA EmplaceIsMap ==
  ASSUME NEW m, NEW K, NEW V, NEW L, NEW k \in L, NEW v \in V,
         IsMap(m, K, V), K \subseteq L
  PROVE  /\ IsMap(Emplace(m, k, v), L, V)
         /\ DOMAIN Emplace(m, k, v) = DOMAIN m \cup {k}
  BY DEF IsMap, Emplace, Assign

LEMMA EraseIsMap ==
  ASSUME NEW m, NEW K, NEW V, NEW k, IsMap(m, K, V)
  PROVE  /\ IsMap(Erase(m, k), K, V)
         /\ DOMAIN Erase(m, k) = DOMAIN m \ {k}
  BY DEF IsMap, Erase

\* What is left of a queue after k packets were taken is a queue.
LEMMA RestIsSeq ==
  ASSUME NEW S, NEW q \in Seq(S), NEW k \in 1..Len(q)
  PROVE  SubSeq(q, k + 1, Len(q)) \in Seq(S)
  BY SubSeqProperties

LEMMA InitTypeOK == Init => TypeOK
  BY BoundAssumption DEF Init, TypeOK, EmptyMap, IsMap, NoEvent, Event, Fd

-----------------------------------------------------------------------------
\* The steps of the kernel and of the peers preserve the types.
LEMMA PeersTypeOK == TypeOK /\ Peers => TypeOK'
<1> SUFFICES ASSUME TypeOK, Peers PROVE TypeOK'
  OBVIOUS
<1> USE DEF TypeOK
<1>1. ASSUME NEW a \in Tcp, Connect(a) PROVE TypeOK'
  BY <1>1 DEF Connect
<1>2. ASSUME NEW a \in Tcp, PeerClose(a) PROVE TypeOK'
  BY <1>2 DEF PeerClose
<1>3. ASSUME NEW s \in Readers, NEW q \in Packet,
             inbox' = [inbox EXCEPT ![s] = Append(@, q)]
      PROVE  inbox' \in [Readers -> Seq(Packet)]
  BY <1>3
<1>4. ASSUME NEW a \in Tcp, NEW p \in Payloads, SendStream(a, p) PROVE TypeOK'
  <2>1. [origin |-> a, payload |-> p] \in Packet /\ a \in Readers
    BY BoundAssumption DEF Packet, Readers
  <2>2. inbox' \in [Readers -> Seq(Packet)]
    BY <1>3, <1>4, <2>1 DEF SendStream
  <2> QED
    BY <1>4, <2>2 DEF SendStream
<1>5. ASSUME NEW a \in Udp, NEW p \in Payloads, SendDatagram(a, p) PROVE TypeOK'
  <2>1. [origin |-> a, payload |-> p] \in Packet
    BY BoundAssumption DEF Packet
  <2>2. inbox' \in [Readers -> Seq(Packet)]
    BY <1>3, <1>5, <2>1 DEF SendDatagram, Readers
  <2> QED
    BY <1>5, <2>2 DEF SendDatagram
<1> QED
  BY <1>1, <1>2, <1>4, <1>5 DEF Peers

-----------------------------------------------------------------------------
\* The pieces that the server's calls are made of.
LEMMA RegisterTypeOK ==
  ASSUME TypeOK, NEW f \in Fd, NEW addr \in Udp \cup Tcp4 \cup {NoAddr},
         NEW proto \in {"TCP", "UDP"}, Register(f, addr, proto)
  PROVE  /\ nextClientID' \in Nat \ {0}
         /\ IsMap(activeClients', 1..(nextClientID' - 1), Connection)
<1> DEFINE client == [sock |-> f, addr |-> addr, proto |-> proto]
<1>1. client \in Connection
  BY DEF Connection
<1>2. /\ nextClientID' = nextClientID + 1 /\ nextClientID \in Nat \ {0}
      /\ activeClients' = Emplace(activeClients, nextClientID, client)
      /\ IsMap(activeClients, 1..(nextClientID - 1), Connection)
  BY DEF Register, TypeOK
<1>3. /\ nextClientID \in 1..(nextClientID' - 1)
      /\ 1..(nextClientID - 1) \subseteq 1..(nextClientID' - 1)
  BY <1>2
<1> HIDE DEF client
<1>4. IsMap(activeClients', 1..(nextClientID' - 1), Connection)
  BY <1>1, <1>2, <1>3, EmplaceIsMap
<1> QED
  BY <1>2, <1>4

LEMMA TransmitTypeOK ==
  ASSUME TypeOK, NEW f \in Fd, Transmit(f), phase = "running"
  PROVE  /\ conn' \in [Tcp -> {"fresh", "open", "closed", "reset", "gone"}]
         /\ phase' \in {"created", "running", "exited", "killed"}
  BY DEF TypeOK, Transmit

LEMMA ConsumeTypeOK ==
  ASSUME TypeOK, NEW s \in Readers, Readable(s), NEW k \in Taken(s),
         Consume(s, k)
  PROVE  /\ inbox' \in [Readers -> Seq(Packet)]
         /\ Head(inbox[s]) \in Packet
<1>1. inbox[s] \in Seq(Packet) /\ inbox[s] # <<>>
  BY DEF TypeOK, Readable
<1>2. k \in 1..Len(inbox[s])
  BY <1>1 DEF Taken
<1>3. SubSeq(inbox[s], k + 1, Len(inbox[s])) \in Seq(Packet)
  BY <1>1, <1>2, RestIsSeq
<1> QED
  BY <1>1, <1>3 DEF TypeOK, Consume

LEMMA NextSocketTypeOK ==
  ASSUME TypeOK, NEW msgs \in Seq(Returned), NextSocket(msgs)
  PROVE  /\ call' \in {"idle", "udp6"}
         /\ received' \in Seq(Returned)
         /\ last' \in Event
<1>1. CASE call = "idle"
  BY <1>1 DEF TypeOK, NextSocket
<1>2. CASE call # "idle"
  <2>1. [op |-> "udp", client |-> 0, msgs |-> msgs, peer |-> Nobody] \in Event
    BY DEF Event
  <2> QED
    BY <1>2, <2>1 DEF NextSocket
<1> QED
  BY <1>1, <1>2

-----------------------------------------------------------------------------
LEMMA AcceptTypeOK ==
  ASSUME TypeOK, NEW f \in Fd, NEW head \in Packet, phase = "running",
         Accept(f, head), inbox' \in [Readers -> Seq(Packet)],
         UNCHANGED <<fdTable, backlog>>
  PROVE  TypeOK'
<1> DEFINE addr == IF head.origin \in Udp THEN head.origin ELSE NoAddr
<1>1. head.origin \in Udp \cup Tcp /\ addr \in Udp \cup Tcp4 \cup {NoAddr}
  BY DEF Packet
<1>2. /\ conn' \in [Tcp -> {"fresh", "open", "closed", "reset", "gone"}]
      /\ phase' \in {"created", "running", "exited", "killed"}
  BY TransmitTypeOK DEF Accept
<1>3. CASE \E c \in Matching(addr) :
             /\ NextSocket(Append(received, [client |-> c, origin |-> head.origin]))
             /\ UNCHANGED <<activeClients, nextClientID>>
  <2>1. PICK c \in Matching(addr) :
             /\ NextSocket(Append(received, [client |-> c, origin |-> head.origin]))
             /\ UNCHANGED <<activeClients, nextClientID>>
    BY <1>3
  <2>2. c \in Nat
    BY DEF Matching, TypeOK, IsMap
  <2>3. Append(received, [client |-> c, origin |-> head.origin]) \in Seq(Returned)
    BY <1>1, <2>2 DEF TypeOK, Returned
  <2>4. call' \in {"idle", "udp6"} /\ received' \in Seq(Returned) /\ last' \in Event
    BY <2>1, <2>3, NextSocketTypeOK
  <2> QED
    BY <1>2, <2>1, <2>4 DEF TypeOK
<1>4. CASE /\ Register(f, addr, "UDP")
           /\ NextSocket(Append(received, [client |-> nextClientID,
                                           origin |-> head.origin]))
  <2>1. Append(received, [client |-> nextClientID, origin |-> head.origin])
          \in Seq(Returned)
    BY <1>1 DEF TypeOK, Returned
  <2>2. call' \in {"idle", "udp6"} /\ received' \in Seq(Returned) /\ last' \in Event
    BY <1>4, <2>1, NextSocketTypeOK
  <2>3. /\ nextClientID' \in Nat \ {0}
        /\ IsMap(activeClients', 1..(nextClientID' - 1), Connection)
    BY <1>1, <1>4, RegisterTypeOK
  <2> QED
    BY <1>2, <2>2, <2>3 DEF TypeOK
<1> QED
  BY <1>3, <1>4 DEF Accept

LEMMA HandleSocketTypeOK ==
  ASSUME TypeOK, NEW f \in Fd, HandleSocket(f)
  PROVE  TypeOK'
<1> DEFINE s == fdTable[f]
           head == Head(inbox[s])
<1>1. CASE ~Readable(s)
  BY <1>1, NextSocketTypeOK DEF HandleSocket, TypeOK
<1>2. CASE Readable(s)
  <2>1. s \in Readers /\ phase = "running" /\ UNCHANGED <<fdTable, backlog>>
    BY <1>2 DEF Readable, HandleSocket
  <2>2. PICK k \in Taken(s) : Consume(s, k)
    BY <1>2 DEF HandleSocket
  <2>3. inbox' \in [Readers -> Seq(Packet)] /\ head \in Packet
    BY <1>2, <2>1, <2>2, ConsumeTypeOK
  <2>4. CASE /\ NextSocket(received)
             /\ UNCHANGED <<phase, activeClients, nextClientID, conn>>
    BY <2>1, <2>3, <2>4, NextSocketTypeOK DEF TypeOK
  <2>5. CASE /\ Raise
             /\ UNCHANGED <<phase, activeClients, nextClientID, conn>>
    BY <2>1, <2>3, <2>5 DEF TypeOK, Raise, Raised, Event
  <2>6. CASE Accept(f, head)
    BY <2>1, <2>3, <2>6, AcceptTypeOK
  <2> QED
    BY <1>2, <2>4, <2>5, <2>6 DEF HandleSocket
<1> QED
  BY <1>1, <1>2

-----------------------------------------------------------------------------
LEMMA InitializeTypeOK == TypeOK /\ Initialize => TypeOK'
<1> SUFFICES ASSUME TypeOK, Initialize PROVE TypeOK'
  OBVIOUS
<1>1. fdTable' \in [Fd -> Sockets \cup {"free"}]
  BY DEF Initialize, TypeOK, Sockets
<1> QED
  BY <1>1 DEF Initialize, TypeOK

LEMMA ListenTypeOK == TypeOK /\ ListenForConnections => TypeOK'
<1> SUFFICES ASSUME TypeOK, ListenForConnections PROVE TypeOK'
  OBVIOUS
<1>1. PICK a \in Acceptable, f \in Fd :
        /\ fdTable' = [fdTable EXCEPT ![f] = a]
        /\ backlog' = backlog \ {a}
        /\ Register(f, a, "TCP")
  BY DEF ListenForConnections
<1>2. a \in Tcp4
  BY DEF Acceptable
<1>3. /\ nextClientID' \in Nat \ {0}
      /\ IsMap(activeClients', 1..(nextClientID' - 1), Connection)
  BY <1>1, <1>2, RegisterTypeOK
<1>4. fdTable' \in [Fd -> Sockets \cup {"free"}]
  BY <1>1, <1>2 DEF TypeOK, Sockets
<1> QED
  BY <1>1, <1>3, <1>4 DEF ListenForConnections, TypeOK

\* What a client record holds.
LEMMA ClientType ==
  ASSUME TypeOK, NEW c \in DOMAIN activeClients
  PROVE  /\ c \in Nat /\ c < nextClientID
         /\ activeClients[c] \in Connection
         /\ activeClients[c].sock \in Fd
         /\ activeClients[c].addr \in Udp \cup Tcp4 \cup {NoAddr}
         /\ activeClients[c].proto \in {"TCP", "UDP"}
         /\ fdTable[activeClients[c].sock] \in Sockets \cup {"free"}
  BY DEF TypeOK, IsMap, Connection

LEMMA SendTypeOK ==
  ASSUME TypeOK, NEW c \in DOMAIN activeClients, SendMessage(c)
  PROVE  TypeOK'
<1> DEFINE client == activeClients[c]
           peer == Recipient(client.sock, client.addr)
<1>1. peer \in Udp \cup Tcp \cup {NoAddr, Nobody}
  BY ClientType DEF Recipient, Tcp
<1>2. last' = [op |-> "send", client |-> c, msgs |-> <<>>, peer |-> peer]
  BY DEF SendMessage
<1>3. last' \in Event
  BY <1>1, <1>2, ClientType DEF Event
<1>4. /\ conn' \in [Tcp -> {"fresh", "open", "closed", "reset", "gone"}]
      /\ phase' \in {"created", "running", "exited", "killed"}
  BY ClientType, TransmitTypeOK DEF SendMessage
<1> QED
  BY <1>3, <1>4 DEF SendMessage, TypeOK

LEMMA CloseTypeOK ==
  ASSUME TypeOK, NEW c \in DOMAIN activeClients, CloseConnection(c)
  PROVE  TypeOK'
<1> DEFINE f == SocketToClose(activeClients[c])
           s == fdTable[f]
<1>1. /\ fdTable' = [fdTable EXCEPT ![f] = "free"]
      /\ inbox' = [inbox EXCEPT ![s] = <<>>]
      /\ conn' = [conn EXCEPT ![s] = "gone"]
      /\ activeClients' = Erase(activeClients, c)
      /\ last' = NoEvent
      /\ UNCHANGED <<phase, nextClientID, backlog, call, received>>
  BY DEF CloseConnection, Forget
<1>2. IsMap(activeClients', 1..(nextClientID' - 1), Connection)
  BY <1>1, EraseIsMap DEF TypeOK
<1>3. last' \in Event
  BY <1>1 DEF NoEvent, Event
<1>4. fdTable' \in [Fd -> Sockets \cup {"free"}]
  BY <1>1 DEF TypeOK
<1>5. inbox' \in [Readers -> Seq(Packet)]
  <2>1. <<>> \in Seq(Packet)
    OBVIOUS
  <2> QED
    BY <1>1, <2>1 DEF TypeOK
<1>6. conn' \in [Tcp -> {"fresh", "open", "closed", "reset", "gone"}]
  BY <1>1 DEF TypeOK
<1> QED
  BY <1>1, <1>2, <1>3, <1>4, <1>5, <1>6 DEF TypeOK

LEMMA ReceiveTCPTypeOK ==
  ASSUME TypeOK, NEW c \in DOMAIN activeClients, ReceiveTCPMessage(c)
  PROVE  TypeOK'
<1> DEFINE s == fdTable[activeClients[c].sock]
           head == Head(inbox[s])
<1>1. NoEvent \in Event /\ Raised(<<>>) \in Event
  BY DEF NoEvent, Raised, Event
<1>2. CASE /\ Readable(s)
           /\ \E k \in Taken(s) : Consume(s, k)
           /\ last' = CASE head.payload = "good" ->
                              [op |-> "tcp", client |-> c, peer |-> Nobody,
                               msgs |-> <<[client |-> c, origin |-> head.origin]>>]
                         [] head.payload = "bad" -> Raised(<<>>)
                         [] OTHER -> NoEvent
  <2>1. inbox' \in [Readers -> Seq(Packet)] /\ head \in Packet
    BY <1>2, ConsumeTypeOK DEF Readable
  <2>2. [client |-> c, origin |-> head.origin] \in Returned
    BY <2>1, ClientType DEF Packet, Returned
  <2>3. [op |-> "tcp", client |-> c, peer |-> Nobody,
         msgs |-> <<[client |-> c, origin |-> head.origin]>>] \in Event
    BY <2>2, ClientType DEF Event
  <2>4. last' \in Event
    BY <1>1, <1>2, <2>3
  <2> QED
    BY <2>1, <2>4 DEF ReceiveTCPMessage, TypeOK
<1>3. CASE last' = NoEvent /\ UNCHANGED inbox
  BY <1>1, <1>3 DEF ReceiveTCPMessage, TypeOK
<1> QED
  BY <1>2, <1>3 DEF ReceiveTCPMessage

LEMMA NextTypeOK == TypeOK /\ [Next]_vars => TypeOK'
<1> SUFFICES ASSUME TypeOK, [Next]_vars PROVE TypeOK'
  OBVIOUS
<1>1. ServerFd.udp4 \in Fd /\ ServerFd.udp6 \in Fd
  BY BoundAssumption DEF ServerFd, Fd
<1>2. CASE UNCHANGED vars
  BY <1>2 DEF vars, kernel, TypeOK
<1>3. CASE ReceiveUDP4 \/ ReceiveUDP6
  BY <1>1, <1>3, HandleSocketTypeOK DEF ReceiveUDP4, ReceiveUDP6
<1> QED
  BY <1>2, <1>3, InitializeTypeOK, PeersTypeOK, ListenTypeOK, SendTypeOK,
     CloseTypeOK, ReceiveTCPTypeOK DEF Next, Caller

\* Every reachable state is well typed; in particular every id in the map of
\* clients was issued by the counter (NetworkManager.cpp:24, 60).
THEOREM TypeCorrect == Spec => []TypeOK
  BY InitTypeOK, NextTypeOK, PTL DEF Spec

-----------------------------------------------------------------------------
(* The clients form a directory: ids are never reused, and an address that  *)
(* UDP messages come from has one entry.                                   *)

\* What the map of clients and the waiting connections have to do with each
\* other: a connection is waiting before it is listed, and never again.
DirectoryInv ==
  /\ TypeOK
  /\ \A c \in DOMAIN activeClients :
       activeClients[c].addr \in IF activeClients[c].proto = "TCP" THEN Tcp4
                                ELSE Udp \cup {NoAddr}
  /\ \A a \in Tcp : conn[a] = "fresh" => a \notin backlog /\ ~Registered(a)
  /\ \A a \in backlog : ~Registered(a)
  /\ \A c, d \in DOMAIN activeClients :
       activeClients[c].addr = activeClients[d].addr => c = d

\* The state of ClientDirectory, as NetworkManager represents it.
listing == <<[c \in DOMAIN activeClients |-> Endpoint(activeClients[c])],
             1..(nextClientID - 1)>>

\* Registering an endpoint that is not listed issues an id for it.
LEMMA RegisterIssues ==
  ASSUME DirectoryInv, NEW f \in Fd, NEW addr \in Udp \cup Tcp4 \cup {NoAddr},
         NEW proto \in {"TCP", "UDP"}, Register(f, addr, proto), ~Registered(addr),
         addr \in IF proto = "TCP" THEN Tcp4 ELSE Udp \cup {NoAddr}
  PROVE  /\ \E e \in Udp \cup {NoAddr} \cup {From[a] : a \in Tcp4} :
              Directory!Issue(nextClientID, e)
         /\ nextClientID \in DOMAIN activeClients'
         /\ \A a : Registered(a)' <=> Registered(a) \/ a = addr
         /\ \A c \in DOMAIN activeClients' :
              activeClients'[c].addr \in IF activeClients'[c].proto = "TCP" THEN Tcp4
                                        ELSE Udp \cup {NoAddr}
         /\ \A c, d \in DOMAIN activeClients' :
              activeClients'[c].addr = activeClients'[d].addr => c = d
<1> DEFINE n == nextClientID
           client == [sock |-> f, addr |-> addr, proto |-> proto]
           e == Endpoint(client)
<1>1. n \in Nat \ {0} /\ DOMAIN activeClients \subseteq 1..(n - 1)
  BY DEF DirectoryInv, TypeOK, IsMap
<1>2. n \notin DOMAIN activeClients
  BY <1>1
<1>3. /\ activeClients' = [x \in DOMAIN activeClients \cup {n} |->
                             IF x = n THEN client ELSE activeClients[x]]
      /\ nextClientID' = n + 1
  BY <1>2 DEF Register, Emplace, Assign
<1>4. 1..(nextClientID' - 1) = 1..(n - 1) \cup {n} /\ n \notin 1..(n - 1)
  BY <1>1, <1>3
<1>5. \A a : Registered(a)' <=> Registered(a) \/ a = addr
  BY <1>2, <1>3 DEF Registered
<1>6. e \in Udp \cup {NoAddr} \cup {From[a] : a \in Tcp4} /\ Directory!Issue(n, e)
  <2>1. e = IF proto = "TCP" THEN From[addr] ELSE addr
    BY DEF Endpoint
  <2>2. ASSUME NEW i \in DOMAIN activeClients, e \in Udp \cup {NoAddr}
        PROVE  Endpoint(activeClients[i]) # e
    <3>1. proto # "TCP" /\ e = addr
      BY <2>1, <2>2, AddrAssumption DEF Tcp
    <3>2. activeClients[i].addr # addr
      BY DEF Registered
    <3>3. CASE activeClients[i].proto = "TCP"
      BY <2>2, <3>3, AddrAssumption DEF DirectoryInv, Endpoint, Tcp
    <3> QED
      BY <3>1, <3>2, <3>3 DEF Endpoint
  <2>3. [c \in DOMAIN activeClients' |-> Endpoint(activeClients'[c])]
          = [x \in DOMAIN activeClients \cup {n} |->
               IF x = n THEN e ELSE Endpoint(activeClients[x])]
    BY <1>2, <1>3
  <2>4. e \in Udp \cup {NoAddr} \cup {From[a] : a \in Tcp4}
    BY <2>1
  <2> HIDE DEF e
  <2> QED
    BY <1>4, <2>2, <2>3, <2>4 DEF Directory!Issue, Directory!Assign, Endpoint
<1>7. \A c \in DOMAIN activeClients' :
        activeClients'[c].addr \in IF activeClients'[c].proto = "TCP" THEN Tcp4
                                  ELSE Udp \cup {NoAddr}
  BY <1>2, <1>3 DEF DirectoryInv
<1>8. \A c, d \in DOMAIN activeClients' :
        activeClients'[c].addr = activeClients'[d].addr => c = d
  BY <1>2, <1>3 DEF DirectoryInv, Registered
<1> QED
  BY <1>3, <1>5, <1>6, <1>7, <1>8

LEMMA DirectoryInitial == Init => DirectoryInv /\ Directory!Init
<1> SUFFICES ASSUME Init PROVE DirectoryInv /\ Directory!Init
  OBVIOUS
<1>1. DOMAIN activeClients = {} /\ nextClientID = 1
  BY DEF Init, EmptyMap
<1>2. DirectoryInv
  BY <1>1, InitTypeOK DEF Init, DirectoryInv, Registered
<1>3. 1..(nextClientID - 1) = {}
  BY <1>1
<1>4. [c \in DOMAIN activeClients |-> Endpoint(activeClients[c])] = [k \in {} |-> k]
  BY <1>1
<1> QED
  BY <1>2, <1>3, <1>4 DEF Directory!Init, Directory!EmptyMap, Endpoint

\* A step that leaves the clients alone, adds no connection but fresh ones to
\* the waiting ones, and makes no connection fresh.
LEMMA UnlistedStep ==
  ASSUME DirectoryInv, TypeOK', UNCHANGED <<activeClients, nextClientID>>,
         \A a \in backlog' \ backlog : a \in Tcp /\ conn[a] = "fresh",
         \A a \in Tcp : conn'[a] = "fresh" => conn[a] = "fresh" /\ a \notin backlog' \ backlog
  PROVE  DirectoryInv' /\ UNCHANGED listing
<1>1. \A a : Registered(a)' <=> Registered(a)
  BY DEF Registered
<1> QED
  BY <1>1 DEF DirectoryInv, listing, Endpoint

\* A step that registers an unlisted endpoint, which then no longer waits.
LEMMA ListedStep ==
  ASSUME DirectoryInv, TypeOK', NEW f \in Fd,
         NEW addr \in Udp \cup Tcp4 \cup {NoAddr}, NEW proto \in {"TCP", "UDP"},
         Register(f, addr, proto), ~Registered(addr),
         addr \in IF proto = "TCP" THEN Tcp4 ELSE Udp \cup {NoAddr},
         backlog' \subseteq backlog, addr \notin backlog',
         addr \in Tcp => conn[addr] # "fresh",
         \A a \in Tcp : conn'[a] = "fresh" => conn[a] = "fresh"
  PROVE  DirectoryInv' /\ Directory!Next
<1>1. /\ \E e \in Udp \cup {NoAddr} \cup {From[a] : a \in Tcp4} :
           Directory!Issue(nextClientID, e)
      /\ nextClientID \in DOMAIN activeClients'
      /\ \A a : Registered(a)' <=> Registered(a) \/ a = addr
      /\ \A c \in DOMAIN activeClients' :
           activeClients'[c].addr \in IF activeClients'[c].proto = "TCP" THEN Tcp4
                                     ELSE Udp \cup {NoAddr}
      /\ \A c, d \in DOMAIN activeClients' :
           activeClients'[c].addr = activeClients'[d].addr => c = d
  BY RegisterIssues
<1>2. /\ \A a \in Tcp : conn'[a] = "fresh" => a \notin backlog' /\ ~Registered(a)'
      /\ \A a \in backlog' : ~Registered(a)'
  BY <1>1 DEF DirectoryInv
<1>3. DirectoryInv'
  BY <1>1, <1>2 DEF DirectoryInv
<1>4. Directory!Next
  BY <1>1 DEF Directory!Next
<1> QED
  BY <1>3, <1>4

-----------------------------------------------------------------------------
\* No packet makes a connection fresh.
LEMMA TransmitKeepsFresh ==
  ASSUME TypeOK, NEW f, Transmit(f)
  PROVE  \A a \in Tcp : conn'[a] = "fresh" => conn[a] = "fresh"
  BY DEF TypeOK, Transmit

LEMMA DirectoryPeers ==
  ASSUME DirectoryInv, TypeOK', Peers
  PROVE  DirectoryInv' /\ UNCHANGED listing
<1>1. TypeOK
  BY DEF DirectoryInv
<1>2. UNCHANGED <<activeClients, nextClientID>>
  BY DEF Peers, Connect, PeerClose, SendStream, SendDatagram
<1>3. ASSUME NEW a \in Tcp, Connect(a)
      PROVE  /\ \A b \in backlog' \ backlog : b \in Tcp /\ conn[b] = "fresh"
             /\ \A b \in Tcp : conn'[b] = "fresh"
                              => conn[b] = "fresh" /\ b \notin backlog' \ backlog
  BY <1>1, <1>3 DEF Connect, TypeOK
<1>4. ASSUME NEW a \in Tcp, PeerClose(a)
      PROVE  /\ backlog' = backlog
             /\ \A b \in Tcp : conn'[b] = "fresh" => conn[b] = "fresh"
  BY <1>1, <1>4 DEF PeerClose, TypeOK
<1>5. CASE UNCHANGED <<backlog, conn>>
  BY <1>2, <1>5, UnlistedStep
<1>6. CASE \E a \in Tcp : Connect(a) \/ PeerClose(a)
  BY <1>2, <1>3, <1>4, <1>6, UnlistedStep
<1> QED
  BY <1>5, <1>6 DEF Peers, SendStream, SendDatagram

LEMMA DirectoryListen ==
  ASSUME DirectoryInv, TypeOK', ListenForConnections
  PROVE  DirectoryInv' /\ Directory!Next
<1>1. PICK a \in Acceptable, f \in Fd :
        backlog' = backlog \ {a} /\ Register(f, a, "TCP")
  BY DEF ListenForConnections
<1>2. /\ a \in Tcp4 /\ a \in Tcp /\ a \in backlog /\ conn' = conn
      /\ ~Registered(a) /\ conn[a] # "fresh"
  BY DEF Acceptable, DirectoryInv, Tcp, ListenForConnections
<1> QED
  BY <1>1, <1>2, ListedStep

LEMMA DirectoryClose ==
  ASSUME DirectoryInv, TypeOK', NEW c \in DOMAIN activeClients, CloseConnection(c)
  PROVE  DirectoryInv' /\ Directory!Next
<1>1. /\ activeClients' = [x \in DOMAIN activeClients \ {c} |-> activeClients[x]]
      /\ UNCHANGED <<nextClientID, backlog>>
  BY DEF CloseConnection, Forget, Erase
<1>2. \A a : Registered(a)' => Registered(a)
  BY <1>1 DEF Registered
<1>3. \A a \in Tcp : conn'[a] = "fresh" => conn[a] = "fresh"
  BY DEF CloseConnection, DirectoryInv, TypeOK
<1>4. DirectoryInv'
  BY <1>1, <1>2, <1>3 DEF DirectoryInv
<1>5. [x \in DOMAIN activeClients' |-> Endpoint(activeClients'[x])]
        = [x \in DOMAIN activeClients \ {c} |-> Endpoint(activeClients[x])]
  BY <1>1
<1>6. Directory!Withdraw(c)
  BY <1>1, <1>5 DEF Directory!Withdraw, Directory!Erase, Endpoint
<1> QED
  BY <1>4, <1>6 DEF Directory!Next

LEMMA DirectorySocket ==
  ASSUME DirectoryInv, TypeOK', NEW f \in Fd, HandleSocket(f)
  PROVE  DirectoryInv' /\ (Directory!Next \/ UNCHANGED listing)
<1> DEFINE head == Head(inbox[fdTable[f]])
           addr == IF head.origin \in Udp THEN head.origin ELSE NoAddr
<1>1. TypeOK /\ backlog' = backlog
  BY DEF DirectoryInv, HandleSocket
<1>2. CASE UNCHANGED <<activeClients, nextClientID, conn>>
  BY <1>1, <1>2, UnlistedStep
<1>3. CASE Accept(f, head)
  <2>1. \A a \in Tcp : conn'[a] = "fresh" => conn[a] = "fresh"
    BY <1>1, <1>3, TransmitKeepsFresh DEF Accept
  <2>2. CASE UNCHANGED <<activeClients, nextClientID>>
    BY <1>1, <2>1, <2>2, UnlistedStep
  <2>3. CASE Matching(addr) = {} /\ Register(f, addr, "UDP")
    <3>1. addr \in Udp \cup {NoAddr} /\ addr \notin Tcp
      BY AddrAssumption
    <3>2. ~Registered(addr)
      BY <1>1, <2>3, <3>1, ClientType DEF Registered, Matching, DirectoryInv, Tcp
    <3>3. addr \notin backlog
      BY <1>1, <3>1 DEF TypeOK
    <3> QED
      BY <1>1, <2>1, <2>3, <3>1, <3>2, <3>3, ListedStep
  <2> QED
    BY <1>3, <2>2, <2>3 DEF Accept
<1> QED
  BY <1>2, <1>3 DEF HandleSocket

LEMMA DirectoryStep ==
  DirectoryInv /\ [Next]_vars => DirectoryInv' /\ [Directory!Next]_listing
<1> SUFFICES ASSUME DirectoryInv, [Next]_vars
             PROVE  DirectoryInv' /\ (Directory!Next \/ UNCHANGED listing)
  OBVIOUS
<1>1. TypeOK /\ TypeOK'
  BY NextTypeOK DEF DirectoryInv
<1>2. ServerFd.udp4 \in Fd /\ ServerFd.udp6 \in Fd
  BY BoundAssumption DEF ServerFd, Fd
<1>3. CASE UNCHANGED <<activeClients, nextClientID, backlog, conn>>
  BY <1>1, <1>3, UnlistedStep
<1>4. ASSUME NEW c \in DOMAIN activeClients, SendMessage(c)
      PROVE  DirectoryInv' /\ UNCHANGED listing
  <2>1. \A a \in Tcp : conn'[a] = "fresh" => conn[a] = "fresh"
    BY <1>1, <1>4, TransmitKeepsFresh DEF SendMessage
  <2> QED
    BY <1>1, <1>4, <2>1, UnlistedStep DEF SendMessage
<1>5. CASE ReceiveUDP4 \/ ReceiveUDP6
  BY <1>1, <1>2, <1>5, DirectorySocket DEF ReceiveUDP4, ReceiveUDP6
<1> QED
  BY <1>1, <1>3, <1>4, <1>5, DirectoryPeers, DirectoryListen, DirectoryClose
     DEF Next, Caller, Initialize, ReceiveTCPMessage, vars, kernel

\* The manager implements the directory: an id is never given to a second
\* endpoint, not even after it was withdrawn, and no address that UDP messages
\* come from is listed twice, however often TCP peers come back from theirs
\* (NetworkManager.cpp:24, 48-64).
THEOREM DirectoryImplemented == Spec => ImplementsDirectory
<1>1. Spec => []DirectoryInv
  BY DirectoryInitial, DirectoryStep, PTL DEF Spec
<1> QED
  BY <1>1, DirectoryInitial, DirectoryStep, PTL
     DEF Spec, ImplementsDirectory, Directory!Spec, listing, Endpoint

-----------------------------------------------------------------------------
(* Descriptors, when closeConnection is only called for TCP clients.  The  *)
(* socket of a UDP client is shared, so closing it breaks every invariant  *)
(* below (run NetworkSharedSocket).                                        *)

ClosesOnlyTcp == Closeable \subseteq {"TCP"}

\* The peers whose packets reach a socket.
Senders(s) == IF s = "udp4" THEN Udp4 ELSE IF s = "udp6" THEN Udp6 ELSE {s}
PacketOn(s) == {q \in Packet : q.origin \in Senders(s)}

OwnershipInv ==
  /\ DirectoryInv
  /\ DescriptorOwnership
  /\ phase = "created" => DOMAIN activeClients = {}
  /\ phase = "running" => fdTable[ServerFd.udp4] = "udp4" /\ fdTable[ServerFd.udp6] = "udp6"
  /\ \A c \in DOMAIN activeClients : activeClients[c].proto = "UDP" => activeClients[c].addr \in Udp
  /\ \A s \in Readers : inbox[s] \in Seq(PacketOn(s))

LEMMA OwnSocketType ==
  ASSUME OwnershipInv, NEW c \in DOMAIN activeClients
  PROVE  /\ OwnSocket(activeClients[c]) \notin {"free"}
         /\ activeClients[c].proto = "TCP" => OwnSocket(activeClients[c]) \in Tcp4
         /\ activeClients[c].proto = "UDP" => OwnSocket(activeClients[c]) \notin Tcp
  BY AddrAssumption DEF OwnershipInv, DirectoryInv, OwnSocket, ServerSockets, Tcp

\* The queues keep to their senders.
LEMMA QueuesKeepSenders ==
  ASSUME OwnershipInv, [Next]_vars
  PROVE  \A s \in Readers : inbox'[s] \in Seq(PacketOn(s))
<1>1. /\ TypeOK
      /\ \A s \in Readers : inbox[s] \in Seq(PacketOn(s))
  BY DEF OwnershipInv, DirectoryInv
<1>2. CASE UNCHANGED inbox
  BY <1>1, <1>2
<1>3. ASSUME NEW s \in Readers, NEW q \in PacketOn(s),
             inbox' = [inbox EXCEPT ![s] = Append(@, q)]
      PROVE  \A r \in Readers : inbox'[r] \in Seq(PacketOn(r))
  <2>1. \A r \in Readers : inbox'[r] = IF r = s THEN Append(inbox[s], q) ELSE inbox[r]
    BY <1>1, <1>3 DEF TypeOK
  <2>2. Append(inbox[s], q) \in Seq(PacketOn(s))
    BY <1>1
  <2> QED
    BY <1>1, <2>1, <2>2
<1>4. ASSUME NEW a \in Tcp, NEW p \in Payloads, SendStream(a, p)
      PROVE  \A r \in Readers : inbox'[r] \in Seq(PacketOn(r))
  <2>1. [origin |-> a, payload |-> p] \in PacketOn(a) /\ a \in Readers
    BY AddrAssumption, BoundAssumption
       DEF PacketOn, Packet, Senders, Readers, ServerSockets
  <2> QED
    BY <1>3, <1>4, <2>1 DEF SendStream
<1>5. ASSUME NEW a \in Udp, NEW p \in Payloads, SendDatagram(a, p)
      PROVE  \A r \in Readers : inbox'[r] \in Seq(PacketOn(r))
  <2> DEFINE s == IF a \in Udp4 THEN "udp4" ELSE "udp6"
  <2>1. [origin |-> a, payload |-> p] \in PacketOn(s) /\ s \in Readers
    BY BoundAssumption DEF PacketOn, Packet, Senders, Readers, Udp
  <2>2. inbox' = [inbox EXCEPT ![s] = Append(@, [origin |-> a, payload |-> p])]
    BY <1>5 DEF SendDatagram
  <2> HIDE DEF s
  <2> QED
    BY <1>3, <2>1, <2>2
<1>6. ASSUME NEW s, Readable(s), NEW k \in Taken(s), Consume(s, k)
      PROVE  \A r \in Readers : inbox'[r] \in Seq(PacketOn(r))
  <2>1. s \in Readers /\ inbox[s] \in Seq(PacketOn(s)) /\ inbox[s] # <<>>
    BY <1>1, <1>6 DEF Readable
  <2>2. k \in 1..Len(inbox[s])
    BY <1>6, <2>1 DEF Taken
  <2>3. SubSeq(inbox[s], k + 1, Len(inbox[s])) \in Seq(PacketOn(s))
    BY <2>1, <2>2, RestIsSeq
  <2>4. \A r \in Readers : inbox'[r] = IF r = s THEN SubSeq(inbox[s], k + 1, Len(inbox[s]))
                                       ELSE inbox[r]
    BY <1>1, <1>6, <2>1 DEF Consume, TypeOK
  <2> QED
    BY <1>1, <2>3, <2>4
<1>7. ASSUME NEW c \in DOMAIN activeClients, CloseConnection(c)
      PROVE  \A r \in Readers : inbox'[r] \in Seq(PacketOn(r))
  <2>1. PICK s : inbox' = [inbox EXCEPT ![s] = <<>>]
    BY <1>7 DEF CloseConnection
  <2>2. \A r \in Readers : inbox'[r] = IF r = s THEN <<>> ELSE inbox[r]
    BY <1>1, <2>1 DEF TypeOK
  <2>3. \A r : <<>> \in Seq(PacketOn(r))
    OBVIOUS
  <2> QED
    BY <1>1, <2>2, <2>3
<1>8. ASSUME NEW c \in DOMAIN activeClients, ReceiveTCPMessage(c)
      PROVE  \A r \in Readers : inbox'[r] \in Seq(PacketOn(r))
  BY <1>2, <1>6, <1>8 DEF ReceiveTCPMessage
<1>9. ASSUME NEW f, HandleSocket(f)
      PROVE  \A r \in Readers : inbox'[r] \in Seq(PacketOn(r))
  BY <1>2, <1>6, <1>9 DEF HandleSocket
<1> QED
  BY <1>2, <1>4, <1>5, <1>7, <1>8, <1>9
     DEF Next, Peers, Caller, Initialize, Connect, PeerClose, ListenForConnections,
         SendMessage, ReceiveUDP4, ReceiveUDP6, vars, kernel

-----------------------------------------------------------------------------
\* Registering a client for a descriptor that denotes its socket.
LEMMA RegisterOwns ==
  ASSUME OwnershipInv, NEW f \in Fd, NEW addr, NEW proto, Register(f, addr, proto),
         \A c \in DOMAIN activeClients :
           fdTable'[activeClients[c].sock] = fdTable[activeClients[c].sock],
         fdTable'[f] = OwnSocket([sock |-> f, addr |-> addr, proto |-> proto]),
         \A g \in Fd : g # f => fdTable'[g] = fdTable[g],
         fdTable'[f] \in Tcp4 => proto = "TCP",
         proto = "UDP" => addr \in Udp
  PROVE  /\ DescriptorOwnership'
         /\ \A c \in DOMAIN activeClients' :
              activeClients'[c].proto = "UDP" => activeClients'[c].addr \in Udp
<1> DEFINE n == nextClientID
           client == [sock |-> f, addr |-> addr, proto |-> proto]
<1>1. n \notin DOMAIN activeClients
  BY DEF OwnershipInv, DirectoryInv, TypeOK, IsMap
<1>2. activeClients' = [x \in DOMAIN activeClients \cup {n} |->
                          IF x = n THEN client ELSE activeClients[x]]
  BY <1>1 DEF Register, Emplace, Assign
<1>3. /\ DOMAIN activeClients' = DOMAIN activeClients \cup {n}
      /\ activeClients'[n] = client
      /\ \A c \in DOMAIN activeClients : activeClients'[c] = activeClients[c]
  BY <1>1, <1>2
<1>4. \A c \in DOMAIN activeClients' :
        fdTable'[activeClients'[c].sock] = OwnSocket(activeClients'[c])
  BY <1>3 DEF OwnershipInv, DescriptorOwnership
<1>5. ASSUME NEW g \in Fd, fdTable'[g] \in Tcp4
      PROVE  \E c \in DOMAIN activeClients' :
               activeClients'[c].sock = g /\ activeClients'[c].proto = "TCP"
  <2>1. CASE g = f
    BY <1>3, <1>5, <2>1
  <2>2. CASE g # f
    BY <1>3, <1>5, <2>2 DEF OwnershipInv, DescriptorOwnership
  <2> QED
    BY <2>1, <2>2
<1>6. DescriptorOwnership'
  BY <1>4, <1>5 DEF DescriptorOwnership, OwnSocket
<1>7. \A c \in DOMAIN activeClients' :
        activeClients'[c].proto = "UDP" => activeClients'[c].addr \in Udp
  BY <1>3 DEF OwnershipInv
<1> QED
  BY <1>6, <1>7

LEMMA ListenOwns ==
  ASSUME OwnershipInv, ListenForConnections
  PROVE  /\ DescriptorOwnership'
         /\ \A c \in DOMAIN activeClients' :
              activeClients'[c].proto = "UDP" => activeClients'[c].addr \in Udp
<1>1. PICK a \in Acceptable, f \in Fd :
        /\ fdTable[f] = "free"
        /\ fdTable' = [fdTable EXCEPT ![f] = a]
        /\ Register(f, a, "TCP")
  BY DEF ListenForConnections
<1>2. TypeOK /\ a \in Tcp4
  BY DEF Acceptable, OwnershipInv, DirectoryInv
<1>3. /\ fdTable'[f] = a
      /\ \A g \in Fd : g # f => fdTable'[g] = fdTable[g]
  BY <1>1, <1>2 DEF TypeOK
<1>4. ASSUME NEW c \in DOMAIN activeClients
      PROVE  fdTable'[activeClients[c].sock] = fdTable[activeClients[c].sock]
  <2>1. activeClients[c].sock \in Fd /\ activeClients[c].sock # f
    BY <1>1, <1>2, ClientType, OwnSocketType DEF OwnershipInv, DescriptorOwnership
  <2> QED
    BY <1>3, <2>1
<1>5. fdTable'[f] = OwnSocket([sock |-> f, addr |-> a, proto |-> "TCP"])
  BY <1>3 DEF OwnSocket
<1> QED
  BY <1>1, <1>3, <1>4, <1>5, RegisterOwns

LEMMA CloseOwns ==
  ASSUME OwnershipInv, ClosesOnlyTcp, NEW c \in DOMAIN activeClients, CloseConnection(c)
  PROVE  /\ DescriptorOwnership'
         /\ \A d \in DOMAIN activeClients' :
              activeClients'[d].proto = "UDP" => activeClients'[d].addr \in Udp
         /\ \A g \in Fd : fdTable[g] \notin Tcp => fdTable'[g] = fdTable[g]
<1> DEFINE f == activeClients[c].sock
<1>1. /\ activeClients' = [x \in DOMAIN activeClients \ {c} |-> activeClients[x]]
      /\ fdTable' = [fdTable EXCEPT ![f] = "free"]
      /\ activeClients[c].proto = "TCP"
  BY DEF CloseConnection, Forget, Erase, SocketToClose, ClosesOnlyTcp
<1>2. /\ TypeOK /\ f \in Fd /\ fdTable[f] \in Tcp4
      /\ fdTable[f] = activeClients[c].addr
  BY <1>1, ClientType, OwnSocketType
     DEF OwnershipInv, DescriptorOwnership, DirectoryInv, OwnSocket
<1>3. fdTable'[f] = "free" /\ \A g \in Fd : g # f => fdTable'[g] = fdTable[g]
  BY <1>1, <1>2 DEF TypeOK
<1>4. ASSUME NEW d \in DOMAIN activeClients, d # c
      PROVE  activeClients[d].sock \in Fd /\ activeClients[d].sock # f
  <2>1. fdTable[activeClients[d].sock] = OwnSocket(activeClients[d])
    BY DEF OwnershipInv, DescriptorOwnership
  <2>2. CASE activeClients[d].proto = "TCP"
    BY <1>2, <1>4, <2>1, <2>2, ClientType DEF OwnSocket, OwnershipInv, DirectoryInv
  <2>3. CASE activeClients[d].proto = "UDP"
    BY <1>2, <2>1, <2>3, ClientType, OwnSocketType DEF Tcp
  <2> QED
    BY <1>2, <2>2, <2>3, ClientType
<1>5. \A d \in DOMAIN activeClients' :
        fdTable'[activeClients'[d].sock] = OwnSocket(activeClients'[d])
  BY <1>1, <1>3, <1>4 DEF OwnershipInv, DescriptorOwnership
<1>6. ASSUME NEW g \in Fd, fdTable'[g] \in Tcp4
      PROVE  \E d \in DOMAIN activeClients' :
               activeClients'[d].sock = g /\ activeClients'[d].proto = "TCP"
  <2>1. g # f
    BY <1>3, <1>6, AddrAssumption DEF Tcp
  <2>2. PICK d \in DOMAIN activeClients :
          activeClients[d].sock = g /\ activeClients[d].proto = "TCP"
    BY <1>3, <1>6, <2>1 DEF OwnershipInv, DescriptorOwnership
  <2>3. d # c
    BY <2>1, <2>2
  <2> QED
    BY <1>1, <2>2, <2>3
<1>7. DescriptorOwnership'
  BY <1>5, <1>6 DEF DescriptorOwnership, OwnSocket
<1> QED
  BY <1>1, <1>2, <1>3, <1>7 DEF OwnershipInv, Tcp

\* The head of a datagram socket's queue comes from that socket's family.
LEMMA HeadSender ==
  ASSUME OwnershipInv, NEW s, Readable(s)
  PROVE  s \in Readers /\ Head(inbox[s]) \in PacketOn(s)
<1>1. s \in Readers /\ inbox[s] \in Seq(PacketOn(s)) /\ inbox[s] # <<>>
  BY DEF OwnershipInv, Readable
<1> QED
  BY <1>1

LEMMA SocketOwns ==
  ASSUME OwnershipInv, NEW s \in {"udp4", "udp6"}, HandleSocket(ServerFd[s])
  PROVE  /\ DescriptorOwnership'
         /\ \A c \in DOMAIN activeClients' :
              activeClients'[c].proto = "UDP" => activeClients'[c].addr \in Udp
<1> DEFINE f == ServerFd[s]
           head == Head(inbox[s])
           addr == head.origin
<1>1. /\ f \in Fd /\ fdTable[f] = s /\ fdTable' = fdTable
  BY BoundAssumption DEF HandleSocket, OwnershipInv, ServerFd, Fd
<1>2. CASE UNCHANGED activeClients
  BY <1>1, <1>2 DEF OwnershipInv, DescriptorOwnership, OwnSocket
<1>3. CASE Readable(s) /\ Accept(f, head) /\ ~UNCHANGED activeClients
  <2>1. head \in PacketOn(s)
    BY <1>3, HeadSender
  <2>2. addr \in Senders(s) /\ addr \in Udp
    BY <2>1 DEF PacketOn, Senders, Udp
  <2>3. Register(f, addr, "UDP")
    BY <1>3, <2>2 DEF Accept
  <2>4. OwnSocket([sock |-> f, addr |-> addr, proto |-> "UDP"]) = s
    BY <2>2, AddrAssumption DEF OwnSocket, Senders
  <2>5. s \notin Tcp4
    BY AddrAssumption DEF ServerSockets, Tcp
  <2> HIDE DEF f, addr
  <2> QED
    BY <1>1, <2>2, <2>3, <2>4, <2>5, RegisterOwns
<1> QED
  BY <1>1, <1>2, <1>3 DEF HandleSocket

LEMMA OwnershipInitial == Init => OwnershipInv
<1> SUFFICES ASSUME Init PROVE OwnershipInv
  OBVIOUS
<1>1. DOMAIN activeClients = {}
  BY DEF Init, EmptyMap
<1>2. DescriptorOwnership
  BY <1>1, AddrAssumption DEF Init, DescriptorOwnership, Tcp
<1>3. \A s \in Readers : inbox[s] \in Seq(PacketOn(s))
  BY DEF Init
<1> QED
  BY <1>1, <1>2, <1>3, DirectoryInitial DEF Init, OwnershipInv

LEMMA InitializeOwns ==
  ASSUME OwnershipInv, Initialize
  PROVE  /\ DescriptorOwnership'
         /\ phase' = "running" => /\ fdTable'[ServerFd.udp4] = "udp4"
                                  /\ fdTable'[ServerFd.udp6] = "udp6"
<1>1. DOMAIN activeClients = {} /\ activeClients' = activeClients
  BY DEF Initialize, OwnershipInv
<1>2. CASE UNCHANGED fdTable /\ phase' = "exited"
  BY <1>1, <1>2 DEF OwnershipInv, DescriptorOwnership
<1>3. CASE fdTable' = [f \in Fd |-> IF f \in {ServerFd[s] : s \in ServerSockets}
                         THEN CHOOSE s \in ServerSockets : ServerFd[s] = f
                         ELSE "free"]
  <2>1. \A f \in Fd : fdTable'[f] \in ServerSockets \cup {"free"}
    BY <1>3
  <2>2. DescriptorOwnership'
    BY <1>1, <2>1, AddrAssumption DEF DescriptorOwnership, Tcp
  <2>3. ASSUME NEW t \in ServerSockets
        PROVE  fdTable'[ServerFd[t]] = t
    <3>1. ServerFd[t] \in Fd
      BY BoundAssumption DEF ServerFd, ServerSockets, Fd
    <3>2. \A s \in ServerSockets : ServerFd[s] = ServerFd[t] => s = t
      BY DEF ServerFd, ServerSockets
    <3> QED
      BY <1>3, <3>1, <3>2
  <2> QED
    BY <2>2, <2>3 DEF ServerSockets
<1> QED
  BY <1>2, <1>3 DEF Initialize

LEMMA OwnershipStep ==
  ASSUME ClosesOnlyTcp, OwnershipInv, [Next]_vars
  PROVE  OwnershipInv'
<1>1. /\ DirectoryInv' /\ TypeOK
      /\ \A s \in Readers : inbox'[s] \in Seq(PacketOn(s))
  BY DirectoryStep, QueuesKeepSenders DEF OwnershipInv, DirectoryInv
<1> DEFINE Own == /\ DescriptorOwnership
                  /\ phase = "created" => DOMAIN activeClients = {}
                  /\ phase = "running" => /\ fdTable[ServerFd.udp4] = "udp4"
                                          /\ fdTable[ServerFd.udp6] = "udp6"
                  /\ \A c \in DOMAIN activeClients :
                       activeClients[c].proto = "UDP" => activeClients[c].addr \in Udp
<1> SUFFICES Own'
  BY <1>1 DEF OwnershipInv
<1>2. CASE UNCHANGED <<activeClients, fdTable>> /\ (phase' = phase \/ phase' = "killed")
  BY <1>2 DEF OwnershipInv, DescriptorOwnership, OwnSocket
<1>3. CASE Initialize
  <2>1. /\ phase' \in {"running", "exited"} /\ activeClients' = activeClients
        /\ phase = "created"
    BY <1>3 DEF Initialize
  <2> QED
    BY <1>3, <2>1, InitializeOwns DEF OwnershipInv
<1>4. CASE ListenForConnections
  <2>1. /\ phase = "running" /\ phase' = phase
        /\ \A g \in Fd : fdTable[g] # "free" => fdTable'[g] = fdTable[g]
    BY <1>1, <1>4 DEF ListenForConnections, TypeOK
  <2>2. ServerFd.udp4 \in Fd /\ ServerFd.udp6 \in Fd
    BY BoundAssumption DEF ServerFd, Fd
  <2> QED
    BY <1>4, <2>1, <2>2, ListenOwns DEF OwnershipInv
<1>5. ASSUME NEW c \in DOMAIN activeClients, CloseConnection(c) PROVE Own'
  <2>1. phase = "running" /\ phase' = phase
    BY <1>5 DEF CloseConnection
  <2>2. /\ ServerFd.udp4 \in Fd /\ ServerFd.udp6 \in Fd
        /\ "udp4" \notin Tcp /\ "udp6" \notin Tcp
    BY BoundAssumption, AddrAssumption DEF ServerFd, Fd, ServerSockets
  <2> QED
    BY <1>5, <2>1, <2>2, CloseOwns DEF OwnershipInv
<1>6. CASE ReceiveUDP4 \/ ReceiveUDP6
  <2>1. /\ phase = "running" /\ (phase' = phase \/ phase' = "killed")
        /\ fdTable' = fdTable
    BY <1>6 DEF ReceiveUDP4, ReceiveUDP6, HandleSocket, Accept, Transmit
  <2>2. PICK s \in {"udp4", "udp6"} : HandleSocket(ServerFd[s])
    BY <1>6 DEF ReceiveUDP4, ReceiveUDP6
  <2> QED
    BY <2>1, <2>2, SocketOwns DEF OwnershipInv
<1>7. ASSUME NEW c \in DOMAIN activeClients, SendMessage(c) \/ ReceiveTCPMessage(c)
      PROVE  Own'
  BY <1>2, <1>7 DEF SendMessage, ReceiveTCPMessage, Transmit
<1>8. CASE Peers
  BY <1>2, <1>8 DEF Peers, Connect, PeerClose, SendStream, SendDatagram
<1>9. CASE UNCHANGED vars
  BY <1>2, <1>9 DEF vars, kernel
<1> HIDE DEF Own
<1> QED
  BY <1>3, <1>4, <1>5, <1>6, <1>7, <1>8, <1>9 DEF Next, Caller

\* As long as closeConnection is called for TCP clients only, a client's
\* descriptor denotes its own socket over any reuse of descriptor numbers, and
\* no accepted descriptor leaks (NetworkManager.cpp:22-27, 121-128).
THEOREM DescriptorsOwned == ClosesOnlyTcp => (Spec => []DescriptorOwnership)
<1> SUFFICES ASSUME ClosesOnlyTcp PROVE Spec => []DescriptorOwnership
  OBVIOUS
<1>1. OwnershipInv /\ [Next]_vars => OwnershipInv'
  BY OwnershipStep
<1>2. OwnershipInv => DescriptorOwnership
  BY DEF OwnershipInv
<1> QED
  BY <1>1, <1>2, OwnershipInitial, PTL DEF Spec

-----------------------------------------------------------------------------
(* Whom a message is sent to and whom it is said to come from. *)

\* The messages are filed under the clients that sent them.
Attributed(msgs) ==
  \A i \in 1..Len(msgs) : /\ msgs[i].client \in DOMAIN activeClients
                         /\ activeClients[msgs[i].client].addr = msgs[i].origin

LastInv ==
  /\ call = "idle" => received = <<>>
  /\ Attributed(received)
  /\ last.op = "udp" => Attributed(last.msgs)
  /\ last.op = "send" => /\ last.client \in DOMAIN activeClients
                        /\ last.peer \in {activeClients[last.client].addr, Nobody}

AttributionInv == OwnershipInv /\ LastInv

\* The clients there are stay as they are.
ClientsKept ==
  \A c \in DOMAIN activeClients :
    c \in DOMAIN activeClients' /\ activeClients'[c] = activeClients[c]

LEMMA RegisterKeeps ==
  ASSUME TypeOK, NEW f, NEW addr, NEW proto, Register(f, addr, proto)
  PROVE  /\ ClientsKept
         /\ nextClientID \in DOMAIN activeClients'
         /\ activeClients'[nextClientID].addr = addr
<1>1. nextClientID \notin DOMAIN activeClients
  BY DEF TypeOK, IsMap
<1> QED
  BY <1>1 DEF Register, Emplace, Assign, ClientsKept

LEMMA KeptAttributed ==
  ASSUME ClientsKept, NEW msgs, Attributed(msgs)
  PROVE  \A i \in 1..Len(msgs) : /\ msgs[i].client \in DOMAIN activeClients'
                                /\ activeClients'[msgs[i].client].addr = msgs[i].origin
  BY DEF ClientsKept, Attributed

\* A step that leaves the vector and the last call alone.
LEMMA QuietStep ==
  ASSUME LastInv, ClientsKept, UNCHANGED <<call, received, last>>
  PROVE  LastInv'
<1>1. Attributed(received)'
  BY KeptAttributed DEF LastInv, Attributed
<1>2. last'.op = "udp" => Attributed(last.msgs)'
  BY KeptAttributed DEF LastInv, Attributed
<1> QED
  BY <1>1, <1>2 DEF LastInv, ClientsKept

LEMMA SendLast ==
  ASSUME AttributionInv, NEW c \in DOMAIN activeClients, SendMessage(c)
  PROVE  LastInv'
<1> DEFINE client == activeClients[c]
           peer == Recipient(client.sock, client.addr)
<1>1. /\ last' = [op |-> "send", client |-> c, msgs |-> <<>>, peer |-> peer]
      /\ UNCHANGED <<activeClients, call, received>>
  BY DEF SendMessage
<1>2. fdTable[client.sock] = OwnSocket(client)
  BY DEF AttributionInv, OwnershipInv, DescriptorOwnership
<1>3. peer \in {client.addr, Nobody}
  BY <1>2 DEF Recipient, OwnSocket
<1>4. /\ last'.op = "send" /\ last'.client = c /\ last'.peer = peer
  BY <1>1
<1> HIDE DEF peer
<1> QED
  BY <1>1, <1>3, <1>4 DEF AttributionInv, LastInv, Attributed

\* handleSocket is done: the vector it leaves is attributed.
LEMMA NextSocketLast ==
  ASSUME LastInv, ClientsKept, NEW msgs,
         \A i \in 1..Len(msgs) : /\ msgs[i].client \in DOMAIN activeClients'
                                /\ activeClients'[msgs[i].client].addr = msgs[i].origin,
         NextSocket(msgs)
  PROVE  LastInv'
<1>1. CASE call = "idle"
  <2>1. call' = "udp6" /\ received' = msgs /\ last' = last
    BY <1>1 DEF NextSocket
  <2>2. last'.op = "udp" => Attributed(last.msgs)'
    BY <2>1, KeptAttributed DEF LastInv, Attributed
  <2> QED
    BY <2>1, <2>2 DEF LastInv, ClientsKept, Attributed
<1>2. CASE call # "idle"
  <2>1. /\ received' = <<>>
        /\ last' = [op |-> "udp", client |-> 0, msgs |-> msgs, peer |-> Nobody]
    BY <1>2 DEF NextSocket
  <2>2. last'.op = "udp" /\ last'.msgs = msgs
    BY <2>1
  <2> QED
    BY <2>1, <2>2 DEF LastInv, Attributed
<1> QED
  BY <1>1, <1>2

LEMMA SocketLast ==
  ASSUME AttributionInv, NEW s \in {"udp4", "udp6"}, HandleSocket(ServerFd[s])
  PROVE  LastInv'
<1> DEFINE f == ServerFd[s]
           head == Head(inbox[s])
<1>1. /\ TypeOK /\ LastInv /\ Attributed(received)
      /\ fdTable[f] = s
      /\ received \in Seq(Returned)
  BY DEF HandleSocket, AttributionInv, LastInv, OwnershipInv, DirectoryInv, TypeOK
<1>2. CASE UNCHANGED activeClients /\ NextSocket(received)
  BY <1>1, <1>2, NextSocketLast DEF ClientsKept, Attributed
<1>3. CASE Raise
  BY <1>3 DEF Raise, Raised, LastInv, Attributed
<1>4. CASE Readable(s) /\ Accept(f, head)
  <2>1. head.origin \in Udp
    BY <1>1, <1>4, HeadSender DEF AttributionInv, PacketOn, Senders, Udp
  <2>2. PICK c : /\ NextSocket(Append(received, [client |-> c, origin |-> head.origin]))
                 /\ ClientsKept
                 /\ c \in DOMAIN activeClients'
                 /\ activeClients'[c].addr = head.origin
    <3>1. CASE \E c \in Matching(head.origin) :
                 /\ NextSocket(Append(received, [client |-> c, origin |-> head.origin]))
                 /\ UNCHANGED <<activeClients, nextClientID>>
      BY <3>1 DEF Matching, ClientsKept
    <3>2. CASE /\ Register(f, head.origin, "UDP")
               /\ NextSocket(Append(received, [client |-> nextClientID,
                                               origin |-> head.origin]))
      BY <1>1, <3>2, RegisterKeeps
    <3> QED
      BY <1>4, <2>1, <3>1, <3>2 DEF Accept
  <2> DEFINE m == [client |-> c, origin |-> head.origin]
             msgs == Append(received, m)
  <2>3. \A i \in 1..Len(msgs) : /\ msgs[i].client \in DOMAIN activeClients'
                               /\ activeClients'[msgs[i].client].addr = msgs[i].origin
    <3>1. Len(msgs) = Len(received) + 1 /\ Len(received) \in Nat
      BY <1>1
    <3>2. \A i \in 1..Len(msgs) : msgs[i] = IF i <= Len(received) THEN received[i] ELSE m
      BY <1>1
    <3> QED
      BY <1>1, <2>2, <3>1, <3>2, KeptAttributed
  <2>4. NextSocket(msgs) /\ ClientsKept
    BY <2>2
  <2> HIDE DEF msgs
  <2> QED
    BY <1>1, <2>3, <2>4, NextSocketLast
<1> QED
  BY <1>1, <1>2, <1>3, <1>4 DEF HandleSocket

LEMMA AttributionStep ==
  ASSUME ClosesOnlyTcp, AttributionInv, [Next]_vars
  PROVE  AttributionInv'
<1>1. OwnershipInv' /\ TypeOK /\ LastInv
  BY OwnershipStep DEF AttributionInv, OwnershipInv, DirectoryInv
<1> SUFFICES LastInv'
  BY <1>1 DEF AttributionInv
<1>2. CASE UNCHANGED <<activeClients, call, received, last>>
  BY <1>1, <1>2, QuietStep DEF ClientsKept
<1>3. CASE ListenForConnections
  BY <1>1, <1>3, QuietStep, RegisterKeeps DEF ListenForConnections
<1>4. ASSUME NEW c \in DOMAIN activeClients, CloseConnection(c) PROVE LastInv'
  BY <1>1, <1>4 DEF CloseConnection, NoEvent, LastInv, Attributed
<1>5. ASSUME NEW c \in DOMAIN activeClients, ReceiveTCPMessage(c) PROVE LastInv'
  <2>1. /\ UNCHANGED <<activeClients, call, received>>
        /\ last'.op \notin {"udp", "send"}
    BY <1>5 DEF ReceiveTCPMessage, NoEvent, Raised
  <2> QED
    BY <1>1, <2>1 DEF LastInv, Attributed
<1>6. CASE ReceiveUDP4 \/ ReceiveUDP6
  BY <1>6, SocketLast DEF ReceiveUDP4, ReceiveUDP6
<1> QED
  BY <1>2, <1>3, <1>4, <1>5, <1>6, SendLast
     DEF Next, Caller, Initialize, Peers, Connect, PeerClose, SendStream,
         SendDatagram, vars, kernel

\* As long as closeConnection is called for TCP clients only, no message is
\* sent to another client than the one it names (NetworkManager.cpp:81-96).
THEOREM MessagesReachAddressee == ClosesOnlyTcp => (Spec => []SentToAddressee)
<1> SUFFICES ASSUME ClosesOnlyTcp PROVE Spec => []SentToAddressee
  OBVIOUS
<1>1. Init => AttributionInv
  BY OwnershipInitial DEF Init, NoEvent, AttributionInv, LastInv, Attributed
<1>2. AttributionInv /\ [Next]_vars => AttributionInv'
  BY AttributionStep
<1>3. AttributionInv => SentToAddressee
  BY DEF AttributionInv, LastInv, SentToAddressee
<1> QED
  BY <1>1, <1>2, <1>3, PTL DEF Spec

\* Under the same condition every message that receiveUDPMessage returns is
\* filed under the client that sent it (NetworkManager.cpp:48-67).
THEOREM MessagesAttributed == ClosesOnlyTcp => (Spec => []UdpMessagesAttributed)
<1> SUFFICES ASSUME ClosesOnlyTcp PROVE Spec => []UdpMessagesAttributed
  OBVIOUS
<1>1. Init => AttributionInv
  BY OwnershipInitial DEF Init, NoEvent, AttributionInv, LastInv, Attributed
<1>2. AttributionInv /\ [Next]_vars => AttributionInv'
  BY AttributionStep
<1>3. AttributionInv => UdpMessagesAttributed
  BY DEF AttributionInv, LastInv, UdpMessagesAttributed, Attributed
<1> QED
  BY <1>1, <1>2, <1>3, PTL DEF Spec
-----------------------------------------------------------------------------
(* What receiveTCPMessage returns, when it is called for TCP clients only.   *)

ReceivesOnlyTcp == Receivable \subseteq {"TCP"}

\* ReceivedFromClient, and the client is still there.
ReceivedInv ==
  last.op = "tcp" =>
    /\ last.client \in DOMAIN activeClients
    /\ \A i \in 1..Len(last.msgs) :
         activeClients[last.client].addr = last.msgs[i].origin

LEMMA ReceiveReturnsOwn ==
  ASSUME ReceivesOnlyTcp, AttributionInv,
         NEW c \in DOMAIN activeClients, ReceiveTCPMessage(c)
  PROVE  ReceivedInv'
<1> DEFINE s == fdTable[activeClients[c].sock]
           head == Head(inbox[s])
<1>1. activeClients' = activeClients
  BY DEF ReceiveTCPMessage
<1>2. CASE last' = NoEvent \/ last' = Raised(<<>>)
  BY <1>2 DEF NoEvent, Raised, ReceivedInv
<1>3. CASE /\ Readable(s)
           /\ last' = [op |-> "tcp", client |-> c, peer |-> Nobody,
                       msgs |-> <<[client |-> c, origin |-> head.origin]>>]
  <2>1. /\ s = OwnSocket(activeClients[c])
        /\ activeClients[c].proto = "TCP"
    BY DEF ReceiveTCPMessage, ReceivesOnlyTcp, AttributionInv, OwnershipInv,
           DescriptorOwnership
  <2>2. s = activeClients[c].addr /\ s \in Tcp4
    BY <2>1, OwnSocketType DEF OwnSocket, AttributionInv
  <2>3. Senders(s) = {s}
    BY <2>2, AddrAssumption DEF Senders, ServerSockets, Tcp
  <2>4. inbox[s] \in Seq(PacketOn(s)) /\ inbox[s] # <<>>
    BY <1>3 DEF AttributionInv, OwnershipInv, Readable
  <2>5. head \in PacketOn(s)
    BY <2>4
  <2>6. head.origin = activeClients[c].addr
    BY <2>2, <2>3, <2>5 DEF PacketOn
  <2> HIDE DEF head
  <2>7. /\ last'.client = c /\ last'.msgs = <<[client |-> c, origin |-> head.origin]>>
    BY <1>3
  <2> QED
    BY <1>1, <2>6, <2>7 DEF ReceivedInv
<1> HIDE DEF head
<1>4. \/ last' = NoEvent \/ last' = Raised(<<>>)
      \/ /\ Readable(s)
         /\ last' = [op |-> "tcp", client |-> c, peer |-> Nobody,
                     msgs |-> <<[client |-> c, origin |-> head.origin]>>]
  BY DEF ReceiveTCPMessage, head
<1> QED
  BY <1>2, <1>3, <1>4

LEMMA ReceivedStep ==
  ASSUME ReceivesOnlyTcp, AttributionInv, ReceivedInv, [Next]_vars
  PROVE  ReceivedInv'
<1>1. TypeOK
  BY DEF AttributionInv, OwnershipInv, DirectoryInv
<1>2. CASE ClientsKept /\ UNCHANGED last
  BY <1>2 DEF ClientsKept, ReceivedInv
<1>3. CASE ListenForConnections
  BY <1>1, <1>2, <1>3, RegisterKeeps DEF ListenForConnections
<1>4. ASSUME NEW c \in DOMAIN activeClients, SendMessage(c) \/ CloseConnection(c)
      PROVE  ReceivedInv'
  <2>1. last'.op # "tcp"
    BY <1>4 DEF SendMessage, CloseConnection, NoEvent
  <2> QED
    BY <2>1 DEF ReceivedInv
<1>5. CASE ReceiveUDP4 \/ ReceiveUDP6
  <2>1. PICK f : HandleSocket(f)
    BY <1>5 DEF ReceiveUDP4, ReceiveUDP6
  <2>2. last' = last \/ last'.op # "tcp"
    <3>1. Raise \/ \E msgs : NextSocket(msgs)
      BY <2>1 DEF HandleSocket, Accept
    <3>2. Raise => last'.op = "raised"
      BY DEF Raise, Raised
    <3>3. ASSUME NEW msgs, NextSocket(msgs) PROVE last' = last \/ last'.op = "udp"
      BY <3>3 DEF NextSocket
    <3> QED
      BY <3>1, <3>2, <3>3
  <2>3. ClientsKept
    BY <1>1, <2>1, RegisterKeeps DEF HandleSocket, Accept, ClientsKept
  <2> QED
    BY <1>2, <2>2, <2>3 DEF ReceivedInv
<1> QED
  BY <1>2, <1>3, <1>4, <1>5, ReceiveReturnsOwn
     DEF Next, Caller, Initialize, Peers, Connect, PeerClose, SendStream,
         SendDatagram, vars, kernel, ClientsKept

\* As long as closeConnection and receiveTCPMessage are called for TCP clients
\* only, what receiveTCPMessage returns was sent by the client it was called
\* for, over any reuse of descriptors (NetworkManager.cpp:98-119).
THEOREM ReceivedAttributed ==
  ClosesOnlyTcp /\ ReceivesOnlyTcp => (Spec => []ReceivedFromClient)
<1> SUFFICES ASSUME ClosesOnlyTcp, ReceivesOnlyTcp
             PROVE  Spec => []ReceivedFromClient
  OBVIOUS
<1>1. Init => AttributionInv /\ ReceivedInv
  BY OwnershipInitial
     DEF Init, NoEvent, AttributionInv, LastInv, Attributed, ReceivedInv
<1>2. AttributionInv /\ ReceivedInv /\ [Next]_vars => AttributionInv' /\ ReceivedInv'
  BY AttributionStep, ReceivedStep
<1>3. ReceivedInv => ReceivedFromClient
  BY DEF ReceivedInv, ReceivedFromClient
<1> QED
  BY <1>1, <1>2, <1>3, PTL DEF Spec
=============================================================================
