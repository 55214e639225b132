------------------------------- MODULE EchoProofs ------------------------------
(***************************************************************************)
(* What the echo server sends back is what its client has sent, and nobody *)
(* is cut off, for any number of clients and any lengths of messages.      *)
(***************************************************************************)
EXTENDS Echo, TcpProofs

Units == Clients \X Nat

Stages == {"bind", "listen", "select", "receive", "send", "shutdown", "drain", "stopped",
           "destroy", "done", "killed"}

ServerType ==
  [at : Stages, socket : {"none", "bound", "listening", "closed"}, address : Nat,
   status : {"Success", "FailedToBind", "FailedToListen"}, conn : Clients \cup {NoClient},
   read : Int, buffer : Seq(Units)]

ClientStages == {"create", "connect", "send", "receive", "close", "done", "gone"}

ClientStatus == {"Success", "FailedToResolveHost", "FailedToConnectToSocket", "FailedToSend",
                 "FailedToReceive"}

ClientType == [at : ClientStages, sent : Nat, got : Seq(Units), status : ClientStatus]

TypeOK ==
  /\ stream \in [Clients -> Streams(Units)]
  /\ es \in ServerType
  /\ client \in [Clients -> ClientType]

\* A client that is connected and has not yet come to the end of the stream.
Waiting(c) == client[c].at \in {"send", "receive"}

\* What the server takes of the message of c.
Enough(c) == IF Length[c] < MaxMessageLength THEN Length[c] ELSE MaxMessageLength

ServerGone == es.at \in {"done", "killed"}

Serving == es.at \in {"receive", "send", "shutdown", "drain"}

\* The server has one connection open while it serves, and none otherwise.
ServesOne ==
  /\ Serving => es.conn \in Clients
  /\ es.at \in {"receive", "send", "shutdown"} => stream[es.conn].state["server"] = "open"
  /\ es.at = "drain" => stream[es.conn].state["server"] = "shut"
  /\ ~Serving /\ es.at # "killed" => es.conn = NoClient
  /\ ServerGone => es.socket = "closed"
  /\ \A c \in Clients :
       stream[c].state["server"] \in {"open", "shut"} => Serving /\ es.conn = c

\* The server has not received from c yet.
Unread(c) ==
  stream[c].state["server"] = "pending" \/ (es.at = "receive" /\ es.conn = c)

\* What the server has in hand for c.
InHand(c) == IF es.at = "send" /\ es.conn = c THEN es.buffer ELSE <<>>

\* Until its turn, what c has sent is on its way to the server.
AskedWhole(c) ==
  Unread(c) =>
    /\ Follows(stream[c].toward["server"], Message(c), 0)
    /\ Len(stream[c].toward["server"]) = client[c].sent
    /\ stream[c].toward["client"] = <<>> /\ client[c].got = <<>>

\* What c has received, what is on its way to it and what the server has in hand
\* are the beginning of its message, and from the receive of the server on that is
\* all it takes of a message that came in one piece.  Only a server that has
\* ended has torn down the connection of a client that waits.
EchoInOrder(c) ==
  Waiting(c) =>
    LET got == Len(client[c].got)
        way == Len(stream[c].toward["client"])
        held == Len(InHand(c))
    IN  /\ stream[c].state["client"] = "open" /\ stream[c].state["server"] # "none"
        /\ client[c].status = "Success"
        /\ stream[c].reset => ServerGone
        /\ ~stream[c].reset => stream[c].state["server"] # "closed"
        /\ Follows(stream[c].toward["client"], Message(c), got)
        /\ Follows(InHand(c), Message(c), got + way)
        /\ (got + way) + held <= MaxMessageLength
        /\ es.at \in {"send", "shutdown", "drain"} /\ es.conn = c /\ c \notin Splits =>
             (got + way) + held = Enough(c)

\* How far a client is, and what it has then.
ClientParts(c) ==
  LET me == client[c] IN
  /\ Follows(me.got, Message(c), 0) /\ Len(me.got) <= MaxMessageLength
  /\ me.sent <= Length[c]
  /\ c \notin Splits => me.sent \in {0, Length[c]}
  /\ me.at = "receive" => me.sent = Length[c]
  /\ me.at \in {"create", "connect"} =>
       stream[c] = NoStream /\ me.status = "Success" /\ me.sent = 0 /\ me.got = <<>>
  /\ me.status \in {"FailedToSend", "FailedToReceive"} => ServerGone
  /\ me.at \in {"close", "done"} /\ me.status = "Success" /\ c \notin Splits =>
       Len(me.got) = Enough(c)

\* The inductive invariant: every client gets its own message back.
EchoInv ==
  /\ TypeOK
  /\ ServesOne
  /\ \A c \in Clients : AskedWhole(c) /\ EchoInOrder(c) /\ ClientParts(c)

-----------------------------------------------------------------------------
(* What the steps do to the records of a client and of the server.         *)

\* The record of c is p, and the others are as they were.
Becomes(c, p) ==
  /\ client' \in [Clients -> ClientType] /\ client'[c] = p
  /\ \A d \in Clients \ {c} : client'[d] = client[d]

LEMMA ClientGoes ==
  ASSUME client \in [Clients -> ClientType], NEW c \in Clients, NEW at \in ClientStages,
         Goes(c, at)
  PROVE  \E p \in ClientType :
           /\ Becomes(c, p)
           /\ p.at = at /\ p.sent = client[c].sent /\ p.got = client[c].got
           /\ p.status = client[c].status
<1>1. client[c] \in ClientType
  OBVIOUS
<1>2. PICK p : p = [client[c] EXCEPT !.at = at]
  OBVIOUS
<1>3. /\ p \in ClientType /\ p.at = at /\ p.sent = client[c].sent /\ p.got = client[c].got
      /\ p.status = client[c].status
  BY <1>1, <1>2 DEF ClientType
<1>4. client' = [client EXCEPT ![c] = p]
  BY <1>2 DEF Goes
<1>5. Becomes(c, p)
  BY <1>3, <1>4 DEF Becomes
<1> QED
  BY <1>3, <1>5

LEMMA ClientFails ==
  ASSUME client \in [Clients -> ClientType], NEW c \in Clients, NEW at \in ClientStages,
         NEW status \in ClientStatus, Fails(c, at, status)
  PROVE  \E p \in ClientType :
           /\ Becomes(c, p)
           /\ p.at = at /\ p.sent = client[c].sent /\ p.got = client[c].got
           /\ p.status = status
<1>1. client[c] \in ClientType
  OBVIOUS
<1>2. PICK p : p = [client[c] EXCEPT !.at = at, !.status = status]
  OBVIOUS
<1>3. /\ p \in ClientType /\ p.at = at /\ p.sent = client[c].sent /\ p.got = client[c].got
      /\ p.status = status
  BY <1>1, <1>2 DEF ClientType
<1>4. client' = [client EXCEPT ![c] = p]
  BY <1>1, <1>2 DEF Fails, ClientType
<1>5. Becomes(c, p)
  BY <1>3, <1>4 DEF Becomes
<1> QED
  BY <1>3, <1>5

LEMMA ClientSends ==
  ASSUME client \in [Clients -> ClientType], NEW c \in Clients, NEW n \in Nat,
         client' = [client EXCEPT ![c].sent = @ + n]
  PROVE  \E p \in ClientType :
           /\ Becomes(c, p)
           /\ p.at = client[c].at /\ p.sent = client[c].sent + n /\ p.got = client[c].got
           /\ p.status = client[c].status
<1>1. client[c] \in ClientType /\ client[c].sent \in Nat
  BY DEF ClientType
<1>2. PICK m \in Nat : m = client[c].sent + n
  BY <1>1
<1>3. PICK p : p = [client[c] EXCEPT !.sent = m]
  OBVIOUS
<1>4. /\ p \in ClientType /\ p.at = client[c].at /\ p.sent = m /\ p.got = client[c].got
      /\ p.status = client[c].status
  BY <1>1, <1>3 DEF ClientType
<1>5. client' = [client EXCEPT ![c] = p]
  BY <1>2, <1>3
<1>6. Becomes(c, p)
  BY <1>4, <1>5 DEF Becomes
<1> QED
  BY <1>2, <1>4, <1>6

LEMMA ClientGets ==
  ASSUME client \in [Clients -> ClientType], NEW c \in Clients, NEW data \in Seq(Units),
         client' = [client EXCEPT ![c].got = @ \o data]
  PROVE  \E p \in ClientType :
           /\ Becomes(c, p)
           /\ p.at = client[c].at /\ p.sent = client[c].sent
           /\ Joins(p.got, client[c].got, data) /\ p.status = client[c].status
<1>1. client[c] \in ClientType /\ client[c].got \in Seq(Units)
  BY DEF ClientType
<1>2. PICK q \in Seq(Units) : q = client[c].got \o data
  BY <1>1, ConcatProperties
<1>3. PICK p : p = [client[c] EXCEPT !.got = q]
  OBVIOUS
<1>4. /\ p \in ClientType /\ p.at = client[c].at /\ p.sent = client[c].sent /\ p.got = q
      /\ p.status = client[c].status
  BY <1>1, <1>3 DEF ClientType
<1>5. client' = [client EXCEPT ![c] = p]
  BY <1>2, <1>3
<1>6. Becomes(c, p)
  BY <1>4, <1>5 DEF Becomes
<1>7. Joins(p.got, client[c].got, data)
  BY <1>2, <1>4 DEF Joins
<1> QED
  BY <1>4, <1>6, <1>7

LEMMA ServerFields ==
  ASSUME TypeOK
  PROVE  /\ es \in ServerType /\ es.read \in Int /\ es.buffer \in Seq(Units)
         /\ Len(es.buffer) \in Nat /\ es.at \in Stages
         /\ stream \in [Clients -> Streams(Units)]
BY LenProperties DEF TypeOK, ServerType

LEMMA ClientFields ==
  ASSUME TypeOK, NEW c \in Clients
  PROVE  /\ client \in [Clients -> ClientType] /\ client[c] \in ClientType
         /\ client[c].sent \in Nat /\ client[c].got \in Seq(Units)
         /\ stream \in [Clients -> Streams(Units)] /\ stream[c] \in Streams(Units)
BY DEF TypeOK, ClientType

-----------------------------------------------------------------------------
(* The units of a message.                                                 *)

LEMMA MessageFields ==
  ASSUME EchoAssumption, NEW c \in Clients
  PROVE  /\ Length[c] \in Nat /\ MaxMessageLength \in Nat \ {0}
         /\ Message(c) \in Seq(Units) /\ Len(Message(c)) = Length[c]
         /\ Follows(<<>>, Message(c), 0)
<1>1. PICK n \in Nat : n = Length[c]
  BY DEF EchoAssumption
<1>2. \A i \in 1..n : <<c, i>> \in Units
  BY DEF Units
<1>3. PICK m : m = [i \in 1..n |-> <<c, i>>]
  OBVIOUS
<1>4. m \in Seq(Units) /\ Len(m) = n
  BY <1>2, <1>3, IsASeq
<1>5. Message(c) = m
  BY <1>1, <1>3 DEF Message
<1>6. Follows(<<>>, Message(c), 0)
  <2>1. Len(<<>>) = 0 /\ 0 + 0 <= n
    BY EmptySeq
  <2> QED
    BY <1>4, <1>5, <2>1 DEF Follows
<1> QED
  BY <1>1, <1>4, <1>5, <1>6 DEF EchoAssumption

\* Nothing follows wherever something could.
LEMMA NothingFollows ==
  ASSUME NEW U, NEW u \in Seq(U), NEW q \in Seq(U), NEW n \in Nat, Follows(q, u, n)
  PROVE  Follows(<<>>, u, n)
<1>1. PICK a \in Nat : a = Len(q)
  OBVIOUS
<1>2. PICK b \in Nat : b = Len(u)
  OBVIOUS
<1>3. n + a <= b
  BY <1>1, <1>2 DEF Follows
<1>4. Len(<<>>) = 0 /\ n + 0 <= b
  BY <1>3, EmptySeq
<1> QED
  BY <1>2, <1>4 DEF Follows

\* A connection that nobody has asked for has no end at the server.
LEMMA NobodyAsked ==
  NoStream.state["server"] = "none" /\ NoStream.toward["server"] = <<>>
<1>1. NoStream.state = [s \in Sides |-> "none"] /\ NoStream.toward = [s \in Sides |-> <<>>]
  BY NoStreamFields
<1> QED
  BY <1>1 DEF Sides

-----------------------------------------------------------------------------
(* What a step leaves as it is.                                            *)

\* A client that nothing has happened to, and that the server is not busy with.
LEMMA ClientStays ==
  ASSUME NEW c \in Clients, AskedWhole(c), EchoInOrder(c), ClientParts(c),
         stream'[c] = stream[c], client'[c] = client[c],
         es' = es \/ (es.conn # c /\ es'.conn # c /\ (ServerGone => ServerGone'))
  PROVE  AskedWhole(c)' /\ EchoInOrder(c)' /\ ClientParts(c)'
<1>1. Unread(c)' = Unread(c) /\ InHand(c)' = InHand(c) /\ (ServerGone => ServerGone')
  BY DEF Unread, InHand, ServerGone
<1>2. Waiting(c)' = Waiting(c)
  BY DEF Waiting
<1>3. AskedWhole(c)'
  BY <1>1 DEF AskedWhole
<1>4. EchoInOrder(c)'
  <2>1. es'.at \in {"send", "shutdown", "drain"} /\ es'.conn = c =>
          es.at \in {"send", "shutdown", "drain"} /\ es.conn = c
    OBVIOUS
  <2> QED
    BY <1>1, <1>2, <2>1 DEF EchoInOrder
<1>5. ClientParts(c)'
  BY <1>1 DEF ClientParts
<1> QED
  BY <1>3, <1>4, <1>5

\* A step of client c.
LEMMA ClientStep ==
  ASSUME EchoInv, NEW c \in Clients, es' = es,
         NEW k \in Streams(Units), stream' = [stream EXCEPT ![c] = k],
         NEW p \in ClientType, Becomes(c, p),
         \/ k.state["server"] = stream[c].state["server"]
         \/ /\ stream[c].state["server"] \notin {"open", "shut"}
            /\ k.state["server"] \notin {"open", "shut"},
         AskedWhole(c)', EchoInOrder(c)', ClientParts(c)'
  PROVE  EchoInv'
<1>1. stream \in [Clients -> Streams(Units)]
  BY DEF EchoInv, TypeOK
<1>2. /\ stream' \in [Clients -> Streams(Units)] /\ stream'[c] = k
      /\ \A d \in Clients \ {c} : stream'[d] = stream[d]
  BY <1>1
<1>3. TypeOK'
  BY <1>2 DEF EchoInv, TypeOK, Becomes
<1>4. ServesOne'
  <2>1. Serving' = Serving /\ ServerGone' = ServerGone
    BY DEF Serving, ServerGone
  <2>2. \A d \in Clients :
          \/ stream'[d].state["server"] = stream[d].state["server"]
          \/ /\ stream[d].state["server"] \notin {"open", "shut"}
             /\ stream'[d].state["server"] \notin {"open", "shut"}
    BY <1>2
  <2> QED
    BY <2>1, <2>2 DEF EchoInv, ServesOne, Serving
<1>5. ASSUME NEW d \in Clients
      PROVE  AskedWhole(d)' /\ EchoInOrder(d)' /\ ClientParts(d)'
  <2>1. CASE d = c
    BY <2>1
  <2>2. CASE d # c
    <3>1. stream'[d] = stream[d] /\ client'[d] = client[d]
      BY <1>2, <2>2 DEF Becomes
    <3> QED
      BY <3>1, ClientStays DEF EchoInv
  <2> QED
    BY <2>1, <2>2
<1> QED
  BY <1>3, <1>4, <1>5 DEF EchoInv

\* A step of the server on the connection of c.
LEMMA ServerStep ==
  ASSUME EchoAssumption, EchoInv, NEW c \in Clients, client' = client, es' \in ServerType,
         es.conn \in {c, NoClient}, es'.conn \in {c, NoClient}, ServerGone => ServerGone',
         NEW k \in Streams(Units), stream' = [stream EXCEPT ![c] = k], ServesOne',
         AskedWhole(c)', EchoInOrder(c)', ClientParts(c)'
  PROVE  EchoInv'
<1>1. stream \in [Clients -> Streams(Units)]
  BY DEF EchoInv, TypeOK
<1>2. /\ stream' \in [Clients -> Streams(Units)] /\ stream'[c] = k
      /\ \A d \in Clients \ {c} : stream'[d] = stream[d]
  BY <1>1
<1>3. TypeOK'
  BY <1>2 DEF EchoInv, TypeOK
<1>4. ASSUME NEW d \in Clients
      PROVE  AskedWhole(d)' /\ EchoInOrder(d)' /\ ClientParts(d)'
  <2>1. CASE d = c
    BY <2>1
  <2>2. CASE d # c
    <3>1. stream'[d] = stream[d] /\ client'[d] = client[d]
      BY <1>2, <2>2
    <3>2. es.conn # d /\ es'.conn # d
      BY <2>2 DEF EchoAssumption
    <3> QED
      BY <3>1, <3>2, ClientStays DEF EchoInv
  <2> QED
    BY <2>1, <2>2
<1> QED
  BY <1>3, <1>4 DEF EchoInv

-----------------------------------------------------------------------------
(* The steps of a client.                                                  *)

LEMMA EchoInvInit == EchoAssumption /\ Init => EchoInv
<1> SUFFICES ASSUME EchoAssumption, Init PROVE EchoInv
  OBVIOUS
<1>1. es.at = "bind" /\ es.conn = NoClient /\ es \in ServerType
  BY EmptySeq DEF Init, ServerType, Stages
<1>2. \A c \in Clients : stream[c] = NoStream
        /\ client[c] = [at |-> "create", sent |-> 0, got |-> <<>>, status |-> "Success"]
  BY DEF Init
<1>3. TypeOK
  <2>1. client \in [Clients -> ClientType]
    BY EmptySeq DEF Init, ClientType, ClientStages, ClientStatus
  <2>2. stream \in [Clients -> Streams(Units)]
    BY NoStreamFields DEF Init
  <2> QED
    BY <1>1, <2>1, <2>2 DEF TypeOK
<1>4. \A c \in Clients : stream[c].state["server"] = "none"
  BY <1>2, NobodyAsked
<1>5. ServesOne
  BY <1>1, <1>4 DEF ServesOne, Serving, ServerGone
<1>6. ASSUME NEW c \in Clients
      PROVE  AskedWhole(c) /\ EchoInOrder(c) /\ ClientParts(c)
  <2>1. client[c].at = "create" /\ client[c].sent = 0 /\ client[c].got = <<>>
        /\ client[c].status = "Success"
    BY <1>2
  <2>2. AskedWhole(c) /\ EchoInOrder(c)
    BY <1>1, <1>4, <2>1 DEF AskedWhole, Unread, EchoInOrder, Waiting
  <2>3. ClientParts(c)
    <3>1. Len(<<>>) = 0 /\ 0 <= Length[c] /\ 0 <= MaxMessageLength
          /\ Follows(<<>>, Message(c), 0)
      BY MessageFields, EmptySeq
    <3>2. Follows(client[c].got, Message(c), 0) /\ Len(client[c].got) <= MaxMessageLength
      BY <2>1, <3>1
    <3> QED
      BY <1>2, <2>1, <3>1, <3>2 DEF ClientParts
  <2> QED
    BY <2>2, <2>3
<1> QED
  BY <1>3, <1>5, <1>6 DEF EchoInv

LEMMA CreateStep ==
  ASSUME EchoInv, NEW c \in Clients, Create(c)
  PROVE  EchoInv'
<1>1. es' = es /\ stream' = stream /\ client[c].at = "create"
  BY DEF Create
<1>2. client \in [Clients -> ClientType] /\ stream \in [Clients -> Streams(Units)]
  BY DEF EchoInv, TypeOK
<1>3. AskedWhole(c) /\ EchoInOrder(c) /\ ClientParts(c)
  BY DEF EchoInv
<1>4. PICK p \in ClientType :
        /\ Becomes(c, p) /\ p.sent = client[c].sent /\ p.got = client[c].got
        /\ \/ p.at = "connect" /\ p.status = client[c].status
           \/ p.at = "done" /\ p.status = "FailedToResolveHost"
  <2>1. CASE Goes(c, "connect")
    BY <1>2, <2>1, ClientGoes DEF ClientStages
  <2>2. CASE Fails(c, "done", "FailedToResolveHost")
    BY <1>2, <2>2, ClientFails DEF ClientStages, ClientStatus
  <2> QED
    BY <2>1, <2>2 DEF Create
<1>5. client'[c] = p
  BY <1>4 DEF Becomes
<1>6. PICK k \in Streams(Units) : k = stream[c]
  BY <1>2
<1>7. stream' = [stream EXCEPT ![c] = k] /\ stream'[c] = k
  BY <1>1, <1>2, <1>6
<1>8. AskedWhole(c)'
  BY <1>1, <1>3, <1>4, <1>5 DEF AskedWhole, Unread
<1>9. EchoInOrder(c)'
  BY <1>4, <1>5 DEF EchoInOrder, Waiting
<1>10. ClientParts(c)'
  BY <1>1, <1>3, <1>4, <1>5 DEF ClientParts
<1> QED
  BY <1>1, <1>4, <1>6, <1>7, <1>8, <1>9, <1>10, ClientStep

LEMMA ConnectStep ==
  ASSUME EchoAssumption, EchoInv, NEW c \in Clients, Connect(c)
  PROVE  EchoInv'
<1>1. es' = es /\ client[c].at = "connect"
  BY DEF Connect
<1>2. /\ client \in [Clients -> ClientType] /\ stream \in [Clients -> Streams(Units)]
      /\ ServesOne /\ AskedWhole(c) /\ ClientParts(c)
  BY DEF EchoInv, TypeOK
<1>3. /\ stream[c] = NoStream /\ client[c].status = "Success" /\ client[c].sent = 0
      /\ client[c].got = <<>>
  BY <1>1, <1>2 DEF ClientParts
<1>4. stream[c].state["server"] = "none"
  BY <1>3, NobodyAsked
<1>5. CASE es.socket = "listening"
  <2>1. Goes(c, "send") /\ stream' = [stream EXCEPT ![c] = Connected]
    BY <1>5 DEF Connect
  <2>2. PICK p \in ClientType :
          /\ Becomes(c, p) /\ p.at = "send" /\ p.sent = client[c].sent
          /\ p.got = client[c].got /\ p.status = client[c].status
    BY <1>2, <2>1, ClientGoes DEF ClientStages
  <2>3. client'[c] = p
    BY <2>2 DEF Becomes
  <2>4. PICK k \in Streams(Units) :
          /\ k = Connected
          /\ k.toward["client"] = <<>> /\ k.toward["server"] = <<>>
          /\ k.state["client"] = "open" /\ k.state["server"] = "pending" /\ k.reset = FALSE
    BY ConnectedFields DEF Sides
  <2>5. stream' = [stream EXCEPT ![c] = k] /\ stream'[c] = k
    BY <1>2, <2>1, <2>4
  <2>6. ~ServerGone /\ es.conn # c
    <3>1. es.conn # c
      <4>1. ~Serving => es.conn = NoClient \/ es.at = "killed"
        BY <1>2 DEF ServesOne
      <4>2. es.at # "killed"
        BY <1>2, <1>5 DEF ServesOne, ServerGone
      <4>3. Serving /\ es.conn = c => FALSE
        BY <1>2, <1>4 DEF ServesOne, Serving
      <4> QED
        BY <4>1, <4>2, <4>3 DEF EchoAssumption
    <3> QED
      BY <1>2, <1>5, <3>1 DEF ServesOne
  <2>7. Len(<<>>) = 0 /\ Follows(<<>>, Message(c), 0) /\ 0 <= MaxMessageLength
    BY MessageFields, EmptySeq
  <2>8. AskedWhole(c)'
    <3>1. Follows(k.toward["server"], Message(c), 0) /\ Len(k.toward["server"]) = 0
      BY <2>4, <2>7
    <3>2. p.sent = 0 /\ p.got = <<>>
      BY <1>3, <2>2
    <3> QED
      BY <2>3, <2>4, <2>5, <3>1, <3>2 DEF AskedWhole
  <2>9. EchoInOrder(c)'
    <3>1. InHand(c)' = <<>>
      BY <1>1, <2>6 DEF InHand
    <3>2. Len(p.got) = 0 /\ Len(k.toward["client"]) = 0 /\ Len(<<>>) = 0 /\ (0 + 0) + 0 = 0
          /\ 0 + 0 = 0
      BY <1>3, <2>2, <2>4, <2>7
    <3>3. Follows(k.toward["client"], Message(c), 0) /\ Follows(<<>>, Message(c), 0 + 0)
      BY <2>4, <2>7, <3>2
    <3>4. /\ p.status = "Success" /\ k.state["client"] = "open"
          /\ k.state["server"] = "pending" /\ k.reset = FALSE /\ es'.conn # c
      BY <1>1, <1>3, <2>2, <2>4, <2>6
    <3>5. (0 + 0) + 0 <= MaxMessageLength
      BY <2>7, <3>2
    <3> QED
      BY <2>3, <2>5, <3>1, <3>2, <3>3, <3>4, <3>5 DEF EchoInOrder
  <2>10. ClientParts(c)'
    BY <1>1, <1>2, <1>3, <2>2, <2>3 DEF ClientParts
  <2> QED
    BY <1>1, <1>4, <2>2, <2>4, <2>5, <2>8, <2>9, <2>10, ClientStep
<1>6. CASE es.socket # "listening"
  <2>1. Fails(c, "done", "FailedToConnectToSocket") /\ stream' = stream
    BY <1>6 DEF Connect
  <2>2. PICK p \in ClientType :
          /\ Becomes(c, p) /\ p.at = "done" /\ p.sent = client[c].sent
          /\ p.got = client[c].got /\ p.status = "FailedToConnectToSocket"
    BY <1>2, <2>1, ClientFails DEF ClientStages, ClientStatus
  <2>3. client'[c] = p
    BY <2>2 DEF Becomes
  <2>4. PICK k \in Streams(Units) : k = stream[c]
    BY <1>2
  <2>5. stream' = [stream EXCEPT ![c] = k] /\ stream'[c] = k
    BY <1>2, <2>1, <2>4
  <2>6. AskedWhole(c)'
    BY <1>1, <1>2, <2>1, <2>2, <2>3 DEF AskedWhole, Unread
  <2>7. EchoInOrder(c)'
    BY <2>2, <2>3 DEF EchoInOrder, Waiting
  <2>8. ClientParts(c)'
    BY <1>1, <1>2, <2>1, <2>2, <2>3 DEF ClientParts
  <2> QED
    BY <1>1, <2>2, <2>4, <2>5, <2>6, <2>7, <2>8, ClientStep
<1> QED
  BY <1>5, <1>6

\* What is received goes on being the beginning of the message.
LEMMA ReceiveStep ==
  ASSUME EchoAssumption, EchoInv, NEW c \in Clients, ReceiveAndRedirect(c)
  PROVE  EchoInv'
<1>1. es' = es /\ client[c].at = "receive"
  BY DEF ReceiveAndRedirect
<1>2. /\ client \in [Clients -> ClientType] /\ stream \in [Clients -> Streams(Units)]
      /\ client[c].got \in Seq(Units) /\ client[c].sent \in Nat
      /\ ServesOne /\ AskedWhole(c) /\ EchoInOrder(c) /\ ClientParts(c)
  BY ClientFields DEF EchoInv, TypeOK
<1>3. Waiting(c)
  BY <1>1 DEF Waiting
<1>4. PICK k \in Streams(Units) : k = stream[c]
  BY <1>2
<1>5. PICK r \in Receives(k, "client", MaxMessageLength) :
         /\ stream' = [stream EXCEPT ![c] = r.stream]
         /\ \/ r.ret > 0 /\ client' = [client EXCEPT ![c].got = @ \o r.data]
            \/ r.ret = 0 /\ Goes(c, "close")
            \/ r.ret < 0 /\ Fails(c, "close", "FailedToReceive")
  BY <1>4 DEF ReceiveAndRedirect
<1>6. PICK j : j = r.stream
  OBVIOUS
<1>7. /\ j \in Streams(Units) /\ j.state = k.state /\ j.reset = k.reset
      /\ j.toward["server"] = k.toward["server"]
      /\ r.data \in Seq(Units) /\ Joins(k.toward["client"], r.data, j.toward["client"])
      /\ \/ r.ret \in 1..MaxMessageLength /\ Len(r.data) = r.ret
         \/ r.ret = 0 /\ j = k /\ k.toward["client"] = <<>>
              /\ k.state["server"] \in {"shut", "closed"} /\ ~k.reset
         \/ r.ret = -1 /\ j = k /\ k.reset
  <2>1. "client" \in Sides /\ Peer("client") = "server"
    BY DEF Sides, Peer
  <2>2. MaxMessageLength \in Nat \ {0}
    BY MessageFields
  <2> QED
    BY <1>6, <2>1, <2>2, ReceivesFields
<1>8. stream' = [stream EXCEPT ![c] = j] /\ stream'[c] = j
  BY <1>2, <1>5, <1>6
<1>9. PICK in \in Seq(Units), rest \in Seq(Units) :
        in = k.toward["client"] /\ rest = j.toward["client"]
  BY <1>7 DEF Streams, Sides
<1>10. InHand(c)' = InHand(c) /\ ServerGone' = ServerGone
  BY <1>1 DEF InHand, ServerGone
<1>11. CASE r.ret > 0 /\ client' = [client EXCEPT ![c].got = @ \o r.data]
  <2>1. PICK data \in Seq(Units) : data = r.data
    BY <1>7
  <2>2. client' = [client EXCEPT ![c].got = @ \o data]
    BY <1>11, <2>1
  <2>3. PICK p \in ClientType :
          /\ Becomes(c, p) /\ p.at = client[c].at /\ p.sent = client[c].sent
          /\ Joins(p.got, client[c].got, data) /\ p.status = client[c].status
    BY <1>2, <2>2, ClientGets
  <2>4. client'[c] = p
    BY <2>3 DEF Becomes
  <2>5. PICK old \in Seq(Units), all \in Seq(Units) : old = client[c].got /\ all = p.got
    BY <1>2 DEF ClientType
  <2>6. Joins(in, data, rest) /\ Joins(all, old, data)
    BY <1>7, <1>9, <2>1, <2>3, <2>5
  <2>7. PICK u \in Seq(Units) : u = Message(c)
    BY MessageFields
  <2>8. Follows(old, u, 0) /\ Follows(in, u, 0 + Len(old))
    <3>1. Follows(old, u, 0)
      BY <1>2, <2>5, <2>7 DEF ClientParts
    <3>2. Follows(in, u, Len(old))
      BY <1>2, <1>3, <1>4, <1>9, <2>5, <2>7 DEF EchoInOrder
    <3>3. 0 + Len(old) = Len(old)
      OBVIOUS
    <3> QED
      BY <3>1, <3>2, <3>3
  <2>9. /\ all \in Seq(Units) /\ Len(all) + Len(rest) = Len(old) + Len(in)
        /\ Follows(all, u, 0) /\ Follows(rest, u, Len(all))
    <3>1. /\ all \in Seq(Units) /\ Len(all) + Len(rest) = Len(old) + Len(in)
          /\ Follows(all, u, 0) /\ Follows(rest, u, 0 + Len(all))
      BY <2>6, <2>8, ReceiveMoves
    <3>2. 0 + Len(all) = Len(all)
      BY <3>1
    <3> QED
      BY <3>1, <3>2
  <2>10. AskedWhole(c)'
    <3>1. ~Unread(c)
      <4>1. Len(in) = Len(data) + Len(rest)
        <5>1. 0 \in Nat
          OBVIOUS
        <5> QED
          BY <2>6, <2>7, <5>1, FollowsSplit
      <4>2. Len(data) > 0
        BY <1>7, <1>11, <2>1
      <4>3. in # <<>>
        BY <4>1, <4>2, EmptySeq
      <4> QED
        BY <1>2, <1>4, <1>9, <4>3 DEF AskedWhole
    <3>2. ~Unread(c)'
      BY <1>1, <1>4, <1>7, <1>8, <3>1 DEF Unread
    <3> QED
      BY <3>2 DEF AskedWhole
  <2>11. EchoInOrder(c)'
    <3>1. PICK held : held = InHand(c)
      OBVIOUS
    <3>2. Len(all) + Len(rest) = Len(old) + Len(in)
      BY <2>9
    <3>3. /\ k.state["client"] = "open" /\ k.state["server"] # "none"
          /\ client[c].status = "Success"
          /\ k.reset => ServerGone
          /\ ~k.reset => k.state["server"] # "closed"
          /\ Follows(held, u, Len(old) + Len(in))
          /\ (Len(old) + Len(in)) + Len(held) <= MaxMessageLength
          /\ es.at \in {"send", "shutdown", "drain"} /\ es.conn = c /\ c \notin Splits =>
               (Len(old) + Len(in)) + Len(held) = Enough(c)
      BY <1>2, <1>3, <1>4, <1>9, <2>5, <2>7, <3>1 DEF EchoInOrder
    <3>4. InHand(c)' = held
      BY <1>10, <3>1
    <3>5. /\ Follows(held, u, Len(all) + Len(rest))
          /\ (Len(all) + Len(rest)) + Len(held) <= MaxMessageLength
          /\ es.at \in {"send", "shutdown", "drain"} /\ es.conn = c /\ c \notin Splits =>
               (Len(all) + Len(rest)) + Len(held) = Enough(c)
      BY <3>2, <3>3
    <3> QED
      BY <1>1, <1>7, <1>8, <1>9, <1>10, <2>3, <2>4, <2>5, <2>7, <2>9, <3>3, <3>4, <3>5
      DEF EchoInOrder
  <2>12. ClientParts(c)'
    <3>1. Len(all) <= MaxMessageLength
      <4>1. (Len(old) + Len(in)) + Len(InHand(c)) <= MaxMessageLength
        BY <1>2, <1>3, <1>4, <1>9, <2>5 DEF EchoInOrder
      <4>2. InHand(c) \in Seq(Units)
        <5>1. es.buffer \in Seq(Units)
          BY ServerFields DEF EchoInv
        <5> QED
          BY <5>1, EmptySeq DEF InHand
      <4>3. Len(InHand(c)) \in Nat
        BY <4>2, LenProperties
      <4>4. MaxMessageLength \in Nat
        BY MessageFields
      <4> QED
        BY <2>9, <4>1, <4>3, <4>4
    <3> QED
      BY <1>1, <1>2, <1>10, <2>3, <2>4, <2>5, <2>7, <2>9, <3>1 DEF ClientParts
  <2> QED
    BY <1>1, <1>4, <1>7, <1>8, <2>3, <2>10, <2>11, <2>12, ClientStep
<1>12. ASSUME r.ret <= 0
       PROVE  j = k /\ stream'[c] = stream[c] /\ stream' = [stream EXCEPT ![c] = k]
  <2>1. MaxMessageLength \in Nat
    BY MessageFields
  <2>2. j = k
    BY <1>7, <1>12, <2>1
  <2> QED
    BY <1>4, <1>8, <2>2
<1>13. ASSUME NEW p \in ClientType, Becomes(c, p), p.got = client[c].got, p.at = "close",
              p.sent = client[c].sent, r.ret <= 0, ClientParts(c)'
       PROVE  EchoInv'
  <2>1. client'[c] = p
    BY <1>13 DEF Becomes
  <2>2. AskedWhole(c)'
    BY <1>1, <1>2, <1>12, <1>13, <2>1 DEF AskedWhole, Unread
  <2>3. EchoInOrder(c)'
    BY <1>13, <2>1 DEF EchoInOrder, Waiting
  <2> QED
    BY <1>1, <1>4, <1>12, <1>13, <2>2, <2>3, ClientStep
<1>14. CASE r.ret = 0 /\ Goes(c, "close")
  <2>1. PICK p \in ClientType :
          /\ Becomes(c, p) /\ p.at = "close" /\ p.sent = client[c].sent
          /\ p.got = client[c].got /\ p.status = client[c].status
    BY <1>2, <1>14, ClientGoes DEF ClientStages
  <2>2. client'[c] = p
    BY <2>1 DEF Becomes
  <2>3. c \notin Splits => Len(client[c].got) = Enough(c)
    <3>1. k.toward["client"] = <<>> /\ k.state["server"] \in {"shut", "closed"} /\ ~k.reset
      BY <1>7, <1>14
    <3>2. k.state["server"] = "shut"
      BY <1>2, <1>3, <1>4, <3>1 DEF EchoInOrder
    <3>3. Serving /\ es.conn = c /\ es.at = "drain"
      BY <1>2, <1>4, <3>2 DEF ServesOne, Serving
    <3>4. InHand(c) = <<>> /\ Len(<<>>) = 0
      BY <3>3, EmptySeq DEF InHand
    <3>5. Len(InHand(c)) = 0 /\ Len(k.toward["client"]) = 0
      BY <3>1, <3>4, Zenon
    <3>6. c \notin Splits =>
            (Len(client[c].got) + Len(k.toward["client"])) + Len(InHand(c)) = Enough(c)
      BY <1>2, <1>3, <1>4, <3>3 DEF EchoInOrder
    <3>7. Len(client[c].got) \in Nat
      BY <1>2
    <3> QED
      BY <3>5, <3>6, <3>7
  <2>4. ClientParts(c)'
    BY <1>1, <1>2, <1>10, <2>1, <2>2, <2>3 DEF ClientParts, Enough
  <2> QED
    BY <1>13, <1>14, <2>1, <2>4
<1>15. CASE r.ret < 0 /\ Fails(c, "close", "FailedToReceive")
  <2>1. PICK p \in ClientType :
          /\ Becomes(c, p) /\ p.at = "close" /\ p.sent = client[c].sent
          /\ p.got = client[c].got /\ p.status = "FailedToReceive"
    BY <1>2, <1>15, ClientFails DEF ClientStages, ClientStatus
  <2>2. client'[c] = p
    BY <2>1 DEF Becomes
  <2>3. ServerGone
    BY <1>2, <1>3, <1>4, <1>7, <1>15 DEF EchoInOrder
  <2>4. ClientParts(c)'
    BY <1>1, <1>2, <1>10, <2>1, <2>2, <2>3 DEF ClientParts
  <2> QED
    BY <1>7, <1>13, <1>15, <2>1, <2>4
<1> QED
  BY <1>5, <1>11, <1>14, <1>15

\* A turn of send_all_.
LEMMA SendStep ==
  ASSUME EchoAssumption, EchoInv, NEW c \in Clients, Send(c)
  PROVE  EchoInv'
<1>1. es' = es /\ client[c].at = "send"
  BY DEF Send
<1>2. /\ client \in [Clients -> ClientType] /\ stream \in [Clients -> Streams(Units)]
      /\ client[c].got \in Seq(Units) /\ client[c].sent \in Nat
      /\ AskedWhole(c) /\ EchoInOrder(c) /\ ClientParts(c)
  BY ClientFields DEF EchoInv, TypeOK
<1>3. Waiting(c)
  BY <1>1 DEF Waiting
<1>4. PICK k \in Streams(Units) : k = stream[c]
  BY <1>2
<1>5. Unread(c)' = Unread(c) \/ stream'[c].state # k.state
  BY <1>1, <1>4 DEF Unread
<1>6. InHand(c)' = InHand(c) /\ ServerGone' = ServerGone
  BY <1>1 DEF InHand, ServerGone
<1>7. PICK sent \in Nat, len \in Nat : sent = client[c].sent /\ len = Length[c] /\ sent <= len
  BY <1>2, MessageFields DEF ClientParts
<1>8. CASE sent = len
  <2>1. Goes(c, "receive") /\ stream' = stream
    BY <1>7, <1>8 DEF Send
  <2>2. PICK p \in ClientType :
          /\ Becomes(c, p) /\ p.at = "receive" /\ p.sent = client[c].sent
          /\ p.got = client[c].got /\ p.status = client[c].status
    BY <1>2, <2>1, ClientGoes DEF ClientStages
  <2>3. client'[c] = p
    BY <2>2 DEF Becomes
  <2>4. stream' = [stream EXCEPT ![c] = k] /\ stream'[c] = stream[c]
    BY <1>2, <1>4, <2>1
  <2>5. AskedWhole(c)'
    BY <1>2, <1>4, <1>5, <2>2, <2>3, <2>4 DEF AskedWhole
  <2>6. EchoInOrder(c)'
    BY <1>1, <1>2, <1>3, <1>6, <2>2, <2>3, <2>4 DEF EchoInOrder
  <2>7. ClientParts(c)'
    BY <1>1, <1>2, <1>6, <1>7, <1>8, <2>2, <2>3, <2>4 DEF ClientParts
  <2> QED
    BY <1>1, <1>4, <2>2, <2>4, <2>5, <2>6, <2>7, ClientStep
<1>9. CASE sent # len
  <2>1. PICK u \in Seq(Units) : u = Message(c) /\ Len(u) = len
    BY <1>7, MessageFields
  <2>2. PICK rest \in Seq(Units) :
          /\ rest = After(u, sent) /\ Len(rest) = len - sent
          /\ \A i \in 1..(len - sent) : rest[i] = u[sent + i]
    <3>1. sent \in 0..Len(u)
      BY <1>7, <2>1
    <3>2. PICK a : a = After(u, sent)
      OBVIOUS
    <3>3. /\ a \in Seq(Units) /\ Len(a) = Len(u) - sent
          /\ \A i \in 1..(Len(u) - sent) : a[i] = u[sent + i]
      <4>1. PICK U : U = Units
        OBVIOUS
      <4>2. u \in Seq(U)
        BY <4>1
      <4>3. /\ After(u, sent) \in Seq(U) /\ Len(After(u, sent)) = Len(u) - sent
            /\ \A i \in 1..(Len(u) - sent) : After(u, sent)[i] = u[sent + i]
        BY <3>1, <4>2, AfterFields
      <4> QED
        BY <3>2, <4>1, <4>3
    <3> QED
      BY <2>1, <3>2, <3>3
  <2>3. rest = SubSeq(Message(c), client[c].sent + 1, Length[c])
    BY <1>7, <2>1, <2>2 DEF After
  <2>4. PICK r \in Sends(k, "client", rest) :
          \/ r.ret < 0 /\ Fails(c, "close", "FailedToSend") /\ stream' = stream
          \/ /\ ~(r.ret < 0)
             /\ c \in Splits \/ r.ret = Len(rest)
             /\ client' = [client EXCEPT ![c].sent = @ + r.ret]
             /\ stream' = [stream EXCEPT ![c] = r.stream]
    BY <1>4, <1>7, <1>9, <2>3 DEF Send
  <2>5. PICK j : j = r.stream
    OBVIOUS
  <2>6. /\ j \in Streams(Units) /\ j.state = k.state
        /\ j.toward["client"] = k.toward["client"]
        /\ k.reset => r.ret = -1
        /\ ~k.reset => r.ret \in 0..Len(rest)
        /\ ~k.reset /\ k.state["server"] # "closed" =>
             /\ ~j.reset
             /\ Joins(j.toward["server"], k.toward["server"], Before(rest, r.ret))
    <3>1. "client" \in Sides /\ Peer("client") = "server"
      BY DEF Sides, Peer
    <3> QED
      BY <2>5, <3>1, SendsFields
  <2>7. k.reset \in BOOLEAN
    BY DEF Streams
  <2>8. CASE r.ret < 0 /\ Fails(c, "close", "FailedToSend") /\ stream' = stream
    <3>1. PICK p \in ClientType :
            /\ Becomes(c, p) /\ p.at = "close" /\ p.sent = client[c].sent
            /\ p.got = client[c].got /\ p.status = "FailedToSend"
      BY <1>2, <2>8, ClientFails DEF ClientStages, ClientStatus
    <3>2. client'[c] = p
      BY <3>1 DEF Becomes
    <3>3. stream' = [stream EXCEPT ![c] = k] /\ stream'[c] = stream[c]
      BY <1>2, <1>4, <2>8
    <3>4. ServerGone
      <4>1. k.reset
        BY <2>6, <2>8
      <4> QED
        BY <1>2, <1>3, <1>4, <4>1 DEF EchoInOrder
    <3>5. AskedWhole(c)'
      BY <1>2, <1>4, <1>5, <3>1, <3>2, <3>3 DEF AskedWhole
    <3>6. EchoInOrder(c)'
      BY <3>1, <3>2 DEF EchoInOrder, Waiting
    <3>7. ClientParts(c)'
      BY <1>1, <1>2, <1>6, <3>1, <3>2, <3>3, <3>4 DEF ClientParts
    <3> QED
      BY <1>1, <1>4, <3>1, <3>3, <3>5, <3>6, <3>7, ClientStep
  <2>9. CASE /\ ~(r.ret < 0)
             /\ c \in Splits \/ r.ret = Len(rest)
             /\ client' = [client EXCEPT ![c].sent = @ + r.ret]
             /\ stream' = [stream EXCEPT ![c] = r.stream]
    <3>1. ~k.reset /\ k.state["server"] # "closed" /\ k.state["client"] = "open"
          /\ k.state["server"] # "none" /\ client[c].status = "Success"
      <4>1. ~k.reset
        BY <2>6, <2>7, <2>9
      <4> QED
        BY <1>2, <1>3, <1>4, <4>1 DEF EchoInOrder
    <3>2. PICK n \in Nat : n = r.ret /\ n <= len - sent /\ n \in 0..Len(rest)
      BY <2>2, <2>6, <3>1
    <3>3. client' = [client EXCEPT ![c].sent = @ + n]
      BY <2>9, <3>2
    <3>4. PICK p \in ClientType :
            /\ Becomes(c, p) /\ p.at = client[c].at /\ p.sent = client[c].sent + n
            /\ p.got = client[c].got /\ p.status = client[c].status
      <4>1. n \in Nat
        OBVIOUS
      <4>2. client \in [Clients -> ClientType]
        BY <1>2
      <4> HIDE <3>2
      <4> QED
        BY <3>3, <4>1, <4>2, ClientSends
    <3>5. client'[c] = p /\ p.sent = sent + n
      BY <1>7, <3>4 DEF Becomes
    <3>6. stream' = [stream EXCEPT ![c] = j] /\ stream'[c] = j
      BY <1>2, <2>5, <2>6, <2>9
    <3>7. PICK in \in Seq(Units), all \in Seq(Units) :
            in = k.toward["server"] /\ all = j.toward["server"]
      BY <2>6 DEF Streams, Sides
    <3>8. AskedWhole(c)'
      <4> SUFFICES ASSUME Unread(c)
                   PROVE  AskedWhole(c)'
        BY <1>1, <1>4, <2>6, <3>6 DEF AskedWhole, Unread
      <4>1. /\ Follows(in, u, 0) /\ Len(in) = sent
            /\ k.toward["client"] = <<>> /\ client[c].got = <<>>
        BY <1>2, <1>4, <1>7, <2>1, <3>7 DEF AskedWhole
      <4>2. Follows(rest, u, 0 + sent)
        <5>1. 0 + sent = sent
          OBVIOUS
        <5>2. \A i \in 1..(len - sent) : rest[i] = u[sent + i]
          BY <2>2
        <5>3. sent + (len - sent) <= len
          OBVIOUS
        <5> QED
          BY <2>1, <2>2, <5>1, <5>2, <5>3 DEF Follows
      <4>3. Joins(all, in, Before(rest, n))
        BY <2>6, <3>1, <3>2, <3>7
      <4>4. Follows(in, u, 0) /\ Follows(rest, u, 0 + Len(in)) /\ 0 \in Nat
        BY <4>1, <4>2
      <4>5. /\ all \in Seq(Units) /\ Len(all) + Len(After(rest, n)) = Len(in) + Len(rest)
            /\ Follows(all, u, 0)
        <5>1. PICK q : q = After(rest, n)
          OBVIOUS
        <5>2. n \in 0..Len(rest)
          BY <3>2
        <5>3. PICK z \in Nat : z = 0
          OBVIOUS
        <5>4. Follows(in, u, z) /\ Follows(rest, u, z + Len(in))
          BY <4>4, <5>3
        <5>5. PICK U : U = Units
          OBVIOUS
        <5>6. u \in Seq(U) /\ in \in Seq(U) /\ rest \in Seq(U)
          BY <5>5
        <5>7. PICK w : w = all
          OBVIOUS
        <5>8. Joins(w, in, Before(rest, n))
          BY <4>3, <5>7
        <5>9. /\ w \in Seq(U) /\ Len(w) + Len(q) = Len(in) + Len(rest)
              /\ Follows(w, u, z)
          BY <5>1, <5>2, <5>4, <5>6, <5>8, SendMoves, SMTT(30)
        <5> QED
          BY <5>1, <5>3, <5>5, <5>7, <5>9
      <4>6. Len(After(rest, n)) = (len - sent) - n
        <5>1. n \in 0..Len(rest)
          BY <3>2
        <5>2. Len(After(rest, n)) = Len(rest) - n
          BY <5>1, AfterFields
        <5> QED
          BY <2>2, <5>2
      <4>7. Len(all) = sent + n
        <5>1. PICK a \in Nat : a = Len(all)
          BY <4>5
        <5>2. a + ((len - sent) - n) = sent + (len - sent)
          BY <2>2, <4>1, <4>5, <4>6, <5>1
        <5> QED
          BY <5>1, <5>2
      <4> QED
        BY <2>1, <2>6, <3>4, <3>5, <3>6, <3>7, <4>1, <4>5, <4>7 DEF AskedWhole
    <3>9. EchoInOrder(c)'
      <4>1. ~j.reset
        BY <2>6, <3>1
      <4>2. /\ stream'[c].toward["client"] = stream[c].toward["client"]
            /\ stream'[c].state = stream[c].state
        BY <1>4, <2>6, <3>6
      <4> QED
        BY <1>1, <1>2, <1>3, <1>4, <1>6, <3>1, <3>4, <3>5, <3>6, <4>1, <4>2
        DEF EchoInOrder
    <3>10. ClientParts(c)'
      <4>1. sent + n <= len
        BY <3>2
      <4>2. c \notin Splits => sent + n = len
        BY <2>2, <2>9, <3>2
      <4> QED
        BY <1>1, <1>2, <1>6, <1>7, <3>4, <3>5, <4>1, <4>2 DEF ClientParts
    <3> QED
      BY <1>1, <1>4, <2>6, <3>4, <3>6, <3>8, <3>9, <3>10, ClientStep
  <2> QED
    BY <2>4, <2>8, <2>9
<1> QED
  BY <1>8, <1>9

\* The client closes its end, or loses it.
LEMMA EndStep ==
  ASSUME EchoInv, NEW c \in Clients, Close(c) \/ Leave(c)
  PROVE  EchoInv'
<1>1. es' = es /\ client[c].at \in {"send", "receive", "close"}
  BY DEF Close, Leave
<1>2. /\ client \in [Clients -> ClientType] /\ stream \in [Clients -> Streams(Units)]
      /\ AskedWhole(c) /\ EchoInOrder(c) /\ ClientParts(c)
  BY DEF EchoInv, TypeOK
<1>3. PICK k \in Streams(Units) : k = stream[c]
  BY <1>2
<1>4. PICK j \in Departures(k, "client") : stream' = [stream EXCEPT ![c] = j]
  BY <1>3 DEF Close, Leave, Departures
<1>5. /\ j \in Streams(Units) /\ j.state["server"] = k.state["server"]
      /\ j.toward["client"] = <<>> /\ j.toward["server"] = k.toward["server"]
  BY DepartureFields DEF Sides, Peer
<1>6. stream'[c] = j
  BY <1>2, <1>4
<1>7. \/ client[c].at = "close" /\ Goes(c, "done")
      \/ client[c].at \in {"send", "receive"} /\ Goes(c, "gone")
  BY DEF Close, Leave
<1>8. PICK p \in ClientType :
        /\ Becomes(c, p) /\ p.sent = client[c].sent /\ p.got = client[c].got
        /\ p.status = client[c].status
        /\ \/ client[c].at = "close" /\ p.at = "done"
           \/ client[c].at \in {"send", "receive"} /\ p.at = "gone"
  BY <1>2, <1>7, ClientGoes DEF ClientStages
<1>9. client'[c] = p
  BY <1>8 DEF Becomes
<1>10. AskedWhole(c)'
  <2>1. Unread(c)' = Unread(c)
    BY <1>1, <1>3, <1>5, <1>6 DEF Unread
  <2> QED
    BY <1>2, <1>3, <1>5, <1>6, <1>8, <1>9, <2>1 DEF AskedWhole
<1>11. EchoInOrder(c)'
  BY <1>8, <1>9 DEF EchoInOrder, Waiting
<1>12. ClientParts(c)'
  <2>1. ServerGone' = ServerGone
    BY <1>1 DEF ServerGone
  <2> QED
    BY <1>1, <1>2, <1>8, <1>9, <2>1 DEF ClientParts, Enough
<1> QED
  BY <1>1, <1>3, <1>4, <1>5, <1>8, <1>10, <1>11, <1>12, ClientStep

-----------------------------------------------------------------------------
(* The steps of the server.                                                *)

\* es_create, and what happens around es_run.
LEMMA SetUpStep ==
  ASSUME EchoAssumption, EchoInv, CreateAndBind \/ Listen \/ Stop \/ Rerun
  PROVE  EchoInv'
<1>1. stream' = stream /\ client' = client
  BY DEF CreateAndBind, Listen, Stop, Rerun
<1>2. /\ es \in ServerType /\ ServesOne
      /\ es.at \in {"bind", "listen", "select", "stopped"}
  BY ServerFields DEF EchoInv, CreateAndBind, Listen, Stop, Rerun
<1>3. /\ es' \in ServerType /\ es'.conn = es.conn
      /\ es'.at \in {"bind", "listen", "select", "stopped", "destroy"}
  <2>1. CASE CreateAndBind
    <3>1. PICK a \in Nat : a = es.address + 1
      BY <1>2 DEF ServerType
    <3>2. \/ es' = [es EXCEPT !.at = "listen", !.socket = "bound"]
          \/ es' = [es EXCEPT !.address = a]
          \/ es' = [es EXCEPT !.at = "destroy", !.status = "FailedToBind"]
      BY <2>1, <3>1 DEF CreateAndBind
    <3>3. CASE es' = [es EXCEPT !.at = "listen", !.socket = "bound"]
      BY <1>2, <3>3 DEF ServerType, Stages
    <3>4. CASE es' = [es EXCEPT !.address = a]
      BY <1>2, <3>4 DEF ServerType, Stages
    <3>5. CASE es' = [es EXCEPT !.at = "destroy", !.status = "FailedToBind"]
      BY <1>2, <3>5 DEF ServerType, Stages
    <3> QED
      BY <3>2, <3>3, <3>4, <3>5
  <2>2. CASE Listen
    <3>1. CASE es' = [es EXCEPT !.at = "select", !.socket = "listening"]
      BY <1>2, <3>1 DEF ServerType, Stages
    <3>2. CASE es' = [es EXCEPT !.at = "destroy", !.status = "FailedToListen"]
      BY <1>2, <3>2 DEF ServerType, Stages
    <3> QED
      BY <2>2, <3>1, <3>2 DEF Listen
  <2>3. CASE Stop \/ Rerun
    BY <1>2, <2>3 DEF Stop, Rerun, ServerType, Stages
  <2> QED
    BY <2>1, <2>2, <2>3
<1>4. ~ServerGone /\ ~ServerGone' /\ ~Serving /\ ~Serving'
  BY <1>2, <1>3 DEF ServerGone, Serving
<1>5. es.conn = NoClient
  BY <1>2 DEF ServesOne, Serving
<1>6. ServesOne'
  BY <1>1, <1>2, <1>3, <1>4, <1>5 DEF ServesOne, Serving
<1>7. ASSUME NEW c \in Clients
      PROVE  AskedWhole(c)' /\ EchoInOrder(c)' /\ ClientParts(c)'
  <2>1. es.conn # c /\ es'.conn # c
    BY <1>3, <1>5 DEF EchoAssumption
  <2> QED
    BY <1>1, <1>4, <2>1, ClientStays DEF EchoInv
<1>8. TypeOK'
  BY <1>1, <1>3 DEF EchoInv, TypeOK
<1> QED
  BY <1>6, <1>7, <1>8 DEF EchoInv

\* The next client in the backlog gets its turn.
LEMMA AcceptStep ==
  ASSUME EchoAssumption, EchoInv, NEW c \in Clients, Accept(c)
  PROVE  EchoInv'
<1>1. /\ client' = client /\ es.at = "select" /\ ~ServerGone /\ IsPending(stream[c])
      /\ stream' = [stream EXCEPT ![c] = Accepted(@)]
      /\ es' = [es EXCEPT !.at = "receive", !.conn = c]
  BY DEF Accept, ServerGone
<1>2. /\ es \in ServerType /\ stream \in [Clients -> Streams(Units)]
      /\ ServesOne /\ AskedWhole(c) /\ EchoInOrder(c) /\ ClientParts(c)
  BY ServerFields DEF EchoInv
<1>3. es.conn = NoClient /\ c # NoClient
  BY <1>1, <1>2 DEF ServesOne, Serving, EchoAssumption
<1>4. PICK k \in Streams(Units) : k = stream[c] /\ k.state["server"] = "pending"
  BY <1>1, <1>2 DEF IsPending
<1>5. PICK j : j = Accepted(k)
  OBVIOUS
<1>6. /\ j \in Streams(Units) /\ j.state["server"] = "open"
      /\ j.state["client"] = k.state["client"] /\ j.toward = k.toward /\ j.reset = k.reset
  BY <1>5, AcceptedFields
<1>7. /\ stream' = [stream EXCEPT ![c] = j] /\ stream'[c] = j
      /\ \A d \in Clients \ {c} : stream'[d] = stream[d]
  BY <1>1, <1>2, <1>4, <1>5, <1>6
<1>8. es' \in ServerType /\ es'.at = "receive" /\ es'.conn = c /\ ~ServerGone'
  BY <1>1, <1>2 DEF ServerType, Stages, ServerGone
<1>9. ServesOne'
  BY <1>1, <1>2, <1>6, <1>7, <1>8 DEF ServesOne, Serving
<1>10. AskedWhole(c)'
  BY <1>1, <1>2, <1>4, <1>6, <1>7 DEF AskedWhole, Unread
<1>11. EchoInOrder(c)'
  <2>1. InHand(c)' = InHand(c)
    BY <1>1, <1>8 DEF InHand
  <2> QED
    BY <1>1, <1>2, <1>4, <1>6, <1>7, <1>8, <2>1 DEF EchoInOrder, Waiting
<1>12. ClientParts(c)'
  <2>1. client[c].at \notin {"create", "connect"}
    BY <1>2, <1>4, NobodyAsked DEF ClientParts
  <2> QED
    BY <1>1, <1>2, <2>1 DEF ClientParts
<1> QED
  BY <1>1, <1>3, <1>6, <1>7, <1>8, <1>9, <1>10, <1>11, <1>12, ServerStep

\* The server gets the beginning of the message, all that has come of it.
LEMMA ServerReceiveStep ==
  ASSUME EchoAssumption, EchoInv, Receive
  PROVE  EchoInv'
<1>1. client' = client /\ es.at = "receive" /\ ~ServerGone
  BY DEF Receive, ServerGone
<1>2. /\ es \in ServerType /\ stream \in [Clients -> Streams(Units)] /\ ServesOne
      /\ MaxMessageLength \in Nat \ {0}
  BY ServerFields, MessageFields DEF EchoInv, EchoAssumption
<1>3. PICK c \in Clients : c = es.conn
  BY <1>1, <1>2 DEF ServesOne, Serving
<1>4. /\ AskedWhole(c) /\ EchoInOrder(c) /\ ClientParts(c)
      /\ client[c].got \in Seq(Units) /\ client[c].sent \in Nat
  BY ClientFields DEF EchoInv
<1>5. PICK k \in Streams(Units) : k = stream[c] /\ k.state["server"] = "open"
  BY <1>1, <1>2, <1>3 DEF ServesOne
<1>6. PICK r \in Receives(k, "server", MaxMessageLength) :
        /\ stream' = [stream EXCEPT ![c] = r.stream]
        /\ es' = [es EXCEPT !.at = "send", !.read = r.ret, !.buffer = r.data]
  BY <1>3, <1>5 DEF Receive
<1>7. PICK j, data : j = r.stream /\ data = r.data
  OBVIOUS
<1>8. /\ j \in Streams(Units) /\ j.state = k.state /\ j.reset = k.reset
      /\ j.toward["client"] = k.toward["client"]
      /\ data \in Seq(Units) /\ Joins(k.toward["server"], data, j.toward["server"])
      /\ \/ r.ret \in 1..MaxMessageLength /\ Len(data) = r.ret
         \/ r.ret = 0 /\ data = <<>> /\ k.state["client"] \in {"shut", "closed"}
         \/ r.ret = -1 /\ data = <<>> /\ k.reset
  <2>1. "server" \in Sides /\ Peer("server") = "client"
    BY DEF Sides, Peer
  <2> QED
    BY <1>2, <1>7, <2>1, ReceivesFields
<1>9. stream' = [stream EXCEPT ![c] = j] /\ stream'[c] = j
      /\ \A d \in Clients \ {c} : stream'[d] = stream[d]
  BY <1>2, <1>6, <1>7
<1>10. es' \in ServerType /\ es'.at = "send" /\ es'.conn = c /\ es'.buffer = data
       /\ ~ServerGone'
  <2>1. r.ret \in Int
    BY <1>2, <1>8
  <2>2. es' = [es EXCEPT !.at = "send", !.read = r.ret, !.buffer = data]
    BY <1>6, <1>7
  <2> QED
    BY <1>2, <1>3, <1>8, <2>1, <2>2 DEF ServerType, Stages, ServerGone
<1>11. ServesOne'
  <2>1. \A d \in Clients : stream'[d].state = stream[d].state
    BY <1>5, <1>8, <1>9
  <2> QED
    BY <1>1, <1>2, <1>3, <1>10, <2>1 DEF ServesOne, Serving
<1>12. AskedWhole(c)'
  BY <1>5, <1>8, <1>9, <1>10 DEF AskedWhole, Unread
<1>13. EchoInOrder(c)'
  <2> SUFFICES ASSUME Waiting(c)
               PROVE  EchoInOrder(c)'
    BY <1>1 DEF EchoInOrder, Waiting
  <2>1. /\ k.state["client"] = "open" /\ client[c].status = "Success" /\ ~k.reset
    BY <1>1, <1>4, <1>5 DEF EchoInOrder
  <2>2. r.ret \in 1..MaxMessageLength /\ Len(data) = r.ret
    BY <1>8, <2>1
  <2>3. PICK u \in Seq(Units) : u = Message(c) /\ Follows(<<>>, u, 0)
    BY MessageFields
  <2>4. PICK in \in Seq(Units), rest \in Seq(Units) :
          in = k.toward["server"] /\ rest = j.toward["server"]
    BY <1>8 DEF Streams, Sides
  <2>5. /\ Follows(in, u, 0) /\ Len(in) = client[c].sent
        /\ k.toward["client"] = <<>> /\ client[c].got = <<>>
    BY <1>1, <1>3, <1>4, <1>5, <2>3, <2>4 DEF AskedWhole, Unread
  <2>6. Follows(data, u, 0)
    <3>1. Joins(in, data, rest) /\ 0 \in Nat
      BY <1>8, <2>4
    <3> QED
      BY <1>8, <2>5, <3>1, FollowsSplit
  <2>7. c \notin Splits => Len(data) = Enough(c)
    <3>1. r.ret = IF MaxMessageLength < Len(in) THEN MaxMessageLength ELSE Len(in)
      <4>1. r.ret > 0 /\ "server" \in Sides
        BY <2>2 DEF Sides
      <4> QED
        BY <1>2, <2>4, <4>1, ReceivesAllThere
    <3>2. c \notin Splits => Len(in) \in {0, Length[c]}
      BY <1>4, <2>5 DEF ClientParts
    <3>3. Length[c] \in Nat
      BY MessageFields
    <3>4. Len(in) # 0
      BY <1>2, <2>2, <3>1
    <3> QED
      BY <2>2, <3>1, <3>2, <3>4 DEF Enough
  <2>8. InHand(c)' = data
    BY <1>10 DEF InHand
  <2>9. PICK got, way : got = client[c].got /\ way = j.toward["client"]
    OBVIOUS
  <2>10. Len(got) = 0 /\ Len(way) = 0
    <3>1. got = <<>> /\ way = <<>> /\ Len(<<>>) = 0
      BY <1>8, <2>5, <2>9, EmptySeq
    <3> QED
      BY <3>1
  <2>11. Len(data) \in Nat /\ Len(data) <= MaxMessageLength
    BY <1>2, <2>2
  <2>12. /\ Follows(way, u, Len(got)) /\ Follows(data, u, Len(got) + Len(way))
         /\ (Len(got) + Len(way)) + Len(data) = Len(data)
    <3>1. way = <<>> /\ 0 + 0 = 0 /\ 0 + Len(data) = Len(data)
      BY <1>8, <2>5, <2>9, <2>11
    <3> QED
      BY <2>3, <2>6, <2>10, <3>1
  <2> QED
    BY <1>1, <1>5, <1>8, <1>9, <1>10, <2>1, <2>3, <2>7, <2>8, <2>9, <2>11, <2>12,
       ZenonT(40)
    DEF EchoInOrder
<1>14. ClientParts(c)'
  <2>1. client[c].at \notin {"create", "connect"}
    BY <1>4, <1>5, NobodyAsked DEF ClientParts
  <2> QED
    BY <1>1, <1>4, <2>1 DEF ClientParts, Enough
<1> QED
  BY <1>1, <1>3, <1>8, <1>9, <1>10, <1>11, <1>12, <1>13, <1>14, ServerStep

LEMMA SumsAgree ==
  ASSUME NEW n \in Nat, NEW a \in Nat, NEW b \in Nat, NEW x \in Nat, NEW y \in Nat,
         a + b = x + y
  PROVE  (n + a) + b = (n + x) + y
OBVIOUS

\* What the server hands over goes from its buffer to what is on its way.
LEMMA SendBackStep ==
  ASSUME EchoAssumption, EchoInv, NEW c \in Clients, es.conn = c, es.at = "send",
         client' = client, NEW k \in Streams(Units), k = stream[c],
         NEW r \in Sends(k, "server", es.buffer), r.ret >= 0,
         stream' = [stream EXCEPT ![c] = r.stream],
         es' = [es EXCEPT !.buffer = SubSeq(@, r.ret + 1, Len(@))]
  PROVE  EchoInv'
<1>1. /\ es \in ServerType /\ es.buffer \in Seq(Units)
      /\ stream \in [Clients -> Streams(Units)] /\ ServesOne
      /\ AskedWhole(c) /\ EchoInOrder(c) /\ ClientParts(c)
      /\ client[c].got \in Seq(Units)
  BY ServerFields, ClientFields DEF EchoInv
<1>2. PICK out \in Seq(Units) : out = es.buffer
  BY <1>1
<1>3. PICK j : j = r.stream
  OBVIOUS
<1>4. k.reset \in BOOLEAN /\ Len(out) \in Nat
  BY DEF Streams
<1>5. /\ j \in Streams(Units) /\ j.state = k.state /\ ~k.reset
      /\ r.ret \in 0..Len(out)
      /\ k.state["client"] # "closed" =>
           ~j.reset /\ Joins(j.toward["client"], k.toward["client"], Before(out, r.ret))
  <2>1. "server" \in Sides /\ Peer("server") = "client"
    BY DEF Sides, Peer
  <2>2. /\ j \in Streams(Units) /\ j.state = k.state
        /\ k.reset => r.ret = -1
        /\ ~k.reset => r.ret \in 0..Len(out)
        /\ ~k.reset /\ k.state["client"] # "closed" =>
             ~j.reset /\ Joins(j.toward["client"], k.toward["client"], Before(out, r.ret))
    BY <1>2, <1>3, <2>1, SendsFields
  <2> QED
    BY <1>4, <2>2
<1>6. PICK n \in 0..Len(out) : n = r.ret
  BY <1>5
<1>7. PICK rest \in Seq(Units) : rest = After(out, n)
  BY <1>4, AfterFields
<1>8. es' = [es EXCEPT !.buffer = rest]
  BY <1>2, <1>6, <1>7 DEF After
<1>9. /\ es' \in ServerType /\ es'.at = "send" /\ es'.conn = c /\ es'.buffer = rest
      /\ ~ServerGone'
  BY <1>1, <1>8 DEF ServerType, Stages, ServerGone
<1>10. stream' = [stream EXCEPT ![c] = j] /\ stream'[c] = j
       /\ \A d \in Clients \ {c} : stream'[d] = stream[d]
  BY <1>1, <1>3
<1>11. ServesOne'
  <2>1. \A d \in Clients : stream'[d].state = stream[d].state
    BY <1>5, <1>10
  <2> QED
    BY <1>1, <1>9, <2>1 DEF ServesOne, Serving, ServerGone
<1>12. k.state["server"] = "open"
  BY <1>1 DEF ServesOne
<1>13. AskedWhole(c)'
  BY <1>5, <1>9, <1>10, <1>12 DEF AskedWhole, Unread
<1>14. EchoInOrder(c)'
  <2> SUFFICES ASSUME Waiting(c)
               PROVE  EchoInOrder(c)'
    BY DEF EchoInOrder, Waiting
  <2>1. PICK u \in Seq(Units) : u = Message(c)
    BY MessageFields
  <2>2. PICK in \in Seq(Units), all \in Seq(Units) :
          in = k.toward["client"] /\ all = j.toward["client"]
    BY <1>5 DEF Streams, Sides
  <2>3. PICK got \in Nat : got = Len(client[c].got)
    <3>1. PICK g \in Seq(Units) : g = client[c].got
      BY <1>1
    <3>2. Len(g) \in Nat
      OBVIOUS
    <3> QED
      BY <3>1, <3>2
  <2>4. InHand(c) = out /\ InHand(c)' = rest
    BY <1>2, <1>9 DEF InHand
  <2>5. /\ k.state["client"] = "open" /\ client[c].status = "Success"
        /\ Follows(in, u, got) /\ Follows(out, u, got + Len(in))
        /\ (got + Len(in)) + Len(out) <= MaxMessageLength
        /\ c \notin Splits => (got + Len(in)) + Len(out) = Enough(c)
    BY <1>1, <2>1, <2>2, <2>3, <2>4 DEF EchoInOrder
  <2>6. ~j.reset /\ Joins(all, in, Before(out, n))
    BY <1>5, <1>6, <2>2, <2>5
  <2>7. /\ all \in Seq(Units) /\ Len(all) + Len(rest) = Len(in) + Len(out)
        /\ Follows(all, u, got) /\ Follows(rest, u, got + Len(all))
    <3>1. PICK U : U = Units
      OBVIOUS
    <3>2. u \in Seq(U) /\ out \in Seq(U) /\ in \in Seq(U)
      BY <3>1
    <3>3. Follows(in, u, got) /\ Follows(out, u, got + Len(in))
      BY <2>5
    <3>4. /\ all \in Seq(U) /\ Len(all) + Len(After(out, n)) = Len(in) + Len(out)
          /\ Follows(all, u, got) /\ Follows(After(out, n), u, got + Len(all))
      BY <2>6, <3>2, <3>3, SendMoves
    <3> QED
      BY <1>7, <3>1, <3>4
  <2>8. (got + Len(all)) + Len(rest) = (got + Len(in)) + Len(out)
    <3>1. all \in Seq(Units) /\ Len(all) + Len(rest) = Len(in) + Len(out)
      BY <2>7
    <3>2. PICK a \in Nat : a = Len(all)
      BY <3>1, LenProperties
    <3>3. PICK b \in Nat : b = Len(rest)
      BY LenProperties
    <3>4. PICK x \in Nat : x = Len(in)
      BY LenProperties
    <3>5. PICK y \in Nat : y = Len(out)
      BY LenProperties
    <3>6. a + b = x + y
      BY <3>1, <3>2, <3>3, <3>4, <3>5
    <3>7. (got + a) + b = (got + x) + y
      BY ONLY <3>6, SumsAgree, SMTT(30)
    <3> QED
      BY <3>2, <3>3, <3>4, <3>5, <3>7
  <2> QED
    BY <1>5, <1>9, <1>10, <1>12, <2>1, <2>2, <2>3, <2>4, <2>5, <2>6, <2>7, <2>8
    DEF EchoInOrder
<1>15. ClientParts(c)'
  <2>1. client[c].at \notin {"create", "connect"}
    BY <1>1, <1>12, NobodyAsked DEF ClientParts
  <2>2. ~ServerGone
    BY DEF ServerGone
  <2> QED
    BY <1>1, <2>1, <2>2 DEF ClientParts, Enough
<1> QED
  BY <1>5, <1>9, <1>10, <1>11, <1>13, <1>14, <1>15, ServerStep DEF ServerGone

\* SIGPIPE: every connection of the server is gone.
LEMMA KilledStep ==
  ASSUME EchoAssumption, EchoInv, es.at = "send", stream[es.conn].reset,
         client' = client, Killed
  PROVE  EchoInv'
<1>1. es \in ServerType /\ stream \in [Clients -> Streams(Units)] /\ ServesOne
  BY ServerFields DEF EchoInv
<1>2. es' \in ServerType /\ es'.at = "killed" /\ es'.conn = es.conn /\ es'.socket = "closed"
  BY <1>1 DEF Killed, ServerType, Stages
<1>3. ASSUME NEW c \in Clients
      PROVE  /\ stream'[c] \in Streams(Units)
             /\ stream'[c].state["server"] \in {"none", "closed"}
             /\ stream'[c].state["server"] = "none" <=> stream[c].state["server"] = "none"
             /\ stream'[c].state["client"] = stream[c].state["client"]
             /\ stream'[c].toward["client"] = stream[c].toward["client"]
             /\ stream[c].reset \/ stream[c].state["server"] = "pending" => stream'[c].reset
             /\ stream[c].state["server"] \in {"none", "closed"} => stream'[c] = stream[c]
  <2>1. PICK k \in Streams(Units) : k = stream[c]
    BY <1>1
  <2>2. PICK j : j = Abandoned(k)
    OBVIOUS
  <2>3. stream'[c] = j
    BY <2>1, <2>2 DEF Killed
  <2>4. IsPending(k) <=> k.state["server"] = "pending"
    BY DEF IsPending
  <2>5. /\ j \in Streams(Units)
        /\ j.state["server"] \in {"none", "closed"}
        /\ j.state["server"] = "none" <=> k.state["server"] = "none"
        /\ j.state["client"] = k.state["client"]
        /\ j.toward["client"] = k.toward["client"]
        /\ k.reset \/ IsPending(k) => j.reset
        /\ k.state["server"] \in {"none", "closed"} => j = k
    BY <2>2, AbandonedFields
  <2> QED
    BY <2>1, <2>3, <2>4, <2>5
<1>4. TypeOK'
  <2>1. stream' \in [Clients -> Streams(Units)]
    BY <1>3 DEF Killed
  <2> QED
    BY <1>2, <2>1 DEF EchoInv, TypeOK
<1>5. ServerGone' /\ ~ServerGone
  BY <1>2 DEF ServerGone
<1>6. ServesOne'
  BY <1>2, <1>3, <1>5 DEF ServesOne, Serving
<1>7. ASSUME NEW c \in Clients
      PROVE  AskedWhole(c)' /\ EchoInOrder(c)' /\ ClientParts(c)'
  <2>1. AskedWhole(c) /\ EchoInOrder(c) /\ ClientParts(c)
    BY DEF EchoInv
  <2>2. AskedWhole(c)'
    BY <1>2, <1>3 DEF AskedWhole, Unread
  <2>3. EchoInOrder(c)'
    <3> SUFFICES ASSUME Waiting(c)
                 PROVE  EchoInOrder(c)'
      BY DEF EchoInOrder, Waiting
    <3>1. stream'[c].reset
      <4>1. CASE stream[c].state["server"] \in {"open", "shut"}
        BY <1>1, <1>3, <4>1 DEF ServesOne
      <4>2. CASE stream[c].state["server"] \notin {"open", "shut"}
        <5>1. stream[c].state["server"] \in EndStates
          BY <1>1 DEF Streams, Sides
        <5>2. stream[c].state["server"] # "none"
          BY <2>1 DEF EchoInOrder
        <5>3. stream[c].reset \/ stream[c].state["server"] = "pending"
          BY <2>1, <4>2, <5>1, <5>2 DEF EchoInOrder, EndStates
        <5> QED
          BY <1>3, <5>3
      <4> QED
        BY <4>1, <4>2
    <3>2. es.conn # c
      BY <1>5, <2>1 DEF EchoInOrder
    <3>3. InHand(c) = <<>> /\ InHand(c)' = <<>>
      BY <1>2, <3>2 DEF InHand
    <3> QED
      BY <1>2, <1>3, <1>5, <2>1, <3>1, <3>3, ZenonT(40) DEF EchoInOrder
  <2>4. ClientParts(c)'
    <3>1. client[c].at \in {"create", "connect"} => stream'[c] = stream[c]
      BY <1>3, <2>1, NobodyAsked DEF ClientParts
    <3> QED
      BY <1>5, <2>1, <3>1 DEF ClientParts, Enough
  <2> QED
    BY <2>2, <2>3, <2>4
<1> QED
  BY <1>4, <1>6, <1>7 DEF EchoInv

\* The turns of send_all_ are over: everything is handed over, or the connection
\* is torn down.
LEMMA SendEndsStep ==
  ASSUME EchoAssumption, EchoInv, NEW c \in Clients, es.conn = c, es.at = "send",
         client' = client, stream' = stream, es.buffer = <<>> \/ stream[c].reset,
         es' = [es EXCEPT !.at = "shutdown", !.buffer = <<>>]
  PROVE  EchoInv'
<1>1. /\ es \in ServerType /\ stream \in [Clients -> Streams(Units)] /\ ServesOne
      /\ AskedWhole(c) /\ EchoInOrder(c) /\ ClientParts(c)
  BY ServerFields DEF EchoInv
<1>2. es' \in ServerType /\ es'.at = "shutdown" /\ es'.conn = c /\ ~ServerGone' /\ ~ServerGone
  BY <1>1, EmptySeq DEF ServerType, Stages, ServerGone
<1>3. PICK k \in Streams(Units) : k = stream[c] /\ k.state["server"] = "open"
  BY <1>1 DEF ServesOne
<1>4. stream' = [stream EXCEPT ![c] = k] /\ stream'[c] = stream[c]
  BY <1>1, <1>3
<1>5. ServesOne'
  BY <1>1, <1>2 DEF ServesOne, Serving
<1>6. AskedWhole(c)'
  BY <1>2, <1>3, <1>4 DEF AskedWhole, Unread
<1>7. EchoInOrder(c)'
  <2> SUFFICES ASSUME Waiting(c)
               PROVE  EchoInOrder(c)'
    BY DEF EchoInOrder, Waiting
  <2>1. es.buffer = <<>>
    BY <1>1, <1>2 DEF EchoInOrder
  <2>2. InHand(c) = <<>> /\ InHand(c)' = <<>>
    BY <1>2, <2>1 DEF InHand
  <2> QED
    BY <1>1, <1>2, <2>2 DEF EchoInOrder, Enough
<1>8. ClientParts(c)'
  <2>1. client[c].at \notin {"create", "connect"}
    BY <1>1, <1>3, NobodyAsked DEF ClientParts
  <2> QED
    BY <1>1, <1>2, <2>1 DEF ClientParts, Enough
<1> QED
  BY <1>2, <1>3, <1>4, <1>5, <1>6, <1>7, <1>8, ServerStep

LEMMA SendAllStep ==
  ASSUME EchoAssumption, EchoInv, SendAll
  PROVE  EchoInv'
<1>1. client' = client /\ es.at = "send"
  BY DEF SendAll
<1>2. /\ es \in ServerType /\ es.buffer \in Seq(Units)
      /\ stream \in [Clients -> Streams(Units)] /\ ServesOne
  BY ServerFields DEF EchoInv
<1>3. PICK c \in Clients : c = es.conn
  BY <1>1, <1>2 DEF ServesOne, Serving
<1>4. PICK k \in Streams(Units) : k = stream[c]
  BY <1>2
<1>5. CASE es.buffer = <<>> /\ es' = [es EXCEPT !.at = "shutdown"] /\ stream' = stream
  <2>1. es' = [es EXCEPT !.at = "shutdown", !.buffer = <<>>]
    BY <1>2, <1>5 DEF ServerType
  <2> QED
    BY <1>1, <1>3, <1>5, <2>1, SendEndsStep
<1>6. ASSUME NEW r \in Sends(k, "server", es.buffer)
      PROVE  r.ret < 0 => k.reset
  <2>1. PICK j : j = r.stream
    OBVIOUS
  <2>2. PICK data \in Seq(Units) : data = es.buffer
    BY <1>2
  <2>3. "server" \in Sides /\ Len(data) \in Nat
    BY DEF Sides
  <2>4. ~k.reset => r.ret \in 0..Len(data)
    BY <2>1, <2>2, <2>3, SendsFields
  <2> QED
    BY <2>3, <2>4
<1>7. ASSUME NEW r \in Sends(k, "server", es.buffer), r.ret >= 0,
             stream' = [stream EXCEPT ![es.conn] = r.stream],
             es' = [es EXCEPT !.buffer = SubSeq(@, r.ret + 1, Len(@))]
      PROVE  EchoInv'
  BY <1>1, <1>3, <1>4, <1>7, SendBackStep
<1>8. ASSUME NEW r \in Sends(k, "server", es.buffer), r.ret < 0, stream' = stream,
             es' = [es EXCEPT !.at = "shutdown", !.buffer = <<>>]
      PROVE  EchoInv'
  BY <1>1, <1>3, <1>4, <1>6, <1>8, SendEndsStep
<1>9. ASSUME NEW r \in Sends(k, "server", es.buffer), r.ret < 0, Killed
      PROVE  EchoInv'
  BY <1>1, <1>3, <1>4, <1>6, <1>9, KilledStep
<1> QED
  BY <1>3, <1>4, <1>5, <1>7, <1>8, <1>9 DEF SendAll

LEMMA ShutdownStep ==
  ASSUME EchoAssumption, EchoInv, ShutdownWrite
  PROVE  EchoInv'
<1>1. /\ client' = client /\ es.at = "shutdown" /\ ~ServerGone
      /\ stream' = [stream EXCEPT ![es.conn] = ShutDown(@, "server")]
      /\ es' = [es EXCEPT !.at = "drain"]
  BY DEF ShutdownWrite, ServerGone
<1>2. es \in ServerType /\ stream \in [Clients -> Streams(Units)] /\ ServesOne
  BY ServerFields DEF EchoInv
<1>3. PICK c \in Clients : c = es.conn
  BY <1>1, <1>2 DEF ServesOne, Serving
<1>4. AskedWhole(c) /\ EchoInOrder(c) /\ ClientParts(c)
  BY DEF EchoInv
<1>5. PICK k \in Streams(Units) : k = stream[c] /\ k.state["server"] = "open"
  BY <1>1, <1>2, <1>3 DEF ServesOne
<1>6. PICK j : j = ShutDown(k, "server")
  OBVIOUS
<1>7. /\ j \in Streams(Units) /\ j.state["server"] = "shut"
      /\ j.state["client"] = k.state["client"] /\ j.toward = k.toward /\ j.reset = k.reset
  <2>1. "server" \in Sides /\ Peer("server") = "client"
    BY DEF Sides, Peer
  <2> QED
    BY <1>6, <2>1, ShutDownFields
<1>8. stream' = [stream EXCEPT ![c] = j] /\ stream'[c] = j
      /\ \A d \in Clients \ {c} : stream'[d] = stream[d]
  BY <1>1, <1>2, <1>3, <1>5, <1>6
<1>9. es' \in ServerType /\ es'.at = "drain" /\ es'.conn = c /\ ~ServerGone'
  BY <1>1, <1>2, <1>3 DEF ServerType, Stages, ServerGone
<1>10. ServesOne'
  BY <1>1, <1>2, <1>3, <1>7, <1>8, <1>9 DEF ServesOne, Serving
<1>11. AskedWhole(c)'
  BY <1>7, <1>8, <1>9 DEF AskedWhole, Unread
<1>12. EchoInOrder(c)'
  <2>1. InHand(c)' = InHand(c)
    BY <1>1, <1>9 DEF InHand
  <2> QED
    BY <1>1, <1>3, <1>4, <1>5, <1>7, <1>8, <1>9, <2>1 DEF EchoInOrder, Waiting, Enough
<1>13. ClientParts(c)'
  <2>1. client[c].at \notin {"create", "connect"}
    BY <1>4, <1>5, NobodyAsked DEF ClientParts
  <2> QED
    BY <1>1, <1>4, <2>1 DEF ClientParts, Enough
<1> QED
  BY <1>1, <1>3, <1>7, <1>8, <1>9, <1>10, <1>11, <1>12, <1>13, ServerStep

\* The server reads until the client has closed: so it closes after the client.
LEMMA DrainStep ==
  ASSUME EchoAssumption, EchoInv, Drain
  PROVE  EchoInv'
<1>1. client' = client /\ es.at = "drain" /\ ~ServerGone
  BY DEF Drain, ServerGone
<1>2. /\ es \in ServerType /\ stream \in [Clients -> Streams(Units)] /\ ServesOne
      /\ MaxMessageLength \in Nat \ {0}
  BY ServerFields DEF EchoInv, EchoAssumption
<1>3. PICK c \in Clients : c = es.conn
  BY <1>1, <1>2 DEF ServesOne, Serving
<1>4. AskedWhole(c) /\ EchoInOrder(c) /\ ClientParts(c)
  BY DEF EchoInv
<1>5. PICK k \in Streams(Units) : k = stream[c] /\ k.state["server"] = "shut"
  BY <1>1, <1>2, <1>3 DEF ServesOne
<1>6. client[c].at \notin {"create", "connect"}
  BY <1>4, <1>5, NobodyAsked DEF ClientParts
<1>7. "server" \in Sides /\ Peer("server") = "client"
  BY DEF Sides, Peer
<1>8. PICK r \in Receives(k, "server", MaxMessageLength) :
        IF r.ret > 0
          THEN stream' = [stream EXCEPT ![c] = r.stream] /\ es' = es
          ELSE /\ stream' = [stream EXCEPT ![c] = Closed(@, "server")]
               /\ es' = [es EXCEPT !.at = "select", !.conn = NoClient, !.read = 0]
  BY <1>3, <1>5 DEF Drain
<1>9. PICK j : j = r.stream
  OBVIOUS
<1>10. /\ j \in Streams(Units) /\ j.state = k.state /\ j.reset = k.reset
       /\ j.toward["client"] = k.toward["client"]
       /\ \/ r.ret \in 1..MaxMessageLength
          \/ r.ret = 0 /\ k.state["client"] \in {"shut", "closed"}
          \/ r.ret = -1 /\ k.reset
  BY <1>2, <1>7, <1>9, ReceivesFields
<1>11. ClientParts(c)'
  <2>1. ServerGone => ServerGone'
    BY <1>1
  <2> QED
    BY <1>1, <1>4, <1>6, <2>1 DEF ClientParts, Enough
<1>12. CASE r.ret > 0 /\ stream' = [stream EXCEPT ![c] = r.stream] /\ es' = es
  <2>1. stream' = [stream EXCEPT ![c] = j] /\ stream'[c] = j
        /\ \A d \in Clients \ {c} : stream'[d] = stream[d]
    BY <1>2, <1>9, <1>12
  <2>2. ServesOne'
    <3>1. \A d \in Clients : stream'[d].state = stream[d].state
      BY <1>5, <1>10, <2>1
    <3> QED
      BY <1>2, <1>12, <3>1 DEF ServesOne, Serving, ServerGone
  <2>3. AskedWhole(c)'
    BY <1>1, <1>5, <1>10, <1>12, <2>1 DEF AskedWhole, Unread
  <2>4. EchoInOrder(c)'
    <3>1. InHand(c)' = InHand(c)
      BY <1>12 DEF InHand
    <3> QED
      BY <1>1, <1>4, <1>5, <1>10, <1>12, <2>1, <3>1 DEF EchoInOrder, Waiting, Enough, ServerGone
  <2> QED
    BY <1>1, <1>2, <1>3, <1>10, <1>11, <1>12, <2>1, <2>2, <2>3, <2>4, ServerStep
<1>13. CASE /\ ~(r.ret > 0)
            /\ stream' = [stream EXCEPT ![c] = Closed(@, "server")]
            /\ es' = [es EXCEPT !.at = "select", !.conn = NoClient, !.read = 0]
  <2>1. PICK i : i = Closed(k, "server")
    OBVIOUS
  <2>2. i \in Streams(Units) /\ i.state["server"] = "closed"
    BY <1>7, <2>1, ClosedFields
  <2>3. stream' = [stream EXCEPT ![c] = i] /\ stream'[c] = i
        /\ \A d \in Clients \ {c} : stream'[d] = stream[d]
    BY <1>2, <1>5, <1>13, <2>1, <2>2
  <2>4. es' \in ServerType /\ es'.at = "select" /\ es'.conn = NoClient /\ ~ServerGone'
    <3>1. es' = [es EXCEPT !.at = "select", !.conn = NoClient, !.read = 0]
      BY <1>13
    <3> QED
      <4>1. es' \in ServerType
        <5>1. es \in ServerType /\ 0 \in Int /\ "select" \in Stages
          BY <1>2 DEF Stages
        <5> QED
          BY <3>1, <5>1 DEF ServerType
      <4>2. es'.at = "select" /\ es'.conn = NoClient
        BY <1>2, <3>1 DEF ServerType
      <4> QED
        BY <4>1, <4>2 DEF ServerGone
  <2>5. ServesOne'
    BY <1>1, <1>2, <1>3, <2>2, <2>3, <2>4 DEF ServesOne, Serving
  <2>6. AskedWhole(c)'
    BY <2>2, <2>3, <2>4 DEF AskedWhole, Unread
  <2>7. EchoInOrder(c)'
    <3>1. ~(r.ret \in 1..MaxMessageLength)
      BY <1>2, <1>13
    <3>2. k.state["client"] \in {"shut", "closed"} \/ k.reset
      BY <1>10, <3>1
    <3>3. ~Waiting(c)
      BY <1>1, <1>4, <1>5, <3>2 DEF EchoInOrder
    <3> QED
      BY <1>1, <3>3 DEF EchoInOrder, Waiting
  <2> QED
    BY <1>1, <1>3, <1>11, <2>2, <2>3, <2>4, <2>5, <2>6, <2>7, ServerStep
<1> QED
  BY <1>8, <1>12, <1>13

\* The listening socket is closed between two connections.
LEMMA DestroyStep ==
  ASSUME EchoAssumption, EchoInv, Destroy
  PROVE  EchoInv'
<1>1. /\ client' = client /\ es.at \in {"destroy", "stopped"} /\ ~ServerGone
      /\ es' = [es EXCEPT !.at = "done", !.socket = "closed"]
      /\ stream' = [c \in Clients |-> Unlistened(stream[c])]
  BY DEF Destroy, ServerGone
<1>2. es \in ServerType /\ stream \in [Clients -> Streams(Units)] /\ ServesOne
  BY ServerFields DEF EchoInv
<1>3. /\ es' \in ServerType /\ es'.at = "done" /\ es'.conn = es.conn /\ ServerGone'
      /\ es'.socket = "closed"
  BY <1>1, <1>2 DEF ServerType, Stages, ServerGone
<1>4. es.conn = NoClient
  BY <1>1, <1>2 DEF ServesOne, Serving
<1>5. ASSUME NEW c \in Clients
      PROVE  \/ stream'[c] = stream[c]
             \/ /\ stream[c].state["server"] = "pending"
                /\ stream'[c] \in Streams(Units)
                /\ stream'[c].state["server"] = "closed"
                /\ stream'[c].state["client"] = stream[c].state["client"]
                /\ stream'[c].toward["client"] = stream[c].toward["client"]
                /\ stream'[c].reset
  <2>1. PICK k \in Streams(Units) : k = stream[c]
    BY <1>2
  <2>2. PICK j : j = Unlistened(k)
    OBVIOUS
  <2>3. stream'[c] = j
    BY <1>1, <2>1, <2>2
  <2>4. IsPending(k) <=> k.state["server"] = "pending"
    BY DEF IsPending
  <2>5. /\ ~IsPending(k) => j = k
        /\ IsPending(k) => /\ j \in Streams(Units)
                           /\ j.state["server"] = "closed"
                           /\ j.state["client"] = k.state["client"]
                           /\ j.toward["client"] = k.toward["client"]
                           /\ j.reset
    BY <2>2, UnlistenedFields
  <2> QED
    BY <2>1, <2>3, <2>4, <2>5
<1>6. TypeOK'
  <2>1. stream' \in [Clients -> Streams(Units)]
    BY <1>1, <1>2, <1>5
  <2> QED
    BY <1>1, <1>3, <2>1 DEF EchoInv, TypeOK
<1>7. ServesOne'
  BY <1>1, <1>2, <1>3, <1>4, <1>5 DEF ServesOne, Serving
<1>8. ASSUME NEW c \in Clients
      PROVE  AskedWhole(c)' /\ EchoInOrder(c)' /\ ClientParts(c)'
  <2>1. AskedWhole(c) /\ EchoInOrder(c) /\ ClientParts(c)
    BY DEF EchoInv
  <2>2. es.conn # c /\ es'.conn # c
    BY <1>3, <1>4 DEF EchoAssumption
  <2>3. CASE stream'[c] = stream[c]
    BY <1>1, <1>3, <2>1, <2>2, <2>3, ClientStays
  <2>4. CASE stream'[c] # stream[c]
    <3>1. /\ stream[c].state["server"] = "pending"
          /\ stream'[c].state["server"] = "closed"
          /\ stream'[c].state["client"] = stream[c].state["client"]
          /\ stream'[c].toward["client"] = stream[c].toward["client"]
          /\ stream'[c].reset
      BY <1>5, <2>4
    <3>2. AskedWhole(c)'
      BY <2>2, <3>1 DEF AskedWhole, Unread
    <3>3. EchoInOrder(c)'
      <4>1. InHand(c)' = InHand(c)
        BY <2>2 DEF InHand
      <4> QED
        BY <1>1, <1>3, <2>1, <2>2, <3>1, <4>1 DEF EchoInOrder, Waiting
    <3>4. ClientParts(c)'
      <4>1. client[c].at \notin {"create", "connect"}
        BY <2>1, <3>1, NobodyAsked DEF ClientParts
      <4> QED
        BY <1>1, <1>3, <2>1, <4>1 DEF ClientParts, Enough
    <3> QED
      BY <3>2, <3>3, <3>4
  <2> QED
    BY <2>3, <2>4
<1> QED
  BY <1>6, <1>7, <1>8 DEF EchoInv

-----------------------------------------------------------------------------
(* The theorems.                                                           *)

\* No step of the server or of a client breaks the invariant.
LEMMA EchoInvStep == EchoAssumption /\ EchoInv /\ [Next]_vars => EchoInv'
<1> SUFFICES ASSUME EchoAssumption, EchoInv, [Next]_vars
             PROVE  EchoInv'
  OBVIOUS
<1>1. CASE EsCreate \/ Stop \/ Rerun
  BY <1>1, SetUpStep DEF EsCreate
<1>2. CASE EsRun
  BY <1>2, AcceptStep, ServerReceiveStep, SendAllStep, ShutdownStep, DrainStep DEF EsRun
<1>3. CASE Destroy
  BY <1>3, DestroyStep
<1>4. ASSUME NEW c \in Clients, Create(c) \/ SendAndReceive(c) \/ Leave(c)
      PROVE  EchoInv'
  BY <1>4, CreateStep, ConnectStep, SendStep, ReceiveStep, EndStep DEF SendAndReceive
<1>5. CASE UNCHANGED vars
  <2>1. stream' = stream /\ es' = es /\ client' = client
    BY <1>5 DEF vars
  <2>2. TypeOK' /\ ServesOne'
    BY <2>1 DEF EchoInv, TypeOK, ServesOne, Serving, ServerGone
  <2>3. \A c \in Clients : AskedWhole(c)' /\ EchoInOrder(c)' /\ ClientParts(c)'
    BY <2>1, ClientStays DEF EchoInv
  <2> QED
    BY <2>2, <2>3 DEF EchoInv
<1> QED
  BY <1>1, <1>2, <1>3, <1>4, <1>5 DEF Next

\* Every unit of a message is, at any time, where the calls of the server and of its
\* client have left it, in order, and the server serves one connection at a time
\* (es_run, ec_send_and_receive).
THEOREM EchoAlwaysInOrder == Spec => []EchoInv
<1>1. Init => EchoInv
  BY EchoInvInit, EchoAssumption
<1>2. EchoInv /\ [Next]_vars => EchoInv'
  BY EchoInvStep, EchoAssumption
<1> QED
  BY <1>1, <1>2, PTL DEF Spec

\* What comes first in a message is a part of it.
LEMMA BeginningIsPart ==
  ASSUME NEW U, NEW u \in Seq(U), NEW q \in Seq(U), Follows(q, u, 0)
  PROVE  q = SubSeq(u, 1, Len(q))
<1>1. PICK n \in Nat : n = Len(q)
  OBVIOUS
<1>2. n <= Len(u) /\ \A i \in 1..n : q[i] = u[i]
  <2>1. 0 + n <= Len(u) /\ \A i \in 1..n : q[i] = u[0 + i]
    BY <1>1 DEF Follows
  <2>2. \A i \in 1..n : 0 + i = i
    OBVIOUS
  <2> QED
    BY <2>1, <2>2
<1>3. PICK b : b = Before(u, n)
  OBVIOUS
<1>4. b \in Seq(U) /\ Len(b) = n /\ \A i \in 1..n : b[i] = u[i]
  <2>1. n \in 0..Len(u)
    BY <1>2
  <2> QED
    BY <1>3, <2>1, BeforeFields
<1>5. q = b
  BY <1>1, <1>2, <1>4, SeqEqual
<1> QED
  BY <1>1, <1>3, <1>5 DEF Before

\* What a client of the echo server receives is its own message from the start, and
\* as much of it as the server takes when it came in one piece (receive_and_send_all_).
THEOREM EchoIsAlwaysTheMessage == Spec => []EchoIsTheMessage
<1>1. EchoInv => EchoIsTheMessage
  <2> SUFFICES ASSUME EchoInv, NEW c \in Clients
               PROVE  LET got == client[c].got IN
                      /\ got = SubSeq(Message(c), 1, Len(got)) /\ Len(got) <= MaxMessageLength
                      /\ client[c].at = "done" /\ client[c].status = "Success" /\ c \notin Splits
                           => Len(got) = Enough(c)
    BY DEF EchoIsTheMessage, Enough
  <2>1. ClientParts(c) /\ client[c].got \in Seq(Units)
    BY ClientFields DEF EchoInv
  <2>2. client[c].got = SubSeq(Message(c), 1, Len(client[c].got))
    <3>1. PICK q \in Seq(Units), u \in Seq(Units) : q = client[c].got /\ u = Message(c)
      BY <2>1, EchoAssumption, MessageFields
    <3>2. Follows(q, u, 0)
      BY <2>1, <3>1 DEF ClientParts
    <3> QED
      BY <3>1, <3>2, BeginningIsPart
  <2> QED
    BY <2>1, <2>2 DEF ClientParts
<1> QED
  BY <1>1, EchoAlwaysInOrder, PTL

\* A connection that was made fails only when the server has ended before its turn:
\* shutdown_ reads what the server has left of a message (echoserver.c).
THEOREM NobodyIsCutOff == Spec => []NobodyCutOff
<1>1. EchoInv => NobodyCutOff
  BY DEF EchoInv, ClientParts, ServerGone, NobodyCutOff
<1> QED
  BY <1>1, EchoAlwaysInOrder, PTL

================================================================================
