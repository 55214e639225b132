----------------------------- MODULE TransferProofs ----------------------------
(***************************************************************************)
(* What the transfer server and its clients keep of each other's data, for *)
(* any number of clients and addresses and any sizes of source and buffers.*)
(***************************************************************************)
EXTENDS Transfer, TcpProofs

\* The first n units of the source.
FirstUnits(n) == [i \in 1..n |-> i]

Stages == {"bind", "listen", "select", "start", "read", "send", "finish", "shutdown",
           "drain", "destroy", "done", "killed"}

ServerType ==
  [at : Stages, socket : {"none", "bound", "listening", "closed"}, address : Nat,
   status : {"Success", "FailedToBind", "FailedToListen"}, conn : Clients \cup {NoClient},
   source : Sources, session : BOOLEAN, read : Nat, buffer : Seq(Nat)]

ClientType ==
  [at : {"connect", "start", "receive", "finish", "cancel", "close", "done", "gone"},
   session : BOOLEAN,
   status : {"Success", "FailedToConnect", "FailedToOpen", "FailedToReceive"}]

TypeOK ==
  /\ stream \in [Clients -> Streams(Nat)]
  /\ ts \in ServerType
  /\ client \in [Clients -> ClientType]
  /\ disk \in [Clients -> Seq(Int)]
  /\ got \in [Clients -> Seq(Int)]
  /\ short \subseteq Clients

\* A client that is connected and has not yet come to the end of the stream.
Waiting(c) == client[c].at \in {"start", "receive"}

\* What has come out of the server for c: received, or still on its way.
Came(c) ==
  (IF client[c].at = "receive" THEN got[c] ELSE <<>>) \o stream[c].toward["client"]

\* What the server has handed over of the source for c.
Sent(c) == IF ts.conn = c THEN ts.read - Len(ts.buffer) ELSE 0

ServerGone == ts.at \in {"done", "killed"}

Serving == ts.at \in {"start", "read", "send", "finish", "shutdown", "drain"}

\* The server has one connection open while it serves, and none otherwise.
ServesOne ==
  /\ Serving => ts.conn \in Clients
  /\ ts.at \in {"start", "read", "send", "finish", "shutdown"} =>
       stream[ts.conn].state["server"] = "open"
  /\ ts.at = "drain" => stream[ts.conn].state["server"] = "shut"
  /\ ~Serving /\ ts.at # "killed" => ts.conn = NoClient
  /\ ts.at = "killed" => ts.socket = "closed"
  /\ \A c \in Clients :
       stream[c].state["server"] \in {"open", "shut"} => Serving /\ ts.conn = c

\* The buffer holds the last units read, those that send_all_ has not handed over.
BufferIsTail ==
  /\ ts.at \in {"bind", "listen", "select", "start"} => ts.read = 0
  /\ ts.at # "killed" => \/ ts.buffer = <<>>
                         \/ ts.at = "send"
  /\ Len(ts.buffer) <= ts.read /\ ts.read <= Size
  /\ \A i \in 1..Len(ts.buffer) : ts.buffer[i] = ts.read - Len(ts.buffer) + i
  /\ ts.session => ts.at \in {"read", "send", "finish"}

\* Everything that came for c is the beginning of the source, in order, and until
\* the connection is torn down, which only the end of the server does to a client
\* that waits, nothing of what was handed over is missing.
InOrder(c) ==
  Waiting(c) =>
    /\ stream[c].state["client"] = "open" /\ stream[c].state["server"] # "none"
    /\ Came(c) = FirstUnits(Len(Came(c))) /\ Len(Came(c)) <= Size
    /\ client[c].status = "Success"
    /\ stream[c].reset => ServerGone
    /\ ~stream[c].reset => stream[c].state["server"] # "closed" /\ Len(Came(c)) = Sent(c)

\* Some of the first n units of the source, each at most once and in order.
SomeOfFirst(units, n) ==
  \A i \in 1..Len(units) :
    units[i] \in 1..n /\ \A j \in 1..Len(units) : i < j => units[i] < units[j]

\* A file has all of what its client received, or the disk took less of it; what
\* it has is in order.
FileKept(c) ==
  client[c].at \in {"receive", "finish", "close", "done"} /\ client[c].status = "Success" =>
    /\ disk[c] = got[c] \/ c \in short
    /\ SomeOfFirst(disk[c], Len(got[c]))

\* How far a client is, and what its file then is.
ClientParts(c) ==
  /\ stream[c].toward["server"] = <<>>
  /\ client[c].at = "connect" =>
       stream[c] = NoStream /\ client[c].status = "Success"
  /\ client[c].at \in {"connect", "start"} => disk[c] = Old /\ got[c] = <<>>
  /\ FileKept(c)
  /\ client[c].session => client[c].at \in {"receive", "finish", "cancel"}
  /\ client[c].at = "finish" => client[c].status = "Success"
  /\ client[c].at = "cancel" => client[c].status = "FailedToReceive"
  /\ client[c].status = "FailedToReceive" =>
       /\ ServerGone
       /\ client[c].at \in {"close", "done"} => disk[c] = NoFile
  /\ client[c].status \in {"FailedToConnect", "FailedToOpen"} => disk[c] = Old
  /\ client[c].at \in {"finish", "close", "done"} /\ client[c].status = "Success" =>
       got[c] = FirstUnits(Len(got[c])) /\ Len(got[c]) <= Size

\* The inductive invariant: every file is what its client's status says.
FilesInv ==
  /\ TypeOK
  /\ ServesOne
  /\ BufferIsTail
  /\ \A c \in Clients : InOrder(c) /\ ClientParts(c)

\* The server has logged that it could not read the source for c.
Logged(c) == \E status \in {"FailedToOpen", "FailedToRead"} : <<c, status>> \in log

\* A connection that was served to its end was sent everything.
ServedWhole ==
  ts.at \in {"finish", "shutdown", "drain"} =>
    ts.read = Size \/ Logged(ts.conn) \/ stream[ts.conn].reset

ReceivedWhole(c) ==
  client[c].at \in {"finish", "close", "done"} /\ client[c].status = "Success" =>
    got[c] = FirstUnits(Size) \/ Logged(c)

WholeInv == ServedWhole /\ \A c \in Clients : ReceivedWhole(c)

-----------------------------------------------------------------------------
(* What the steps do to the records of the server and of a client.         *)

LEMMA ClientGoes ==
  ASSUME client \in [Clients -> ClientType], NEW c \in Clients,
         NEW at \in {"connect", "start", "receive", "finish", "cancel", "close", "done", "gone"},
         Goes(c, at)
  PROVE  /\ client' \in [Clients -> ClientType]
         /\ client'[c].at = at /\ client'[c].session = client[c].session
         /\ client'[c].status = client[c].status
         /\ \A d \in Clients \ {c} : client'[d] = client[d]
<1>1. client[c] \in ClientType
  OBVIOUS
<1>2. PICK p : p = [client[c] EXCEPT !.at = at]
  OBVIOUS
<1>3. /\ p \in ClientType /\ p.at = at /\ p.session = client[c].session
      /\ p.status = client[c].status
  BY <1>1, <1>2 DEF ClientType
<1>4. client' = [client EXCEPT ![c] = p]
  BY <1>2 DEF Goes
<1> QED
  BY <1>3, <1>4

LEMMA ClientFails ==
  ASSUME client \in [Clients -> ClientType], NEW c \in Clients,
         NEW at \in {"connect", "start", "receive", "finish", "cancel", "close", "done", "gone"},
         NEW status \in {"Success", "FailedToConnect", "FailedToOpen", "FailedToReceive"},
         Fails(c, at, status)
  PROVE  /\ client' \in [Clients -> ClientType]
         /\ client'[c].at = at /\ client'[c].session = client[c].session
         /\ client'[c].status = status
         /\ \A d \in Clients \ {c} : client'[d] = client[d]
<1>1. client[c] \in ClientType
  OBVIOUS
<1>2. PICK p : p = [client[c] EXCEPT !.at = at, !.status = status]
  OBVIOUS
<1>3. /\ p \in ClientType /\ p.at = at /\ p.session = client[c].session
      /\ p.status = status
  BY <1>1, <1>2 DEF ClientType
<1>4. client' = [client EXCEPT ![c] = p]
  BY <1>1, <1>2 DEF Fails, ClientType
<1> QED
  BY <1>3, <1>4

LEMMA ClientSession ==
  ASSUME client \in [Clients -> ClientType], NEW c \in Clients,
         NEW at \in {"connect", "start", "receive", "finish", "cancel", "close", "done", "gone"},
         NEW session \in BOOLEAN,
         client' = [client EXCEPT ![c].at = at, ![c].session = session]
  PROVE  /\ client' \in [Clients -> ClientType]
         /\ client'[c].at = at /\ client'[c].session = session
         /\ client'[c].status = client[c].status
         /\ \A d \in Clients \ {c} : client'[d] = client[d]
<1>1. client[c] \in ClientType
  OBVIOUS
<1>2. PICK p : p = [client[c] EXCEPT !.at = at, !.session = session]
  OBVIOUS
<1>3. /\ p \in ClientType /\ p.at = at /\ p.session = session
      /\ p.status = client[c].status
  BY <1>1, <1>2 DEF ClientType
<1>4. client' = [client EXCEPT ![c] = p]
  BY <1>1, <1>2 DEF ClientType
<1> QED
  BY <1>3, <1>4

-----------------------------------------------------------------------------
(* What a step leaves as it is.                                            *)

\* A connection that nobody has asked for has no end at the server.
LEMMA NobodyAsked ==
  NoStream.state["server"] = "none" /\ NoStream.toward["server"] = <<>>
<1>1. NoStream.state = [s \in Sides |-> "none"] /\ NoStream.toward = [s \in Sides |-> <<>>]
  BY NoStreamFields
<1> QED
  BY <1>1 DEF Sides

\* A client that nothing has happened to.
LEMMA ClientStays ==
  ASSUME NEW c \in Clients, InOrder(c), ClientParts(c),
         stream'[c] = stream[c], client'[c] = client[c], disk'[c] = disk[c],
         got'[c] = got[c], c \in short' <=> c \in short,
         Sent(c)' = Sent(c), ServerGone => ServerGone'
  PROVE  InOrder(c)' /\ ClientParts(c)'
<1>1. Came(c)' = Came(c) /\ Waiting(c)' = Waiting(c)
  BY DEF Came, Waiting
<1>2. InOrder(c)'
  BY <1>1 DEF InOrder
<1>3. ClientParts(c)'
  BY DEF ClientParts, FileKept
<1> QED
  BY <1>2, <1>3

\* A step of client c.
LEMMA ClientStep ==
  ASSUME FilesInv, NEW c \in Clients, TypeOK', ts' = ts,
         \A d \in Clients \ {c} :
           /\ stream'[d] = stream[d] /\ client'[d] = client[d] /\ disk'[d] = disk[d]
           /\ got'[d] = got[d] /\ (d \in short' <=> d \in short),
         \/ stream'[c].state["server"] = stream[c].state["server"]
         \/ /\ stream[c].state["server"] \notin {"open", "shut"}
            /\ stream'[c].state["server"] \notin {"open", "shut"},
         InOrder(c)', ClientParts(c)'
  PROVE  FilesInv'
<1>1. BufferIsTail'
  BY DEF FilesInv, BufferIsTail
<1>2. \A d \in Clients :
        \/ stream'[d].state["server"] = stream[d].state["server"]
        \/ /\ stream[d].state["server"] \notin {"open", "shut"}
           /\ stream'[d].state["server"] \notin {"open", "shut"}
  OBVIOUS
<1>3. ServesOne'
  <2>1. Serving' = Serving
    BY DEF Serving
  <2> QED
    BY <1>2, <2>1 DEF FilesInv, ServesOne, Serving
<1>4. ASSUME NEW d \in Clients
      PROVE  InOrder(d)' /\ ClientParts(d)'
  <2>1. CASE d = c
    BY <2>1
  <2>2. CASE d # c
    <3>1. Sent(d)' = Sent(d) /\ ServerGone' = ServerGone
      BY DEF Sent, ServerGone
    <3> QED
      BY <2>2, <3>1, ClientStays DEF FilesInv
  <2> QED
    BY <2>1, <2>2
<1> QED
  BY <1>1, <1>3, <1>4 DEF FilesInv

\* A step of the server.
LEMMA ServerStep ==
  ASSUME FilesInv, TypeOK', client' = client, disk' = disk, got' = got, short' = short,
         ServesOne', BufferIsTail',
         ServerGone => ServerGone',
         \A c \in Clients :
           \/ stream'[c] = stream[c] /\ Sent(c)' = Sent(c)
           \/ InOrder(c)' /\ ClientParts(c)'
  PROVE  FilesInv'
BY ClientStays DEF FilesInv

-----------------------------------------------------------------------------
(* The units of the source.                                                *)

LEMMA UnitsAreOrdered ==
  /\ \A n \in Nat : FirstUnits(n) \in Seq(Int) /\ Len(FirstUnits(n)) = n
  /\ FirstUnits(0) = <<>>
  /\ \A n \in Nat : FirstUnits(n) \notin {Old, NoFile}
<1>1. ASSUME NEW n \in Nat
      PROVE  FirstUnits(n) \in Seq(Int) /\ Len(FirstUnits(n)) = n
  BY DEF FirstUnits
<1>2. FirstUnits(0) = <<>>
  BY <1>1, EmptySeq
<1>3. ASSUME NEW n \in Nat
      PROVE  FirstUnits(n) \notin {Old, NoFile}
  <2>1. Len(Old) = 1 /\ Len(NoFile) = 1 /\ Old[1] = -1 /\ NoFile[1] = 0
    BY DEF Old, NoFile
  <2>2. n = 1 => FirstUnits(n)[1] = 1
    BY DEF FirstUnits
  <2> QED
    BY <1>1, <2>1, <2>2
<1> QED
  BY <1>1, <1>2, <1>3

\* The beginning of the source, followed by the units that come next.
LEMMA UnitsFollow ==
  ASSUME NEW s \in Seq(Int), NEW q \in Seq(Int), s = FirstUnits(Len(s)),
         \A i \in 1..Len(q) : q[i] = Len(s) + i, NEW u, Joins(u, s, q)
  PROVE  /\ u \in Seq(Int) /\ Len(u) = Len(s) + Len(q)
         /\ u = FirstUnits(Len(u))
<1>1. PICK n \in Nat : n = Len(s)
  OBVIOUS
<1>2. PICK m \in Nat : m = Len(q)
  OBVIOUS
<1>3. /\ u \in Seq(Int) /\ Len(u) = n + m
      /\ \A i \in 1..(n + m) : u[i] = IF i <= n THEN s[i] ELSE q[i - n]
  BY <1>1, <1>2, ConcatProperties DEF Joins
<1>4. FirstUnits(n + m) \in Seq(Int) /\ Len(FirstUnits(n + m)) = n + m
  BY UnitsAreOrdered
<1>5. ASSUME NEW i \in 1..(n + m)
      PROVE  u[i] = FirstUnits(n + m)[i]
  <2>1. FirstUnits(n + m)[i] = i
    BY DEF FirstUnits
  <2>2. CASE i <= n
    <3>1. i \in 1..n
      BY <2>2
    <3>2. FirstUnits(n)[i] = i
      BY <3>1 DEF FirstUnits
    <3> QED
      BY <1>1, <1>3, <2>1, <2>2, <3>2
  <2>3. CASE i > n
    <3>1. i - n \in 1..m /\ n + (i - n) = i
      BY <2>3
    <3>2. q[i - n] = i
      BY <1>1, <1>2, <3>1
    <3> QED
      BY <1>3, <2>1, <2>3, <3>2
  <2> QED
    BY <2>2, <2>3
<1>6. u = FirstUnits(n + m)
  BY <1>3, <1>4, <1>5, SeqEqual
<1> QED
  BY <1>1, <1>2, <1>3, <1>6

LEMMA SeqOfNat ==
  ASSUME NEW s \in Seq(Nat)
  PROVE  s \in Seq(Int)
<1>1. Nat \subseteq Int
  OBVIOUS
<1> QED
  BY <1>1, SeqMonotonic

LEMMA ConcatRegroups ==
  \A s, u, v \in Seq(Int) : (s \o u) \o v = s \o (u \o v)
OBVIOUS

\* What was joined one after the other can be joined in another order.
LEMMA JoinsRegroup ==
  ASSUME NEW s \in Seq(Int), NEW u \in Seq(Int), NEW v \in Seq(Int),
         NEW su, Joins(su, s, u), NEW uv, Joins(uv, u, v),
         NEW all, Joins(all, su, v)
  PROVE  Joins(all, s, uv)
<1>1. (s \o u) \o v = s \o (u \o v)
  BY ConcatRegroups
<1>2. su \o v = s \o uv
  BY <1>1 DEF Joins
<1> QED
  BY <1>2 DEF Joins

\* What recv returns to a client or to the server.
LEMMA ReceivesUnits ==
  ASSUME TransferAssumption, NEW k \in Streams(Nat), NEW s \in Sides,
         NEW r \in Receives(k, s, Chunk), NEW j, j = r.stream
  PROVE  /\ j \in Streams(Nat)
         /\ j.state = k.state /\ j.reset = k.reset
         /\ j.toward[Peer(s)] = k.toward[Peer(s)]
         /\ r.data \in Seq(Nat) /\ Joins(k.toward[s], r.data, j.toward[s])
         /\ r.ret \in Int /\ (r.ret > 0 => r.ret = Len(r.data))
         /\ r.ret = 0 => k.toward[s] = <<>> /\ k.state[Peer(s)] \in {"shut", "closed"} /\ ~k.reset
         /\ r.ret < 0 => k.reset
<1>1. Chunk \in Nat \ {0}
  BY DEF TransferAssumption
<1> QED
  BY <1>1, ReceivesFields

\* Old and no file are files, too.
LEMMA OldIsFile == Old \in Seq(Int) /\ NoFile \in Seq(Int) /\ <<>> \in Seq(Int)
BY EmptySeq DEF Old, NoFile

-----------------------------------------------------------------------------
(* The steps of a client.                                                  *)

LEMMA FilesInvInit == TransferAssumption /\ Init => FilesInv
<1> SUFFICES ASSUME TransferAssumption, Init PROVE FilesInv
  OBVIOUS
<1>1. ts.at = "bind" /\ ts.conn = NoClient /\ ts.buffer = <<>> /\ ts.read = 0
      /\ ~ts.session /\ ts \in ServerType
  BY EmptySeq DEF Init, ServerType, Stages
<1>2. \A c \in Clients : stream[c] = NoStream /\ disk[c] = Old /\ got[c] = <<>>
        /\ client[c] = [at |-> "connect", session |-> FALSE, status |-> "Success"]
  BY DEF Init
<1>3. TypeOK
  <2>1. client \in [Clients -> ClientType]
    BY DEF Init, ClientType
  <2>2. stream \in [Clients -> Streams(Nat)]
    BY NoStreamFields DEF Init
  <2>3. disk \in [Clients -> Seq(Int)] /\ got \in [Clients -> Seq(Int)] /\ short \subseteq Clients
    BY OldIsFile DEF Init
  <2> QED
    BY <1>1, <2>1, <2>2, <2>3 DEF TypeOK
<1>4. ServesOne
  <2>1. \A c \in Clients : stream[c].state["server"] = "none"
    BY <1>2, NobodyAsked
  <2> QED
    BY <1>1, <2>1 DEF ServesOne, Serving
<1>5. BufferIsTail
  <2>1. Len(ts.buffer) = 0 /\ Size \in Nat
    BY <1>1, EmptySeq DEF TransferAssumption
  <2> QED
    BY <1>1, <2>1 DEF BufferIsTail
<1>6. ASSUME NEW c \in Clients
      PROVE  InOrder(c) /\ ClientParts(c)
  <2>1. NoStream.toward["server"] = <<>>
    BY NobodyAsked
  <2>2. client[c].at = "connect" /\ ~client[c].session /\ client[c].status = "Success"
    BY <1>2
  <2> QED
    BY <1>2, <2>1, <2>2 DEF InOrder, ClientParts, FileKept, Waiting
<1> QED
  BY <1>3, <1>4, <1>5, <1>6 DEF FilesInv

LEMMA ConnectStep ==
  ASSUME TransferAssumption, FilesInv, NEW c \in Clients, Connect(c)
  PROVE  FilesInv'
<1> USE DEF FilesInv
<1>1. ts' = ts /\ disk' = disk /\ got' = got /\ short' = short /\ client[c].at = "connect"
  BY DEF Connect, history
<1>2. /\ client \in [Clients -> ClientType] /\ stream \in [Clients -> Streams(Nat)]
      /\ stream[c] = NoStream /\ disk[c] = Old /\ got[c] = <<>> /\ client[c].status = "Success"
      /\ ~client[c].session
  BY <1>1 DEF TypeOK, ClientParts
<1>3. CASE ts.socket = "listening"
  <2>1. Goes(c, "start") /\ stream' = [stream EXCEPT ![c] = Connected]
    BY <1>3 DEF Connect
  <2>2. /\ client' \in [Clients -> ClientType]
        /\ client'[c].at = "start" /\ client'[c].session = client[c].session
        /\ client'[c].status = client[c].status
        /\ \A d \in Clients \ {c} : client'[d] = client[d]
    BY <1>2, <2>1, ClientGoes
  <2>3. /\ stream' \in [Clients -> Streams(Nat)] /\ stream'[c] = Connected
        /\ \A d \in Clients \ {c} : stream'[d] = stream[d]
    BY <1>2, <2>1, ConnectedFields
  <2>4. TypeOK'
    BY <1>1, <2>2, <2>3 DEF TypeOK
  <2>5. stream[c].state["server"] = "none"
    BY <1>2, NobodyAsked
  <2>6. Sent(c)' = 0
    <3>1. ts.conn # c
      BY <1>3, <2>5 DEF TransferAssumption, ServesOne, Serving
    <3> QED
      BY <1>1, <3>1 DEF Sent
  <2>7. /\ Connected.toward["client"] = <<>> /\ Connected.toward["server"] = <<>>
        /\ Connected.state["client"] = "open" /\ Connected.state["server"] = "pending"
        /\ Connected.reset = FALSE
    BY ConnectedFields DEF Sides
  <2>8. InOrder(c)'
    <3>1. Came(c)' = <<>>
      BY <2>2, <2>3, <2>7 DEF Came
    <3>2. Len(<<>>) = 0 /\ <<>> = FirstUnits(0) /\ 0 <= Size
      BY UnitsAreOrdered, EmptySeq DEF TransferAssumption
    <3> QED
      BY <1>2, <2>2, <2>3, <2>6, <2>7, <3>1, <3>2 DEF InOrder
  <2>9. ClientParts(c)'
    BY <1>1, <1>2, <2>2, <2>3, <2>7 DEF ClientParts, FileKept
  <2> QED
    BY <1>1, <2>2, <2>3, <2>4, <2>5, <2>7, <2>8, <2>9, ClientStep
<1>4. CASE ts.socket # "listening"
  <2>1. Fails(c, "done", "FailedToConnect") /\ stream' = stream
    BY <1>4 DEF Connect
  <2>2. /\ client' \in [Clients -> ClientType]
        /\ client'[c].at = "done" /\ client'[c].session = client[c].session
        /\ client'[c].status = "FailedToConnect"
        /\ \A d \in Clients \ {c} : client'[d] = client[d]
    BY <1>2, <2>1, ClientFails
  <2>3. TypeOK'
    BY <1>1, <2>1, <2>2 DEF TypeOK
  <2>4. InOrder(c)'
    BY <2>2 DEF InOrder, Waiting
  <2>5. ClientParts(c)'
    BY <1>1, <1>2, <2>1, <2>2 DEF ClientParts, FileKept
  <2> QED
    BY <1>1, <2>1, <2>2, <2>3, <2>4, <2>5, ClientStep
<1> QED
  BY <1>3, <1>4

LEMMA SinkStartStep ==
  ASSUME FilesInv, NEW c \in Clients, SinkStart(c)
  PROVE  FilesInv'
<1> USE DEF FilesInv
<1>1. ts' = ts /\ stream' = stream /\ got' = got /\ short' = short /\ client[c].at = "start"
  BY DEF SinkStart, history
<1>2. /\ client \in [Clients -> ClientType] /\ disk \in [Clients -> Seq(Int)]
      /\ disk[c] = Old /\ got[c] = <<>> /\ client[c].status = "Success" /\ ~client[c].session
      /\ Waiting(c)
  BY <1>1 DEF TypeOK, ClientParts, InOrder, Waiting
<1>3. CASE /\ client' = [client EXCEPT ![c].at = "receive", ![c].session = TRUE]
           /\ disk' = [disk EXCEPT ![c] = <<>>]
  <2>1. /\ client' \in [Clients -> ClientType]
        /\ client'[c].at = "receive" /\ client'[c].session
        /\ client'[c].status = "Success"
        /\ \A d \in Clients \ {c} : client'[d] = client[d]
    BY <1>2, <1>3, ClientSession
  <2>2. /\ disk' \in [Clients -> Seq(Int)] /\ disk'[c] = <<>>
        /\ \A d \in Clients \ {c} : disk'[d] = disk[d]
    BY <1>2, <1>3, OldIsFile
  <2>3. TypeOK'
    BY <1>1, <2>1, <2>2 DEF TypeOK
  <2>4. InOrder(c)'
    <3>1. Came(c)' = Came(c) /\ Sent(c)' = Sent(c)
      BY <1>1, <1>2, <2>1, <2>2 DEF Came, Sent
    <3> QED
      BY <1>1, <1>2, <2>1, <3>1 DEF InOrder, ServerGone
  <2>5. FileKept(c)'
    <3>1. disk'[c] = got'[c] /\ Len(disk'[c]) = 0
      BY <1>1, <1>2, <2>2, EmptySeq
    <3> QED
      BY <3>1 DEF FileKept, SomeOfFirst
  <2>6. ClientParts(c)'
    BY <1>1, <1>2, <2>1, <2>2, <2>5 DEF ClientParts
  <2> QED
    BY <1>1, <2>1, <2>2, <2>3, <2>4, <2>6, ClientStep
<1>4. CASE Fails(c, "close", "FailedToOpen") /\ disk' = disk
  <2>1. /\ client' \in [Clients -> ClientType]
        /\ client'[c].at = "close" /\ client'[c].session = client[c].session
        /\ client'[c].status = "FailedToOpen"
        /\ \A d \in Clients \ {c} : client'[d] = client[d]
    BY <1>2, <1>4, ClientFails
  <2>2. TypeOK'
    BY <1>1, <1>4, <2>1 DEF TypeOK
  <2>3. InOrder(c)'
    BY <2>1 DEF InOrder, Waiting
  <2>4. ClientParts(c)'
    BY <1>1, <1>2, <1>4, <2>1 DEF ClientParts, FileKept
  <2> QED
    BY <1>1, <1>4, <2>1, <2>2, <2>3, <2>4, ClientStep
<1> QED
  BY <1>3, <1>4 DEF SinkStart

\* The beginning of a file that is in order is in order.
LEMMA BeginningKept ==
  ASSUME NEW s \in Seq(Int), NEW n \in Nat, SomeOfFirst(s, n), NEW m \in 0..Len(s),
         NEW u, u = Before(s, m)
  PROVE  u \in Seq(Int) /\ SomeOfFirst(u, n) /\ (m = Len(s) => u = s)
<1>1. u \in Seq(Int) /\ Len(u) = m /\ \A i \in 1..m : u[i] = s[i]
  BY BeforeFields
<1>2. m \in Nat /\ m <= Len(s) /\ Len(s) \in Nat
  BY LenProperties
<1>3. \A i \in 1..m : i \in 1..Len(s)
  BY <1>2
<1>4. SomeOfFirst(u, n)
  BY <1>1, <1>3 DEF SomeOfFirst
<1>5. m = Len(s) => u = s
  BY <1>1, SeqEqual
<1> QED
  BY <1>1, <1>4, <1>5

\* A file in order to which the disk takes the first m of the units that come next.
LEMMA AppendKept ==
  ASSUME NEW s \in Seq(Int), NEW n \in Nat, SomeOfFirst(s, n), NEW q \in Seq(Int),
         \A i \in 1..Len(q) : q[i] = n + i, NEW m \in 0..Len(q),
         NEW u, Joins(u, s, Before(q, m))
  PROVE  u \in Seq(Int) /\ SomeOfFirst(u, n + Len(q))
<1>1. PICK v : v = Before(q, m)
  OBVIOUS
<1>2. v \in Seq(Int) /\ Len(v) = m /\ \A i \in 1..m : v[i] = q[i]
  BY <1>1, BeforeFields
<1>3. PICK l \in Nat : l = Len(s)
  BY LenProperties
<1>4. PICK p \in Nat : p = Len(q)
  BY LenProperties
<1>5. m \in Nat /\ m <= p
  BY <1>4
<1>6. /\ u \in Seq(Int) /\ Len(u) = l + m
      /\ \A i \in 1..(l + m) : u[i] = IF i <= l THEN s[i] ELSE v[i - l]
  <2>1. u = s \o v
    BY <1>1 DEF Joins
  <2>2. v \in Seq(Int) /\ Len(v) = m /\ Len(s) = l
    BY <1>2, <1>3
  <2> QED
    BY <1>5, <2>1, <2>2, ConcatProperties
<1>7. \A i \in 1..(l + m) : i > l => u[i] = n + (i - l)
  <2> SUFFICES ASSUME NEW i \in 1..(l + m), i > l
               PROVE  u[i] = n + (i - l)
    OBVIOUS
  <2>1. i - l \in 1..m /\ i - l \in 1..p
    BY <1>5
  <2>2. v[i - l] = q[i - l] /\ q[i - l] = n + (i - l)
    BY <1>2, <1>4, <2>1
  <2> QED
    BY <1>6, <2>2
<1>8. \A i \in 1..(l + m) : i <= l => u[i] = s[i] /\ i \in 1..l
  BY <1>6
<1>9. \A i \in 1..l : s[i] \in 1..n /\ \A j \in 1..l : i < j => s[i] < s[j]
  BY <1>3 DEF SomeOfFirst
<1>10. ASSUME NEW i \in 1..(l + m)
       PROVE  u[i] \in 1..(n + p) /\ \A j \in 1..(l + m) : i < j => u[i] < u[j]
  <2>1. CASE i > l
    <3>1. u[i] = n + (i - l) /\ i - l \in 1..m
      BY <1>7, <2>1
    <3>2. \A j \in 1..(l + m) : i < j => u[j] = n + (j - l)
      BY <1>7, <2>1
    <3> QED
      BY <1>5, <3>1, <3>2
  <2>2. CASE i <= l
    <3>1. u[i] = s[i] /\ i \in 1..l /\ s[i] \in 1..n
      BY <1>8, <1>9, <2>2
    <3>2. ASSUME NEW j \in 1..(l + m), i < j
          PROVE  u[i] < u[j]
      <4>1. CASE j <= l
        BY <1>8, <1>9, <3>1, <3>2, <4>1
      <4>2. CASE j > l
        <5>1. u[j] = n + (j - l)
          BY <1>7, <4>2
        <5> QED
          BY <3>1, <4>2, <5>1
      <4> QED
        BY <4>1, <4>2
    <3> QED
      BY <3>1, <3>2
  <2> QED
    BY <2>1, <2>2
<1> QED
  BY <1>4, <1>6, <1>10 DEF SomeOfFirst

\* What is joined to give the beginning of the source is each a part of it.
LEMMA PartsOfFirst ==
  ASSUME NEW s \in Seq(Int), NEW q \in Seq(Int), NEW u, Joins(u, s, q),
         u = FirstUnits(Len(u))
  PROVE  /\ s = FirstUnits(Len(s)) /\ Len(s) <= Len(u)
         /\ \A i \in 1..Len(q) : q[i] = Len(s) + i
<1>1. PICK l \in Nat, m \in Nat : l = Len(s) /\ m = Len(q)
  BY LenProperties
<1>2. /\ Len(u) = l + m
      /\ \A i \in 1..(l + m) : u[i] = IF i <= l THEN s[i] ELSE q[i - l]
  BY <1>1, ConcatProperties DEF Joins
<1>3. \A i \in 1..(l + m) : u[i] = i
  BY <1>2 DEF FirstUnits
<1>4. s = FirstUnits(l)
  <2>1. FirstUnits(l) \in Seq(Int) /\ Len(FirstUnits(l)) = l
    BY UnitsAreOrdered
  <2>2. ASSUME NEW i \in 1..l
        PROVE  s[i] = FirstUnits(l)[i]
    <3>1. i \in 1..(l + m) /\ i <= l
      OBVIOUS
    <3>2. FirstUnits(l)[i] = i
      BY DEF FirstUnits
    <3> QED
      BY <1>2, <1>3, <3>1, <3>2
  <2> QED
    BY <1>1, <2>1, <2>2, SeqEqual
<1>5. ASSUME NEW i \in 1..m
      PROVE  q[i] = l + i
  <2>1. l + i \in 1..(l + m) /\ ~(l + i <= l) /\ (l + i) - l = i
    OBVIOUS
  <2> QED
    BY <1>2, <1>3, <2>1
<1> QED
  BY <1>1, <1>2, <1>4, <1>5

LEMMA ReceiveStep ==
  ASSUME TransferAssumption, FilesInv, NEW c \in Clients, Receive(c)
  PROVE  FilesInv'
<1> USE DEF FilesInv
<1>1. ts' = ts /\ client[c].at = "receive"
  BY DEF Receive
<1>2. /\ client \in [Clients -> ClientType] /\ disk \in [Clients -> Seq(Int)]
      /\ got \in [Clients -> Seq(Int)] /\ short \subseteq Clients
      /\ stream \in [Clients -> Streams(Nat)] /\ Waiting(c)
      /\ client[c].status = "Success" /\ stream[c].toward["server"] = <<>>
  BY <1>1 DEF TypeOK, ClientParts, InOrder, Waiting
<1>3. PICK r \in Receives(stream[c], "client", Chunk) :
         /\ stream' = [stream EXCEPT ![c] = r.stream]
         /\ \/ /\ r.ret > 0
               /\ \E n \in Taken(r.ret) :
                    Keeps(c, disk[c] \o SubSeq(r.data, 1, n), r.ret - n)
               /\ got' = [got EXCEPT ![c] = @ \o r.data]
               /\ client' = client
            \/ r.ret = 0 /\ Goes(c, "finish") /\ disk' = disk /\ got' = got /\ short' = short
            \/ /\ r.ret < 0 /\ Fails(c, "cancel", "FailedToReceive")
               /\ disk' = disk /\ got' = got /\ short' = short
  BY DEF Receive, history
<1>4. PICK j : j = r.stream
  OBVIOUS
<1>5. PICK k \in Streams(Nat) : k = stream[c]
  BY <1>2
<1>6. /\ j \in Streams(Nat) /\ j.state = k.state /\ j.reset = k.reset
      /\ j.toward["server"] = k.toward["server"]
      /\ r.data \in Seq(Nat) /\ Joins(k.toward["client"], r.data, j.toward["client"])
      /\ r.ret \in Int /\ (r.ret > 0 => r.ret = Len(r.data))
      /\ r.ret = 0 => k.toward["client"] = <<>>
      /\ r.ret < 0 => k.reset
  <2>1. r \in Receives(k, "client", Chunk) /\ "client" \in Sides /\ Peer("client") = "server"
    BY <1>5 DEF Sides, Peer
  <2> QED
    BY <1>5, <1>4, <2>1, ReceivesUnits
<1>7. /\ stream' \in [Clients -> Streams(Nat)] /\ stream'[c] = j
      /\ \A d \in Clients \ {c} : stream'[d] = stream[d]
  BY <1>2, <1>3, <1>4, <1>6
<1>8. Sent(c)' = Sent(c) /\ ServerGone' = ServerGone
  BY <1>1 DEF Sent, ServerGone
<1>9. CASE /\ r.ret > 0
           /\ \E n \in Taken(r.ret) : Keeps(c, disk[c] \o SubSeq(r.data, 1, n), r.ret - n)
           /\ got' = [got EXCEPT ![c] = @ \o r.data]
           /\ client' = client
  <2>1. PICK s \in Seq(Int), f \in Seq(Int) : s = got[c] /\ f = disk[c]
    BY <1>2
  <2>2. PICK u \in Seq(Int), v \in Seq(Int) : u = r.data /\ v = j.toward["client"]
    <3>1. j.toward["client"] \in Seq(Nat)
      BY <1>6 DEF Streams, Sides
    <3>2. r.data \in Seq(Int) /\ j.toward["client"] \in Seq(Int)
      BY <1>6, <3>1, SeqOfNat
    <3> QED
      BY <3>2
  <2>3. PICK all : Joins(all, s, u)
    BY DEF Joins
  <2>4. all \in Seq(Int) /\ Len(all) = Len(s) + Len(u)
    BY <2>1, <2>2, <2>3, ConcatProperties DEF Joins
  <2>5. /\ got' \in [Clients -> Seq(Int)] /\ got'[c] = all
        /\ \A d \in Clients \ {c} : got'[d] = got[d]
    BY <1>2, <1>9, <2>1, <2>2, <2>3, <2>4 DEF Joins
  <2>6. PICK n \in 0..Len(u) :
          /\ disk' = [disk EXCEPT ![c] = f \o Before(u, n)]
          /\ short' = IF Len(u) - n > 0 THEN short \cup {c} ELSE short
    <3>1. r.ret = Len(u) /\ Len(u) \in Nat
      BY <1>6, <1>9, <2>2, LenProperties
    <3>2. Taken(r.ret) \subseteq 0..Len(u)
      BY <3>1 DEF Taken
    <3>3. PICK n \in Taken(r.ret) : Keeps(c, disk[c] \o SubSeq(r.data, 1, n), r.ret - n)
      BY <1>9
    <3> QED
      BY <2>1, <2>2, <3>1, <3>2, <3>3 DEF Keeps, Before
  <2>7. PICK new : Joins(new, f, Before(u, n))
    BY DEF Joins
  <2>8. Came(c) = FirstUnits(Len(Came(c))) /\ Joins(Came(c), all, v)
    <3>1. PICK uv : Joins(uv, u, v)
      BY DEF Joins
    <3>2. stream[c].toward["client"] = uv
      BY <1>5, <1>6, <2>2, <3>1 DEF Joins
    <3>3. Came(c) = s \o uv
      BY <1>1, <2>1, <3>2 DEF Came
    <3>4. (s \o u) \o v = s \o (u \o v)
      BY ONLY ConcatRegroups, s \in Seq(Int), u \in Seq(Int), v \in Seq(Int)
    <3>5. Came(c) = all \o v
      BY <2>3, <3>1, <3>3, <3>4 DEF Joins
    <3> QED
      BY <1>2, <3>5 DEF InOrder, Joins
  <2>9. all = FirstUnits(Len(all))
    <3>1. PICK came : came = FirstUnits(Len(came)) /\ Joins(came, all, v)
      BY <2>8
    <3> QED
      BY <2>2, <2>4, <3>1, PartsOfFirst
  <2>10. \A i \in 1..Len(u) : u[i] = Len(s) + i
    BY <2>1, <2>2, <2>3, <2>9, PartsOfFirst
  <2>11. (f = s \/ c \in short) /\ SomeOfFirst(f, Len(s)) /\ Len(s) \in Nat
    BY <1>1, <1>2, <2>1, LenProperties DEF ClientParts, FileKept
  <2>12. new \in Seq(Int) /\ SomeOfFirst(new, Len(all))
    <3>1. PICK l \in Nat : l = Len(s)
      BY <2>11
    <3>2. SomeOfFirst(f, l) /\ \A i \in 1..Len(u) : u[i] = l + i
      BY <2>10, <2>11, <3>1
    <3>3. new \in Seq(Int) /\ SomeOfFirst(new, l + Len(u))
      BY <2>1, <2>2, <2>6, <2>7, <3>1, <3>2, AppendKept
    <3> QED
      BY <2>4, <3>1, <3>3
  <2>13. /\ disk' \in [Clients -> Seq(Int)] /\ disk'[c] = new
         /\ \A d \in Clients \ {c} : disk'[d] = disk[d]
    BY <1>2, <2>6, <2>7, <2>12 DEF Joins
  <2>14. /\ short' \subseteq Clients
         /\ \A d \in Clients \ {c} : d \in short' <=> d \in short
         /\ c \in short => c \in short'
    BY <1>2, <2>6
  <2>15. new = all \/ c \in short'
    <3>1. CASE n = Len(u)
      <4>1. Before(u, n) = u
        <5>1. /\ Before(u, n) \in Seq(Int) /\ Len(Before(u, n)) = n
              /\ \A i \in 1..n : Before(u, n)[i] = u[i]
          BY <2>2, BeforeFields
        <5> QED
          BY <3>1, <5>1, SeqEqual
      <4> QED
        BY <2>3, <2>7, <2>11, <2>14, <4>1 DEF Joins
    <3>2. CASE n # Len(u)
      <4>1. Len(u) - n > 0
        BY <2>2, <3>2, LenProperties
      <4> QED
        BY <2>6, <4>1
    <3> QED
      BY <3>1, <3>2
  <2>16. TypeOK'
    BY <1>1, <1>7, <1>9, <2>5, <2>13, <2>14 DEF TypeOK
  <2>17. InOrder(c)'
    <3>1. Came(c)' = all \o v
      BY <1>1, <1>7, <1>9, <2>2, <2>5 DEF Came
    <3>2. Came(c)' = Came(c)
      BY <2>8, <3>1 DEF Joins
    <3> QED
      BY <1>2, <1>5, <1>6, <1>7, <1>8, <1>9, <3>2 DEF InOrder
  <2>18. FileKept(c)'
    BY <2>5, <2>12, <2>13, <2>15 DEF FileKept
  <2>19. ClientParts(c)'
    BY <1>1, <1>2, <1>5, <1>6, <1>7, <1>8, <1>9, <2>18 DEF ClientParts
  <2> QED
    BY <1>1, <1>5, <1>6, <1>7, <1>9, <2>5, <2>13, <2>14, <2>16, <2>17, <2>19, ClientStep
<1>10. CASE /\ r.ret = 0 /\ Goes(c, "finish")
            /\ disk' = disk /\ got' = got /\ short' = short
  <2>1. /\ client' \in [Clients -> ClientType]
        /\ client'[c].at = "finish" /\ client'[c].session = client[c].session
        /\ client'[c].status = client[c].status
        /\ \A d \in Clients \ {c} : client'[d] = client[d]
    BY <1>2, <1>10, ClientGoes
  <2>2. TypeOK'
    BY <1>1, <1>7, <1>10, <2>1 DEF TypeOK
  <2>3. InOrder(c)'
    BY <2>1 DEF InOrder, Waiting
  <2>4. got[c] = FirstUnits(Len(got[c])) /\ Len(got[c]) <= Size
    <3>1. stream[c].toward["client"] = <<>>
      BY <1>5, <1>6, <1>10
    <3>2. Came(c) = got[c]
      BY <1>1, <1>2, <3>1, ConcatEmptySeq DEF Came
    <3> QED
      BY <1>2, <3>2 DEF InOrder
  <2>5. FileKept(c)'
    BY <1>1, <1>2, <1>10, <2>1 DEF FileKept, ClientParts
  <2>6. ClientParts(c)'
    BY <1>2, <1>5, <1>6, <1>7, <1>10, <2>1, <2>4, <2>5 DEF ClientParts
  <2> QED
    BY <1>1, <1>5, <1>6, <1>7, <1>10, <2>1, <2>2, <2>3, <2>6, ClientStep
<1>11. CASE /\ r.ret < 0 /\ Fails(c, "cancel", "FailedToReceive")
            /\ disk' = disk /\ got' = got /\ short' = short
  <2>1. /\ client' \in [Clients -> ClientType]
        /\ client'[c].at = "cancel" /\ client'[c].session = client[c].session
        /\ client'[c].status = "FailedToReceive"
        /\ \A d \in Clients \ {c} : client'[d] = client[d]
    BY <1>2, <1>11, ClientFails
  <2>2. TypeOK'
    BY <1>1, <1>7, <1>11, <2>1 DEF TypeOK
  <2>3. InOrder(c)'
    BY <2>1 DEF InOrder, Waiting
  <2>4. ServerGone'
    BY <1>2, <1>5, <1>6, <1>8, <1>11 DEF InOrder
  <2>5. ClientParts(c)'
    BY <1>2, <1>5, <1>6, <1>7, <1>11, <2>1, <2>4 DEF ClientParts, FileKept
  <2> QED
    BY <1>1, <1>5, <1>6, <1>7, <1>11, <2>1, <2>2, <2>3, <2>5, ClientStep
<1> QED
  BY <1>3, <1>9, <1>10, <1>11

\* The sink is closed, with its file removed or left.
LEMMA SinkEndStep ==
  ASSUME FilesInv, NEW c \in Clients, SinkCancel(c) \/ SinkFinish(c)
  PROVE  FilesInv'
<1> USE DEF FilesInv
<1>1. /\ ts' = ts /\ stream' = stream /\ got' = got
      /\ client' = [client EXCEPT ![c].at = "close", ![c].session = FALSE]
      /\ \/ /\ client[c].at = "cancel" /\ disk' = [disk EXCEPT ![c] = NoFile]
            /\ short' = short
         \/ /\ client[c].at = "finish"
            /\ \E n \in Taken(Len(disk[c])) :
                 Keeps(c, SubSeq(disk[c], 1, n), Len(disk[c]) - n)
  BY DEF SinkCancel, SinkFinish, history
<1>2. /\ client \in [Clients -> ClientType] /\ disk \in [Clients -> Seq(Int)]
      /\ got \in [Clients -> Seq(Int)] /\ short \subseteq Clients /\ ClientParts(c)
  BY DEF TypeOK
<1>3. /\ client' \in [Clients -> ClientType]
      /\ client'[c].at = "close" /\ ~client'[c].session
      /\ client'[c].status = client[c].status
      /\ \A d \in Clients \ {c} : client'[d] = client[d]
  BY <1>1, <1>2, ClientSession
<1>4. ServerGone' = ServerGone
  BY <1>1 DEF ServerGone
<1>5. InOrder(c)'
  BY <1>3 DEF InOrder, Waiting
<1>6. CASE /\ client[c].at = "cancel" /\ disk' = [disk EXCEPT ![c] = NoFile]
           /\ short' = short
  <2>1. /\ disk' \in [Clients -> Seq(Int)] /\ disk'[c] = NoFile
        /\ \A d \in Clients \ {c} : disk'[d] = disk[d]
    BY <1>2, <1>6, OldIsFile
  <2>2. TypeOK'
    BY <1>1, <1>3, <1>6, <2>1 DEF TypeOK
  <2>3. ClientParts(c)'
    BY <1>1, <1>2, <1>3, <1>4, <1>6, <2>1 DEF ClientParts, FileKept
  <2> QED
    BY <1>1, <1>3, <1>5, <1>6, <2>1, <2>2, <2>3, ClientStep
<1>7. CASE /\ client[c].at = "finish"
           /\ \E n \in Taken(Len(disk[c])) :
                Keeps(c, SubSeq(disk[c], 1, n), Len(disk[c]) - n)
  <2>1. PICK f \in Seq(Int) : f = disk[c]
    BY <1>2
  <2>2. PICK n \in 0..Len(f) :
          /\ disk' = [disk EXCEPT ![c] = Before(f, n)]
          /\ short' = IF Len(f) - n > 0 THEN short \cup {c} ELSE short
    <3>1. Len(f) \in Nat
      BY <2>1, LenProperties
    <3>2. Taken(Len(f)) \subseteq 0..Len(f)
      BY <3>1 DEF Taken
    <3> QED
      BY <1>7, <2>1, <3>2 DEF Keeps, Before
  <2>3. PICK new : new = Before(f, n)
    OBVIOUS
  <2>4. (f = got[c] \/ c \in short) /\ SomeOfFirst(f, Len(got[c])) /\ Len(got[c]) \in Nat
    BY <1>2, <1>7, <2>1, LenProperties DEF ClientParts, FileKept
  <2>5. new \in Seq(Int) /\ SomeOfFirst(new, Len(got[c])) /\ (n = Len(f) => new = f)
    BY <2>1, <2>2, <2>3, <2>4, BeginningKept
  <2>6. /\ disk' \in [Clients -> Seq(Int)] /\ disk'[c] = new
        /\ \A d \in Clients \ {c} : disk'[d] = disk[d]
    BY <1>2, <2>2, <2>3, <2>5
  <2>7. /\ short' \subseteq Clients
        /\ \A d \in Clients \ {c} : d \in short' <=> d \in short
        /\ c \in short => c \in short'
    BY <1>2, <2>2
  <2>8. new = got[c] \/ c \in short'
    <3>1. CASE n = Len(f)
      BY <2>4, <2>5, <2>7, <3>1
    <3>2. CASE n # Len(f)
      <4>1. Len(f) - n > 0
        BY <2>1, <2>2, <3>2, LenProperties
      <4> QED
        BY <2>2, <4>1
    <3> QED
      BY <3>1, <3>2
  <2>9. TypeOK'
    BY <1>1, <1>3, <2>6, <2>7 DEF TypeOK
  <2>10. FileKept(c)'
    BY <1>1, <2>5, <2>6, <2>8 DEF FileKept
  <2>11. ClientParts(c)'
    BY <1>1, <1>2, <1>3, <1>4, <1>7, <2>10 DEF ClientParts
  <2> QED
    BY <1>1, <1>3, <1>5, <2>6, <2>7, <2>9, <2>11, ClientStep
<1> QED
  BY <1>1, <1>6, <1>7

LEMMA CloseStep ==
  ASSUME FilesInv, NEW c \in Clients, Close(c)
  PROVE  FilesInv'
<1> USE DEF FilesInv
<1>1. /\ ts' = ts /\ disk' = disk /\ got' = got /\ short' = short
      /\ client[c].at = "close" /\ Goes(c, "done")
      /\ stream' = [stream EXCEPT ![c] = Closed(@, "client")]
  BY DEF Close, history
<1>2. client \in [Clients -> ClientType] /\ stream \in [Clients -> Streams(Nat)]
  BY DEF TypeOK
<1>3. /\ client' \in [Clients -> ClientType]
      /\ client'[c].at = "done" /\ client'[c].session = client[c].session
      /\ client'[c].status = client[c].status
      /\ \A d \in Clients \ {c} : client'[d] = client[d]
  BY <1>1, <1>2, ClientGoes
<1>4. PICK k : k = Closed(stream[c], "client")
  OBVIOUS
<1>5. /\ k \in Streams(Nat) /\ k.state["server"] = stream[c].state["server"]
      /\ k.toward["server"] = stream[c].toward["server"]
  BY <1>2, <1>4, ClosedFields DEF Sides, Peer
<1>6. /\ stream' \in [Clients -> Streams(Nat)] /\ stream'[c] = k
      /\ \A d \in Clients \ {c} : stream'[d] = stream[d]
  BY <1>1, <1>2, <1>4, <1>5
<1>7. TypeOK'
  BY <1>1, <1>3, <1>6 DEF TypeOK
<1>8. InOrder(c)'
  BY <1>3 DEF InOrder, Waiting
<1>9. ClientParts(c)'
  <2>1. ServerGone' = ServerGone
    BY <1>1 DEF ServerGone
  <2> QED
    BY <1>1, <1>3, <1>5, <1>6, <2>1 DEF ClientParts, FileKept
<1> QED
  BY <1>1, <1>3, <1>5, <1>6, <1>7, <1>8, <1>9, ClientStep

LEMMA LeaveStep ==
  ASSUME FilesInv, NEW c \in Clients, Leave(c)
  PROVE  FilesInv'
<1> USE DEF FilesInv
<1>1. /\ ts' = ts /\ disk' = disk /\ got' = got /\ short' = short /\ Waiting(c)
      /\ client' = [client EXCEPT ![c].at = "gone", ![c].session = FALSE]
  BY DEF Leave, Waiting, history
<1>2. /\ client \in [Clients -> ClientType] /\ stream \in [Clients -> Streams(Nat)]
      /\ client[c].status = "Success"
  BY <1>1 DEF TypeOK, InOrder
<1>3. /\ client' \in [Clients -> ClientType]
      /\ client'[c].at = "gone" /\ ~client'[c].session
      /\ client'[c].status = client[c].status
      /\ \A d \in Clients \ {c} : client'[d] = client[d]
  BY <1>1, <1>2, ClientSession
<1>4. PICK k \in Departures(stream[c], "client") : stream' = [stream EXCEPT ![c] = k]
  BY DEF Leave
<1>5. /\ k \in Streams(Nat) /\ k.state["server"] = stream[c].state["server"]
      /\ k.toward["server"] = stream[c].toward["server"]
  BY <1>2, <1>4, DepartureFields DEF Sides, Peer
<1>6. /\ stream' \in [Clients -> Streams(Nat)] /\ stream'[c] = k
      /\ \A d \in Clients \ {c} : stream'[d] = stream[d]
  BY <1>2, <1>4, <1>5
<1>7. TypeOK'
  BY <1>1, <1>3, <1>6 DEF TypeOK
<1>8. InOrder(c)'
  BY <1>3 DEF InOrder, Waiting
<1>9. ClientParts(c)'
  BY <1>1, <1>2, <1>3, <1>5, <1>6 DEF ClientParts, FileKept
<1> QED
  BY <1>1, <1>3, <1>5, <1>6, <1>7, <1>8, <1>9, ClientStep

-----------------------------------------------------------------------------
(* The steps of the server.                                                *)

LEMMA ServerFields ==
  ASSUME TypeOK
  PROVE  /\ ts \in ServerType /\ ts.read \in Nat /\ ts.buffer \in Seq(Nat)
         /\ Len(ts.buffer) \in Nat /\ ts.at \in Stages /\ ts.session \in BOOLEAN
         /\ stream \in [Clients -> Streams(Nat)]
BY LenProperties DEF TypeOK, ServerType

\* A step of the server that touches no connection and hands nothing over.
LEMMA QuietStep ==
  ASSUME FilesInv, stream' = stream, client' = client, disk' = disk, got' = got, short' = short,
         ts' \in ServerType, ts'.conn = ts.conn,
         ts'.read - Len(ts'.buffer) = ts.read - Len(ts.buffer),
         ServesOne', BufferIsTail', ~ServerGone
  PROVE  FilesInv'
<1>1. TypeOK'
  BY DEF FilesInv, TypeOK
<1>2. \A c \in Clients : Sent(c)' = Sent(c)
  BY DEF Sent
<1> QED
  BY <1>1, <1>2, ServerStep

\* ts_create, and the end of ts_run.
LEMMA SetUpStep ==
  ASSUME TransferAssumption, FilesInv, CreateAndBind \/ Listen \/ Stop
  PROVE  FilesInv'
<1>1. stream' = stream /\ client' = client /\ disk' = disk /\ got' = got /\ short' = short
  BY DEF CreateAndBind, Listen, Stop, clients, history
<1>2. ts \in ServerType /\ ts.read \in Nat /\ ts.at \in {"bind", "listen", "select"}
  BY ServerFields DEF FilesInv, CreateAndBind, Listen, Stop
<1>3. /\ ts' \in ServerType /\ ts'.at \in {"bind", "listen", "select", "destroy"}
      /\ ts'.conn = ts.conn /\ ts'.read = ts.read /\ ts'.buffer = ts.buffer
      /\ ts'.session = ts.session
  <2>1. CASE CreateAndBind
    <3>1. ts.address + 1 \in Nat
      BY <1>2 DEF ServerType
    <3>2. PICK a \in Nat : a = ts.address + 1
      BY <3>1
    <3>3. \/ ts' = [ts EXCEPT !.at = "listen", !.socket = "bound"]
          \/ ts' = [ts EXCEPT !.address = a]
          \/ ts' = [ts EXCEPT !.at = "destroy", !.status = "FailedToBind"]
      BY <2>1, <3>2 DEF CreateAndBind
    <3>4. CASE ts' = [ts EXCEPT !.at = "listen", !.socket = "bound"]
      BY <1>2, <3>4 DEF ServerType, Stages
    <3>5. CASE ts' = [ts EXCEPT !.address = a]
      BY <1>2, <3>5 DEF ServerType, Stages
    <3>6. CASE ts' = [ts EXCEPT !.at = "destroy", !.status = "FailedToBind"]
      BY <1>2, <3>6 DEF ServerType, Stages
    <3> QED
      BY <3>3, <3>4, <3>5, <3>6
  <2>2. CASE Listen
    <3>1. CASE ts' = [ts EXCEPT !.at = "select", !.socket = "listening"]
      BY <1>2, <3>1 DEF ServerType, Stages
    <3>2. CASE ts' = [ts EXCEPT !.at = "destroy", !.status = "FailedToListen"]
      BY <1>2, <3>2 DEF ServerType, Stages
    <3> QED
      BY <2>2, <3>1, <3>2 DEF Listen
  <2>3. CASE Stop
    BY <1>2, <2>3 DEF Stop, ServerType, Stages
  <2> QED
    BY <2>1, <2>2, <2>3
<1>4. ServesOne'
  BY <1>1, <1>2, <1>3 DEF FilesInv, ServesOne, Serving
<1>5. BufferIsTail'
  BY <1>2, <1>3 DEF FilesInv, BufferIsTail
<1>6. ~ServerGone
  BY <1>2 DEF ServerGone
<1> QED
  BY <1>1, <1>3, <1>4, <1>5, <1>6, QuietStep

LEMMA SourceReadStep ==
  ASSUME TransferAssumption, FilesInv, SourceRead
  PROVE  FilesInv'
<1>1. /\ stream' = stream
      /\ client' = client /\ disk' = disk /\ got' = got /\ short' = short
      /\ ts.at = "read"
  BY DEF SourceRead, clients, history
<1>2. ts \in ServerType /\ ts.read \in Nat /\ Size \in Nat
  BY ServerFields DEF FilesInv, TransferAssumption
<1>3. ts.buffer = <<>> /\ Len(ts.buffer) = 0 /\ ts.read <= Size
  BY <1>1, EmptySeq DEF FilesInv, BufferIsTail
<1>4. PICK n \in SourceReturns :
        \/ n > 0 /\ ts' = [ts EXCEPT !.at = "send", !.read = @ + n,
                                      !.buffer = [i \in 1..n |-> ts.read + i]]
        \/ ts' = [ts EXCEPT !.at = "finish"]
  BY DEF SourceRead
<1>5. n \in Int /\ (n > 0 => ts.read + n <= Size)
  BY <1>2 DEF SourceReturns, TransferAssumption
<1>6. ServesOne /\ BufferIsTail
  BY DEF FilesInv
<1>7. ~ServerGone
  BY <1>1 DEF ServerGone
<1>8. CASE n > 0 /\ ts' = [ts EXCEPT !.at = "send", !.read = @ + n,
                                     !.buffer = [i \in 1..n |-> ts.read + i]]
  <2>1. PICK b : b = [i \in 1..n |-> ts.read + i]
    OBVIOUS
  <2>2. n \in Nat /\ \A i \in 1..n : ts.read + i \in Nat
    BY <1>2, <1>5, <1>8
  <2>3. b \in Seq(Nat) /\ Len(b) = n
    BY <2>1, <2>2, IsASeq
  <2>4. \A i \in 1..n : b[i] = ts.read + i
    BY <2>1
  <2>5. PICK m \in Nat : m = ts.read + n
    BY <1>2, <2>2
  <2>6. ts' = [ts EXCEPT !.at = "send", !.read = m, !.buffer = b]
    BY <1>8, <2>1, <2>5
  <2>7. /\ ts' \in ServerType /\ ts'.at = "send" /\ ts'.read = m /\ ts'.buffer = b
        /\ ts'.conn = ts.conn /\ ts'.session = ts.session /\ ts'.socket = ts.socket
    BY <1>2, <2>3, <2>6 DEF ServerType, Stages
  <2>8. ServesOne'
    BY <1>1, <1>6, <2>7 DEF ServesOne, Serving
  <2>9. BufferIsTail'
    <3>1. Len(b) <= m /\ m <= Size
      BY <1>2, <1>5, <1>8, <2>3, <2>5
    <3>2. \A i \in 1..Len(b) : b[i] = m - Len(b) + i
      BY <1>2, <2>2, <2>3, <2>4, <2>5
    <3> QED
      BY <1>1, <1>6, <2>7, <3>1, <3>2 DEF BufferIsTail
  <2>10. ts'.read - Len(ts'.buffer) = ts.read - Len(ts.buffer)
    BY <1>2, <1>3, <2>2, <2>3, <2>5, <2>7
  <2> QED
    BY <1>1, <1>7, <2>7, <2>8, <2>9, <2>10, QuietStep
<1>9. CASE ts' = [ts EXCEPT !.at = "finish"]
  <2>1. /\ ts' \in ServerType /\ ts'.at = "finish" /\ ts'.read = ts.read
        /\ ts'.buffer = ts.buffer
        /\ ts'.conn = ts.conn /\ ts'.session = ts.session /\ ts'.socket = ts.socket
    BY <1>2, <1>9 DEF ServerType, Stages
  <2>2. ServesOne'
    BY <1>1, <1>6, <2>1 DEF ServesOne, Serving
  <2>3. BufferIsTail'
    BY <1>1, <1>3, <1>6, <2>1 DEF BufferIsTail
  <2> QED
    BY <1>1, <1>7, <2>1, <2>2, <2>3, QuietStep
<1> QED
  BY <1>4, <1>8, <1>9

\* source_start and source_finish.
LEMMA SourceEndsStep ==
  ASSUME TransferAssumption, FilesInv, SourceStart \/ SourceFinish
  PROVE  FilesInv'
<1>1. /\ stream' = stream /\ client' = client /\ disk' = disk /\ got' = got /\ short' = short
      /\ ts.at \in {"start", "finish"}
  BY DEF SourceStart, SourceFinish, clients, history
<1>2. ts \in ServerType /\ ts.read \in Nat /\ Size \in Nat
  BY ServerFields DEF FilesInv, TransferAssumption
<1>3. ServesOne /\ BufferIsTail
  BY DEF FilesInv
<1>4. /\ ts' \in ServerType /\ ts'.at \in {"read", "shutdown"}
      /\ ts'.read = ts.read /\ ts'.buffer = ts.buffer /\ ts'.conn = ts.conn
      /\ ts'.session => ts'.at = "read"
  <2>1. ts.at = "start" => ts.read = 0 /\ ~ts.session
    BY <1>3 DEF BufferIsTail
  <2>2. CASE ts' = [ts EXCEPT !.at = "read", !.session = TRUE, !.read = 0] /\ ts.at = "start"
    BY <1>2, <2>1, <2>2 DEF ServerType, Stages
  <2>3. CASE ts' = [ts EXCEPT !.at = "shutdown"] /\ ts.at = "start"
    BY <1>2, <2>1, <2>3 DEF ServerType, Stages
  <2>4. CASE ts' = [ts EXCEPT !.at = "shutdown", !.session = FALSE]
    BY <1>2, <2>4 DEF ServerType, Stages
  <2> QED
    BY <2>2, <2>3, <2>4 DEF SourceStart, SourceFinish
<1>5. ServesOne'
  BY <1>1, <1>3, <1>4 DEF ServesOne, Serving
<1>6. BufferIsTail'
  BY <1>1, <1>3, <1>4 DEF BufferIsTail
<1>7. ~ServerGone
  BY <1>1 DEF ServerGone
<1> QED
  BY <1>1, <1>4, <1>5, <1>6, <1>7, QuietStep

\* A turn of send_all_ that hands over the first n units of the buffer.
LEMMA SendStep ==
  ASSUME TransferAssumption, FilesInv, NEW c \in Clients, ts.conn = c, ts.at = "send",
         client' = client, disk' = disk, got' = got, short' = short,
         NEW k \in Streams(Nat), k = stream[c], NEW j \in Streams(Nat),
         stream' = [stream EXCEPT ![c] = j],
         j.state = k.state, j.toward["server"] = k.toward["server"],
         NEW n \in 0..Len(ts.buffer),
         k.state["client"] # "closed" =>
           /\ ~k.reset /\ ~j.reset
           /\ Joins(j.toward["client"], k.toward["client"], Before(ts.buffer, n)),
         ts' = [ts EXCEPT !.buffer = After(ts.buffer, n),
                          !.at = IF n = Len(ts.buffer) THEN "read" ELSE "send"]
  PROVE  FilesInv'
<1>1. /\ ts \in ServerType /\ ts.read \in Nat /\ Size \in Nat /\ ts.buffer \in Seq(Nat)
      /\ stream \in [Clients -> Streams(Nat)]
  BY ServerFields DEF FilesInv, TransferAssumption
<1>2. ServesOne /\ BufferIsTail /\ InOrder(c) /\ ClientParts(c)
  BY DEF FilesInv
<1>3. PICK len \in Nat : len = Len(ts.buffer)
  BY <1>1, SMTT(40)
<1>4. PICK first, rest : first = Before(ts.buffer, n) /\ rest = After(ts.buffer, n)
  OBVIOUS
<1>5. /\ first \in Seq(Nat) /\ Len(first) = n
      /\ \A i \in 1..n : first[i] = ts.buffer[i]
      /\ rest \in Seq(Nat) /\ Len(rest) = len - n
      /\ \A i \in 1..(len - n) : rest[i] = ts.buffer[n + i]
  <2>1. PICK U : U = Nat
    OBVIOUS
  <2>2. PICK buffer \in Seq(U) : buffer = ts.buffer
    BY <1>1, <2>1
  <2>3. n \in 0..Len(buffer) /\ first = Before(buffer, n) /\ rest = After(buffer, n)
    BY <1>4, <2>2
  <2>4. first \in Seq(U) /\ Len(first) = n /\ \A i \in 1..n : first[i] = buffer[i]
    BY <2>2, <2>3, BeforeFields
  <2>5. /\ rest \in Seq(U) /\ Len(rest) = Len(buffer) - n
        /\ \A i \in 1..(Len(buffer) - n) : rest[i] = buffer[n + i]
    BY <2>2, <2>3, AfterFields
  <2> QED
    BY <1>3, <2>1, <2>2, <2>4, <2>5
<1>6. PICK at \in {"read", "send"} : at = IF n = Len(ts.buffer) THEN "read" ELSE "send"
  OBVIOUS
<1>7. ts' = [ts EXCEPT !.buffer = rest, !.at = at]
  BY <1>4, <1>6
<1>8. /\ ts' \in ServerType /\ ts'.at = at /\ ts'.buffer = rest /\ ts'.read = ts.read
      /\ ts'.conn = c /\ ts'.session = ts.session /\ ts'.socket = ts.socket
  BY <1>1, <1>5, <1>6, <1>7 DEF ServerType, Stages
<1>9. stream' \in [Clients -> Streams(Nat)] /\ stream'[c] = j
      /\ \A d \in Clients \ {c} : stream'[d] = stream[d]
  BY <1>1
<1>10. TypeOK'
  BY <1>8, <1>9 DEF FilesInv, TypeOK
<1>11. ServesOne'
  <2>1. \A d \in Clients : stream'[d].state = stream[d].state
    BY <1>9
  <2> QED
    BY <1>2, <1>6, <1>8, <2>1 DEF ServesOne, Serving
<1>12. BufferIsTail'
  <2>1. len <= ts.read /\ ts.read <= Size /\ n <= len
        /\ \A i \in 1..len : ts.buffer[i] = ts.read - len + i
    BY <1>2, <1>3 DEF BufferIsTail
  <2>2. at = "read" => rest = <<>>
    <3>1. at = "read" => Len(rest) = 0
      BY <1>3, <1>5, <1>6
    <3> QED
      BY <3>1, EmptySeq
  <2>3. Len(rest) <= ts.read
    BY <1>1, <1>5, <2>1
  <2>4. \A i \in 1..Len(rest) : rest[i] = ts.read - Len(rest) + i
    <3> SUFFICES ASSUME NEW i \in 1..(len - n)
                 PROVE  rest[i] = ts.read - (len - n) + i
      BY <1>5
    <3>1. n + i \in 1..len
      OBVIOUS
    <3>2. rest[i] = ts.read - len + (n + i)
      BY <1>5, <2>1, <3>1
    <3> QED
      BY <1>1, <3>2
  <2> QED
    BY <1>2, <1>6, <1>8, <2>1, <2>2, <2>3, <2>4 DEF BufferIsTail
<1>13. InOrder(c)'
  <2> SUFFICES ASSUME Waiting(c)
               PROVE  InOrder(c)'
    BY DEF InOrder, Waiting
  <2>1. k.state["client"] = "open" /\ k.state["server"] # "closed" /\ k.state["server"] # "none"
    <3>1. k.state["client"] = "open"
      BY <1>2 DEF InOrder
    <3> QED
      BY <1>2, <3>1 DEF InOrder
  <2>2. ~k.reset /\ ~j.reset /\ Joins(j.toward["client"], k.toward["client"], first)
    BY <1>4, <2>1
  <2>3. PICK f \in Seq(Int) : f = IF client[c].at = "receive" THEN got[c] ELSE <<>>
    BY OldIsFile DEF FilesInv, TypeOK
  <2>4. PICK way \in Seq(Int), q \in Seq(Int) : way = k.toward["client"] /\ q = first
    <3>1. k.toward["client"] \in Seq(Nat)
      BY DEF Streams, Sides
    <3> QED
      BY <1>5, <3>1, SeqOfNat
  <2>5. PICK way2 : way2 = j.toward["client"]
    OBVIOUS
  <2>6. Joins(way2, way, q)
    BY <2>2, <2>4, <2>5
  <2>7. PICK came \in Seq(Int) : Joins(came, f, way)
    BY <2>3, <2>4, ConcatProperties DEF Joins
  <2>8. Came(c) = came
    BY <2>3, <2>4, <2>7 DEF Came, Joins
  <2>9. came \in Seq(Int) /\ q \in Seq(Int)
    BY <2>4, <2>7
  <2>10. came = FirstUnits(Len(came)) /\ Len(came) = ts.read - len
    <3>1. ~stream[c].reset
      BY <2>2
    <3>2. Sent(c) = ts.read - len
      BY <1>3 DEF Sent
    <3>3. Came(c) = FirstUnits(Len(Came(c))) /\ Len(Came(c)) = Sent(c)
      BY <1>2, <3>1 DEF InOrder
    <3> QED
      BY <2>8, <3>2, <3>3
  <2>11. \A i \in 1..Len(q) : q[i] = Len(came) + i
    <3>1. \A i \in 1..len : ts.buffer[i] = ts.read - len + i
      BY <1>2, <1>3 DEF BufferIsTail
    <3>2. \A i \in 1..n : i \in 1..len
      BY <1>3
    <3> QED
      BY <1>5, <2>4, <2>10, <3>1, <3>2
  <2>12. PICK u : Joins(u, came, q)
    BY DEF Joins
  <2>13. Len(u) = Len(came) + Len(q) /\ u = FirstUnits(Len(u))
    BY <2>10, <2>11, <2>12, <2>9, UnitsFollow, ZenonT(60)
  <2>14. Sent(c)' = Len(u)
    <3>1. Sent(c)' = ts.read - (len - n)
      BY <1>5, <1>8 DEF Sent
    <3>2. Len(u) = (ts.read - len) + n
      BY <1>5, <2>4, <2>10, <2>13
    <3> QED
      BY <1>1, <1>3, <3>1, <3>2
  <2>15. Came(c)' = u
    <3>1. Joins(u, f, way2)
      <4>1. f \in Seq(Int) /\ way \in Seq(Int) /\ q \in Seq(Int)
        BY <2>3, <2>4
      <4>2. Joins(way2, way, q) /\ Joins(came, f, way) /\ Joins(u, came, q)
        BY <2>6, <2>7, <2>12
      <4> QED
        BY <4>1, <4>2, JoinsRegroup
    <3>2. Came(c)' = f \o way2
      BY <1>9, <2>3, <2>5 DEF Came
    <3> QED
      BY <3>1, <3>2 DEF Joins
  <2>16. client[c].status = "Success"
    BY <1>2 DEF InOrder
  <2>17. Len(u) <= Size
    <3>1. Len(u) = (ts.read - len) + n
      BY <1>5, <2>4, <2>10, <2>13
    <3>2. ts.read <= Size /\ n <= len
      BY <1>2, <1>3 DEF BufferIsTail
    <3> QED
      BY <1>1, <3>1, <3>2
  <2> QED
    BY <1>9, <2>1, <2>2, <2>13, <2>14, <2>15, <2>16, <2>17 DEF InOrder
<1>14. ClientParts(c)'
  <2>1. stream[c] # NoStream
    <3>1. stream[c].state["server"] = "open"
      BY <1>2 DEF ServesOne
    <3> QED
      BY <3>1, NobodyAsked
  <2>2. ~ServerGone
    BY DEF ServerGone
  <2> QED
    BY <1>2, <1>9, <2>1, <2>2 DEF ClientParts, FileKept
<1>15. \A d \in Clients :
         \/ stream'[d] = stream[d] /\ Sent(d)' = Sent(d)
         \/ InOrder(d)' /\ ClientParts(d)'
  <2>1. \A d \in Clients \ {c} : Sent(d)' = Sent(d)
    BY <1>8 DEF Sent
  <2> QED
    BY <1>9, <1>13, <1>14, <2>1
<1>16. ~ServerGone
  BY DEF ServerGone
<1> QED
  BY <1>10, <1>11, <1>12, <1>15, <1>16, ServerStep

\* What send returns to the server.
LEMMA SendsUnits ==
  ASSUME NEW k \in Streams(Nat), NEW data \in Seq(Nat), NEW r \in Sends(k, "server", data),
         NEW j, j = r.stream
  PROVE  /\ j \in Streams(Nat) /\ j.state = k.state
         /\ j.toward["server"] = k.toward["server"]
         /\ r.ret \in Int
         /\ r.ret < 0 <=> k.reset
         /\ r.ret >= 0 => r.ret \in 0..Len(data)
         /\ r.ret >= 0 /\ k.state["client"] # "closed" =>
              ~j.reset /\ Joins(j.toward["client"], k.toward["client"], Before(data, r.ret))
<1>1. "server" \in Sides /\ Peer("server") = "client" /\ Len(data) \in Nat
  BY DEF Sides, Peer
<1>2. PICK U : U = Nat
  OBVIOUS
<1>3. k \in Streams(U) /\ data \in Seq(U)
  BY <1>2
<1>4. /\ j \in Streams(U)
      /\ j.state = k.state /\ j.toward["server"] = k.toward["server"]
      /\ k.reset => r.ret = -1 /\ j = k
      /\ ~k.reset => r.ret \in 0..Len(data)
      /\ ~k.reset /\ k.state[Peer("server")] # "closed" =>
           /\ ~j.reset
           /\ Joins(j.toward[Peer("server")], k.toward[Peer("server")], Before(data, r.ret))
  BY <1>1, <1>3, SendsFields
<1>5. k.reset \in BOOLEAN
  BY DEF Streams
<1> QED
  BY <1>1, <1>2, <1>4, <1>5

\* SIGPIPE: every connection of the server is gone.
LEMMA KilledStep ==
  ASSUME TransferAssumption, FilesInv, ts.at = "send", stream[ts.conn].reset,
         client' = client, disk' = disk, got' = got, short' = short, Killed
  PROVE  FilesInv'
<1>1. /\ ts \in ServerType /\ ts.read \in Nat /\ stream \in [Clients -> Streams(Nat)]
  BY ServerFields DEF FilesInv
<1>2. ServesOne /\ BufferIsTail
  BY DEF FilesInv
<1>3. /\ ts' \in ServerType /\ ts'.at = "killed" /\ ts'.buffer = ts.buffer
      /\ ts'.read = ts.read /\ ts'.conn = ts.conn /\ ~ts'.session /\ ts'.socket = "closed"
  BY <1>1 DEF Killed, ServerType, Stages
<1>4. ASSUME NEW c \in Clients
      PROVE  /\ stream'[c] \in Streams(Nat)
             /\ stream'[c].state["server"] \in {"none", "closed"}
             /\ stream'[c].state["server"] = "none" <=> stream[c].state["server"] = "none"
             /\ stream'[c].state["client"] = stream[c].state["client"]
             /\ stream'[c].toward["client"] = stream[c].toward["client"]
             /\ stream'[c].toward["server"] \in {<<>>, stream[c].toward["server"]}
             /\ stream[c].reset \/ stream[c].state["server"] = "pending" => stream'[c].reset
             /\ stream[c].state["server"] \in {"none", "closed"} => stream'[c] = stream[c]
  <2>1. PICK k \in Streams(Nat) : k = stream[c]
    BY <1>1
  <2>2. PICK j : j = Abandoned(k)
    OBVIOUS
  <2>3. stream'[c] = j
    BY <2>1, <2>2 DEF Killed
  <2>4. IsPending(k) <=> k.state["server"] = "pending"
    BY DEF IsPending
  <2>5. /\ j \in Streams(Nat)
        /\ j.state["server"] \in {"none", "closed"}
        /\ j.state["server"] = "none" <=> k.state["server"] = "none"
        /\ j.state["client"] = k.state["client"]
        /\ j.toward["client"] = k.toward["client"]
        /\ j.toward["server"] \in {<<>>, k.toward["server"]}
        /\ k.reset \/ IsPending(k) => j.reset
        /\ k.state["server"] \in {"none", "closed"} => j = k
    BY <2>2, AbandonedFields
  <2> QED
    BY <2>1, <2>3, <2>4, <2>5
<1>5. TypeOK'
  <2>1. stream' \in [Clients -> Streams(Nat)]
    BY <1>4 DEF Killed
  <2> QED
    BY <1>3, <2>1 DEF FilesInv, TypeOK
<1>6. ServesOne'
  BY <1>2, <1>3, <1>4 DEF ServesOne, Serving
<1>7. BufferIsTail'
  BY <1>2, <1>3 DEF BufferIsTail
<1>8. ServerGone' /\ ~ServerGone
  BY <1>3 DEF ServerGone
<1>9. ASSUME NEW c \in Clients
      PROVE  InOrder(c)' /\ ClientParts(c)'
  <2>1. InOrder(c) /\ ClientParts(c)
    BY DEF FilesInv
  <2>2. InOrder(c)'
    <3> SUFFICES ASSUME Waiting(c)
                 PROVE  InOrder(c)'
      BY DEF InOrder, Waiting
    <3>1. Came(c)' = Came(c)
      BY <1>4 DEF Came
    <3>2. stream'[c].reset
      <4>1. CASE stream[c].state["server"] \in {"open", "shut"}
        BY <1>2, <1>4, <4>1 DEF ServesOne
      <4>2. CASE stream[c].state["server"] \notin {"open", "shut"}
        <5>1. stream[c].state["server"] \in EndStates
          BY <1>1 DEF Streams, Sides
        <5>2. stream[c].state["server"] # "none"
          BY <2>1 DEF InOrder
        <5>3. stream[c].reset \/ stream[c].state["server"] = "pending"
          BY <2>1, <4>2, <5>1, <5>2 DEF InOrder, EndStates
        <5> QED
          BY <1>4, <5>3
      <4> QED
        BY <4>1, <4>2
    <3> QED
      BY <1>4, <1>8, <2>1, <3>1, <3>2 DEF InOrder
  <2>3. ClientParts(c)'
    <3>1. client[c].at = "connect" => stream'[c] = stream[c]
      BY <1>4, <2>1, NobodyAsked DEF ClientParts
    <3> QED
      BY <1>4, <1>8, <2>1, <3>1 DEF ClientParts, FileKept
  <2> QED
    BY <2>2, <2>3
<1> QED
  BY <1>5, <1>6, <1>7, <1>8, <1>9, ServerStep

LEMMA SendAllStep ==
  ASSUME TransferAssumption, FilesInv, SendAll
  PROVE  FilesInv'
<1>1. /\ client' = client /\ disk' = disk /\ got' = got /\ short' = short
      /\ ts.at = "send" /\ ~ServerGone
  BY DEF SendAll, clients, history, ServerGone
<1>2. /\ ts \in ServerType /\ ts.read \in Nat /\ Size \in Nat /\ ts.buffer \in Seq(Nat)
      /\ stream \in [Clients -> Streams(Nat)] /\ ServesOne /\ BufferIsTail
  BY ServerFields DEF FilesInv, TransferAssumption
<1>3. PICK c \in Clients : c = ts.conn
  BY <1>1, <1>2 DEF ServesOne, Serving
<1>4. PICK k \in Streams(Nat) : k = stream[c]
  BY <1>2
<1>5. PICK r \in Sends(k, "server", ts.buffer) :
        \/ /\ r.ret >= 0
           /\ stream' = [stream EXCEPT ![c] = r.stream]
           /\ ts' = [ts EXCEPT !.buffer = SubSeq(@, r.ret + 1, Len(@)),
                               !.at = IF r.ret = Len(ts.buffer) THEN "read" ELSE "send"]
        \/ /\ r.ret < 0
           /\ ts' = [ts EXCEPT !.at = "finish", !.buffer = <<>>]
           /\ stream' = stream
        \/ r.ret < 0 /\ Killed
  BY <1>3, <1>4 DEF SendAll
<1>6. PICK j : j = r.stream
  OBVIOUS
<1>7. /\ j \in Streams(Nat) /\ j.state = k.state
      /\ j.toward["server"] = k.toward["server"]
      /\ r.ret \in Int
      /\ r.ret < 0 <=> k.reset
      /\ r.ret >= 0 => r.ret \in 0..Len(ts.buffer)
      /\ r.ret >= 0 /\ k.state["client"] # "closed" =>
           /\ ~j.reset
           /\ Joins(j.toward["client"], k.toward["client"], Before(ts.buffer, r.ret))
  BY <1>2, <1>6, SendsUnits
<1>8. CASE /\ r.ret >= 0
           /\ stream' = [stream EXCEPT ![c] = r.stream]
           /\ ts' = [ts EXCEPT !.buffer = SubSeq(@, r.ret + 1, Len(@)),
                               !.at = IF r.ret = Len(ts.buffer) THEN "read" ELSE "send"]
  <2>1. PICK n \in 0..Len(ts.buffer) : n = r.ret
    BY <1>7, <1>8
  <2>2. ts' = [ts EXCEPT !.buffer = After(ts.buffer, n),
                         !.at = IF n = Len(ts.buffer) THEN "read" ELSE "send"]
    BY <1>8, <2>1 DEF After
  <2>3. stream' = [stream EXCEPT ![c] = j]
    BY <1>6, <1>8
  <2>4. k.state["client"] # "closed" =>
           /\ ~k.reset /\ ~j.reset
           /\ Joins(j.toward["client"], k.toward["client"], Before(ts.buffer, n))
    BY <1>7, <1>8, <2>1
  <2> QED
    BY <1>1, <1>3, <1>4, <1>7, <2>1, <2>2, <2>3, <2>4, SendStep
<1>9. CASE /\ r.ret < 0
           /\ ts' = [ts EXCEPT !.at = "finish", !.buffer = <<>>]
           /\ stream' = stream
  <2>1. /\ ts' \in ServerType /\ ts'.at = "finish" /\ ts'.buffer = <<>>
        /\ ts'.read = ts.read
        /\ ts'.conn = ts.conn /\ ts'.session = ts.session /\ ts'.socket = ts.socket
    BY <1>2, <1>9, EmptySeq DEF ServerType, Stages
  <2>2. TypeOK'
    BY <1>9, <2>1, <1>1 DEF FilesInv, TypeOK
  <2>3. ServesOne'
    BY <1>1, <1>2, <1>9, <2>1 DEF ServesOne, Serving
  <2>4. BufferIsTail'
    <3>1. Len(<<>>) = 0
      BY EmptySeq
    <3> QED
      BY <1>1, <1>2, <2>1, <3>1 DEF BufferIsTail
  <2>5. InOrder(c)' /\ ClientParts(c)'
    <3>1. InOrder(c) /\ ClientParts(c)
      BY DEF FilesInv
    <3>2. ~Waiting(c)
      BY <1>1, <1>4, <1>7, <1>9, <3>1 DEF InOrder
    <3>3. InOrder(c)'
      BY <1>1, <3>2 DEF InOrder, Waiting
    <3>4. ClientParts(c)'
      BY <1>1, <1>9, <3>1 DEF ClientParts, FileKept
    <3> QED
      BY <3>3, <3>4
  <2>6. \A d \in Clients \ {c} : Sent(d)' = Sent(d)
    BY <1>3, <2>1 DEF Sent
  <2> QED
    BY <1>1, <1>9, <2>2, <2>3, <2>4, <2>5, <2>6, ServerStep
<1>10. CASE r.ret < 0 /\ Killed
  BY <1>1, <1>3, <1>4, <1>7, <1>10, KilledStep
<1> QED
  BY <1>5, <1>8, <1>9, <1>10

LEMMA AcceptStep ==
  ASSUME TransferAssumption, FilesInv, NEW c \in Clients, Accept(c)
  PROVE  FilesInv'
<1>1. /\ client' = client /\ disk' = disk /\ got' = got /\ short' = short
      /\ ts.at = "select" /\ ~ServerGone
      /\ IsPending(stream[c])
      /\ stream' = [stream EXCEPT ![c] = Accepted(@)]
      /\ ts' = [ts EXCEPT !.at = "start", !.conn = c]
  BY DEF Accept, clients, history, ServerGone
<1>2. /\ ts \in ServerType /\ stream \in [Clients -> Streams(Nat)]
      /\ ServesOne /\ BufferIsTail /\ InOrder(c) /\ ClientParts(c)
  BY ServerFields DEF FilesInv
<1>3. ts.conn = NoClient /\ ts.read = 0 /\ ts.buffer = <<>> /\ Len(ts.buffer) = 0
  BY <1>1, <1>2, EmptySeq DEF ServesOne, Serving, BufferIsTail
<1>4. PICK k \in Streams(Nat) : k = stream[c] /\ k.state["server"] = "pending"
  BY <1>1, <1>2 DEF IsPending
<1>5. PICK j : j = Accepted(k)
  OBVIOUS
<1>6. /\ j \in Streams(Nat) /\ j.state["server"] = "open"
      /\ j.state["client"] = k.state["client"] /\ j.toward = k.toward /\ j.reset = k.reset
  BY <1>5, AcceptedFields
<1>7. /\ stream' \in [Clients -> Streams(Nat)] /\ stream'[c] = j
      /\ \A d \in Clients \ {c} : stream'[d] = stream[d]
  BY <1>1, <1>2, <1>4, <1>5, <1>6
<1>8. /\ ts' \in ServerType /\ ts'.at = "start" /\ ts'.conn = c /\ ts'.read = ts.read
      /\ ts'.buffer = ts.buffer /\ ts'.session = ts.session
  BY <1>1, <1>2 DEF ServerType, Stages
<1>9. TypeOK'
  BY <1>1, <1>7, <1>8 DEF FilesInv, TypeOK
<1>10. ServesOne'
  BY <1>1, <1>2, <1>6, <1>7, <1>8 DEF ServesOne, Serving
<1>11. BufferIsTail'
  BY <1>1, <1>2, <1>3, <1>8 DEF BufferIsTail
<1>12. \A d \in Clients : Sent(d) = 0 /\ Sent(d)' = 0
  <2>1. \A d \in Clients : Sent(d) = 0
    BY <1>3 DEF Sent, TransferAssumption
  <2>2. ts'.read - Len(ts'.buffer) = 0
    <3>1. ts'.read = 0 /\ ts'.buffer = <<>> /\ Len(<<>>) = 0
      BY <1>3, <1>8, EmptySeq
    <3>2. Len(ts'.buffer) = 0
      BY <3>1, Zenon
    <3>3. ts'.read = 0
      BY <3>1
    <3> QED
      BY <3>2, <3>3
  <2>3. \A d \in Clients : Sent(d)' = 0
    BY <2>2 DEF Sent
  <2> QED
    BY <2>1, <2>3
<1>13. InOrder(c)'
  <2>1. Came(c)' = Came(c) /\ Waiting(c)' = Waiting(c)
    BY <1>1, <1>4, <1>6, <1>7 DEF Came, Waiting
  <2> QED
    BY <1>1, <1>2, <1>4, <1>6, <1>7, <1>12, <2>1 DEF InOrder
<1>14. ClientParts(c)'
  <2>1. client[c].at # "connect"
    BY <1>2, <1>4, NobodyAsked DEF ClientParts
  <2> QED
    BY <1>1, <1>2, <1>4, <1>6, <1>7, <2>1 DEF ClientParts, FileKept
<1> QED
  BY <1>1, <1>7, <1>9, <1>10, <1>11, <1>12, <1>13, <1>14, ServerStep

LEMMA ShutdownStep ==
  ASSUME TransferAssumption, FilesInv, ShutdownWrite
  PROVE  FilesInv'
<1>1. /\ client' = client /\ disk' = disk /\ got' = got /\ short' = short
      /\ ts.at = "shutdown" /\ ~ServerGone
      /\ ts' = [ts EXCEPT !.at = "drain"]
      /\ stream' = [stream EXCEPT ![ts.conn] = ShutDown(@, "server")]
  BY DEF ShutdownWrite, clients, history, ServerGone
<1>2. /\ ts \in ServerType /\ stream \in [Clients -> Streams(Nat)]
      /\ ServesOne /\ BufferIsTail
  BY ServerFields DEF FilesInv
<1>3. PICK c \in Clients : c = ts.conn
  BY <1>1, <1>2 DEF ServesOne, Serving
<1>4. PICK k \in Streams(Nat) : k = stream[c] /\ k.state["server"] = "open"
  BY <1>1, <1>2, <1>3 DEF ServesOne
<1>5. PICK j : j = ShutDown(k, "server")
  OBVIOUS
<1>6. /\ j \in Streams(Nat) /\ j.state["server"] = "shut"
      /\ j.state["client"] = k.state["client"] /\ j.toward = k.toward /\ j.reset = k.reset
  <2>1. "server" \in Sides /\ Peer("server") = "client"
    BY DEF Sides, Peer
  <2> QED
    BY <1>5, <2>1, ShutDownFields
<1>7. /\ stream' \in [Clients -> Streams(Nat)] /\ stream'[c] = j
      /\ \A d \in Clients \ {c} : stream'[d] = stream[d]
  BY <1>1, <1>2, <1>3, <1>4, <1>5, <1>6
<1>8. /\ ts' \in ServerType /\ ts'.at = "drain" /\ ts'.conn = ts.conn /\ ts'.read = ts.read
      /\ ts'.buffer = ts.buffer /\ ts'.session = ts.session
  BY <1>1, <1>2 DEF ServerType, Stages
<1>9. TypeOK'
  BY <1>1, <1>7, <1>8 DEF FilesInv, TypeOK
<1>10. ServesOne'
  BY <1>1, <1>2, <1>3, <1>6, <1>7, <1>8 DEF ServesOne, Serving
<1>11. BufferIsTail'
  BY <1>1, <1>2, <1>8 DEF BufferIsTail
<1>12. \A d \in Clients : Sent(d)' = Sent(d)
  BY <1>8 DEF Sent
<1>13. InOrder(c) /\ ClientParts(c)
  BY DEF FilesInv
<1>14. InOrder(c)'
  <2>1. Came(c)' = Came(c) /\ Waiting(c)' = Waiting(c)
    BY <1>1, <1>4, <1>6, <1>7 DEF Came, Waiting
  <2> QED
    BY <1>1, <1>4, <1>6, <1>7, <1>12, <1>13, <2>1 DEF InOrder
<1>15. ClientParts(c)'
  <2>1. client[c].at # "connect"
    BY <1>4, <1>13, NobodyAsked DEF ClientParts
  <2> QED
    BY <1>1, <1>4, <1>6, <1>7, <1>13, <2>1 DEF ClientParts, FileKept
<1> QED
  BY <1>1, <1>7, <1>9, <1>10, <1>11, <1>12, <1>14, <1>15, ServerStep

LEMMA DrainStep ==
  ASSUME TransferAssumption, FilesInv, Drain
  PROVE  FilesInv'
<1>1. /\ client' = client /\ disk' = disk /\ got' = got /\ short' = short
      /\ ts.at = "drain" /\ ~ServerGone
  BY DEF Drain, clients, history, ServerGone
<1>2. /\ ts \in ServerType /\ ts.read \in Nat /\ stream \in [Clients -> Streams(Nat)]
      /\ ServesOne /\ BufferIsTail
  BY ServerFields DEF FilesInv
<1>3. PICK c \in Clients : c = ts.conn
  BY <1>1, <1>2 DEF ServesOne, Serving
<1>4. PICK k \in Streams(Nat) : k = stream[c]
  BY <1>2
<1>5. InOrder(c) /\ ClientParts(c)
  BY DEF FilesInv
<1>6. k.state["server"] = "shut" /\ k.toward["server"] = <<>> /\ client[c].at # "connect"
  <2>1. k.state["server"] = "shut" /\ k.toward["server"] = <<>>
    BY <1>1, <1>2, <1>3, <1>4, <1>5 DEF ServesOne, ClientParts, FileKept
  <2> QED
    BY <1>4, <1>5, <2>1, NobodyAsked DEF ClientParts
<1>7. PICK r \in Receives(k, "server", Chunk) :
        IF r.ret > 0
          THEN stream' = [stream EXCEPT ![c] = r.stream] /\ ts' = ts
          ELSE /\ stream' = [stream EXCEPT ![c] = Closed(@, "server")]
               /\ ts' = [ts EXCEPT !.at = "select", !.conn = NoClient, !.read = 0]
  BY <1>3, <1>4 DEF Drain
<1>8. "server" \in Sides /\ Peer("server") = "client"
  BY DEF Sides, Peer
<1>9. PICK j : j = r.stream
  OBVIOUS
<1>10. /\ j \in Streams(Nat) /\ j.state = k.state /\ j.reset = k.reset
       /\ j.toward["client"] = k.toward["client"]
       /\ r.data \in Seq(Nat) /\ Joins(k.toward["server"], r.data, j.toward["server"])
       /\ r.ret \in Int
       /\ r.ret = 0 => k.state["client"] \in {"shut", "closed"}
       /\ r.ret < 0 => k.reset
  BY <1>8, <1>9, ReceivesUnits
<1>11. CASE r.ret > 0 /\ stream' = [stream EXCEPT ![c] = r.stream] /\ ts' = ts
  <2>1. /\ stream' \in [Clients -> Streams(Nat)] /\ stream'[c] = j
        /\ \A d \in Clients \ {c} : stream'[d] = stream[d]
    BY <1>2, <1>9, <1>10, <1>11
  <2>2. j.toward["server"] = <<>>
    <3>1. PICK u \in Seq(Nat), v \in Seq(Nat) : u = r.data /\ v = j.toward["server"]
      BY <1>8, <1>10 DEF Streams
    <3>2. Joins(<<>>, u, v)
      BY <1>6, <1>10, <3>1
    <3>3. u \o v = <<>>
      BY <3>2 DEF Joins
    <3>4. v = <<>>
      BY <3>3, ConcatEqualIffEmpty
    <3> QED
      BY <3>1, <3>4
  <2>3. TypeOK'
    BY <1>1, <1>11, <2>1 DEF FilesInv, TypeOK
  <2>4. ServesOne'
    BY <1>2, <1>4, <1>10, <1>11, <2>1 DEF ServesOne, Serving
  <2>5. BufferIsTail'
    BY <1>2, <1>11 DEF BufferIsTail
  <2>6. \A d \in Clients : Sent(d)' = Sent(d)
    BY <1>11 DEF Sent
  <2>7. InOrder(c)'
    <3>1. Came(c)' = Came(c) /\ Waiting(c)' = Waiting(c)
      BY <1>1, <1>4, <1>10, <2>1 DEF Came, Waiting
    <3> QED
      BY <1>1, <1>4, <1>5, <1>10, <2>1, <2>6, <3>1 DEF InOrder
  <2>8. ClientParts(c)'
    BY <1>1, <1>5, <1>6, <2>1, <2>2 DEF ClientParts, FileKept
  <2> QED
    BY <1>1, <2>1, <2>3, <2>4, <2>5, <2>6, <2>7, <2>8, ServerStep
<1>12. CASE /\ ~(r.ret > 0)
            /\ stream' = [stream EXCEPT ![c] = Closed(@, "server")]
            /\ ts' = [ts EXCEPT !.at = "select", !.conn = NoClient, !.read = 0]
  <2>1. PICK i : i = Closed(k, "server")
    OBVIOUS
  <2>2. /\ i \in Streams(Nat) /\ i.state["server"] = "closed"
        /\ i.toward["server"] = <<>>
    BY <1>8, <2>1, ClosedFields
  <2>3. /\ stream' \in [Clients -> Streams(Nat)] /\ stream'[c] = i
        /\ \A d \in Clients \ {c} : stream'[d] = stream[d]
    BY <1>2, <1>4, <1>12, <2>1, <2>2
  <2>4. /\ ts' \in ServerType /\ ts'.at = "select" /\ ts'.conn = NoClient /\ ts'.read = 0
        /\ ts'.buffer = ts.buffer /\ ts'.session = ts.session
    BY <1>2, <1>12 DEF ServerType, Stages
  <2>5. TypeOK'
    BY <1>1, <2>3, <2>4 DEF FilesInv, TypeOK
  <2>6. ServesOne'
    BY <1>1, <1>2, <1>3, <2>2, <2>3, <2>4 DEF ServesOne, Serving
  <2>7. BufferIsTail'
    <3>1. ts.buffer = <<>> /\ Len(<<>>) = 0 /\ 0 <= Size
      BY <1>1, <1>2, EmptySeq DEF BufferIsTail, TransferAssumption
    <3> QED
      BY <1>1, <1>2, <2>4, <3>1 DEF BufferIsTail
  <2>8. ~Waiting(c)
    BY <1>1, <1>4, <1>5, <1>10, <1>12 DEF InOrder
  <2>9. InOrder(c)' /\ ClientParts(c)'
    <3>1. InOrder(c)'
      BY <1>1, <2>8 DEF InOrder, Waiting
    <3>2. ClientParts(c)'
      BY <1>1, <1>5, <1>6, <2>2, <2>3 DEF ClientParts, FileKept
    <3> QED
      BY <3>1, <3>2
  <2>10. \A d \in Clients \ {c} : Sent(d)' = Sent(d)
    BY <1>3, <2>4 DEF Sent, TransferAssumption
  <2> QED
    BY <1>1, <2>3, <2>5, <2>6, <2>7, <2>9, <2>10, ServerStep
<1> QED
  BY <1>7, <1>11, <1>12

LEMMA DestroyStep ==
  ASSUME TransferAssumption, FilesInv, Destroy
  PROVE  FilesInv'
<1>1. /\ client' = client /\ disk' = disk /\ got' = got /\ short' = short
      /\ ts.at = "destroy" /\ ~ServerGone
      /\ ts' = [ts EXCEPT !.at = "done", !.socket = "closed"]
      /\ stream' = [c \in Clients |-> Unlistened(stream[c])]
  BY DEF Destroy, clients, history, ServerGone
<1>2. /\ ts \in ServerType /\ stream \in [Clients -> Streams(Nat)]
      /\ ServesOne /\ BufferIsTail
  BY ServerFields DEF FilesInv
<1>3. /\ ts' \in ServerType /\ ts'.at = "done" /\ ts'.conn = ts.conn /\ ts'.read = ts.read
      /\ ts'.buffer = ts.buffer /\ ts'.session = ts.session
  BY <1>1, <1>2 DEF ServerType, Stages
<1>4. ASSUME NEW c \in Clients
      PROVE  \/ stream'[c] = stream[c]
             \/ /\ stream[c].state["server"] = "pending"
                /\ stream'[c] \in Streams(Nat)
                /\ stream'[c].state["server"] = "closed"
                /\ stream'[c].state["client"] = stream[c].state["client"]
                /\ stream'[c].toward["server"] = <<>>
                /\ stream'[c].toward["client"] = stream[c].toward["client"]
                /\ stream'[c].reset
  <2>1. PICK k \in Streams(Nat) : k = stream[c]
    BY <1>2
  <2>2. PICK j : j = Unlistened(k)
    OBVIOUS
  <2>3. stream'[c] = j
    BY <1>1, <2>1, <2>2
  <2>4. IsPending(k) <=> k.state["server"] = "pending"
    BY DEF IsPending
  <2>5. /\ ~IsPending(k) => j = k
        /\ IsPending(k) => /\ j \in Streams(Nat)
                           /\ j.state["server"] = "closed"
                           /\ j.state["client"] = k.state["client"]
                           /\ j.toward["server"] = <<>>
                           /\ j.toward["client"] = k.toward["client"]
                           /\ j.reset
    BY <2>2, UnlistenedFields
  <2> QED
    BY <2>1, <2>3, <2>4, <2>5
<1>5. TypeOK'
  <2>1. stream' \in [Clients -> Streams(Nat)]
    BY <1>1, <1>2, <1>4
  <2> QED
    BY <1>1, <1>3, <2>1 DEF FilesInv, TypeOK
<1>6. ServesOne'
  BY <1>1, <1>2, <1>3, <1>4 DEF ServesOne, Serving
<1>7. BufferIsTail'
  BY <1>1, <1>2, <1>3 DEF BufferIsTail
<1>8. ServerGone'
  BY <1>3 DEF ServerGone
<1>9. ASSUME NEW c \in Clients
      PROVE  \/ stream'[c] = stream[c] /\ Sent(c)' = Sent(c)
             \/ InOrder(c)' /\ ClientParts(c)'
  <2>1. InOrder(c) /\ ClientParts(c)
    BY DEF FilesInv
  <2>2. CASE stream'[c] = stream[c]
    BY <1>3, <2>2 DEF Sent
  <2>3. CASE /\ stream[c].state["server"] = "pending"
             /\ stream'[c].state["server"] = "closed"
             /\ stream'[c].state["client"] = stream[c].state["client"]
             /\ stream'[c].toward["server"] = <<>>
             /\ stream'[c].toward["client"] = stream[c].toward["client"]
             /\ stream'[c].reset
    <3>1. Came(c)' = Came(c) /\ Waiting(c)' = Waiting(c)
      BY <1>1, <2>3 DEF Came, Waiting
    <3>2. InOrder(c)'
      BY <1>1, <1>8, <2>1, <2>3, <3>1 DEF InOrder
    <3>3. client[c].at # "connect"
      BY <2>1, <2>3, NobodyAsked DEF ClientParts
    <3>4. ClientParts(c)'
      BY <1>1, <1>8, <2>1, <2>3, <3>3 DEF ClientParts, FileKept
    <3> QED
      BY <3>2, <3>4
  <2> QED
    BY <1>4, <2>2, <2>3
<1> QED
  BY <1>1, <1>5, <1>6, <1>7, <1>8, <1>9, ServerStep

-----------------------------------------------------------------------------
(* The theorems.                                                           *)

\* Every action preserves the invariant.
LEMMA FilesInvStep ==
  ASSUME TransferAssumption, FilesInv, [Next]_vars
  PROVE  FilesInv'
<1>1. CASE UNCHANGED vars
  BY <1>1, ZenonT(60) DEF vars, FilesInv, TypeOK, ServesOne, Serving, BufferIsTail, InOrder,
              Waiting, Came, Sent, ServerGone, ClientParts, FileKept
<1>2. CASE TsCreate \/ Stop
  BY <1>2, SetUpStep DEF TsCreate
<1>3. CASE HandleConnection
  BY <1>3, SourceReadStep, SourceEndsStep, SendAllStep DEF HandleConnection
<1>4. CASE (\E c \in Clients : Accept(c)) \/ ShutdownWrite \/ Drain \/ Destroy
  BY <1>4, AcceptStep, ShutdownStep, DrainStep, DestroyStep
<1>5. ASSUME NEW c \in Clients, TcReceive(c) \/ Leave(c)
      PROVE  FilesInv'
  BY <1>5, ConnectStep, SinkStartStep, ReceiveStep, SinkEndStep, CloseStep, LeaveStep
     DEF TcReceive, ReceiveAndRedirect
<1> QED
  BY <1>1, <1>2, <1>3, <1>4, <1>5 DEF Next, TsRun

\* What recv returns to a client is the beginning of the source, in order, and
\* nothing of what was handed over is missing while the client waits (send_all_,
\* receive_and_redirect_).  Its file has all of that, unless fwrite or fclose wrote
\* less than they were given; even then what it has is in order, each unit at most
\* once (file_sink_send_, file_sink_finish_).
THEOREM EveryUnitInOrder == Spec => []FilesInv
<1>1. Init => FilesInv
  BY FilesInvInit, TransferAssumption
<1>2. FilesInv /\ [Next]_vars => FilesInv'
  BY FilesInvStep, TransferAssumption
<1> QED
  BY <1>1, <1>2, PTL DEF Spec

\* The output file of a client that is done is what its status says, and files are
\* open only during a transfer (tc_receive, handle_connection_).
THEOREM FilesAlwaysMatchStatus == Spec => []FilesMatchStatus
<1>1. FilesInv => FilesMatchStatus
  <2> SUFFICES ASSUME FilesInv
               PROVE  FilesMatchStatus
    OBVIOUS
  <2>1. ASSUME NEW c \in Clients
        PROVE  /\ client[c].at = "done" =>
                    CASE client[c].status = "Success" -> disk[c] \notin {Old, NoFile}
                      [] client[c].status = "FailedToReceive" -> disk[c] = NoFile
                      [] OTHER -> disk[c] = Old
               /\ client[c].status = "FailedToReceive" => ts.at \in {"done", "killed"}
               /\ client[c].session => client[c].at \in {"receive", "finish", "cancel"}
    <3>1. ClientParts(c) /\ client[c] \in ClientType /\ disk[c] \in Seq(Int)
      BY DEF FilesInv, TypeOK
    <3>2. client[c].status \in {"Success", "FailedToConnect", "FailedToOpen", "FailedToReceive"}
      BY <3>1 DEF ClientType
    <3>3. client[c].at = "done" /\ client[c].status = "Success" => disk[c] \notin {Old, NoFile}
      <4> SUFFICES ASSUME client[c].at = "done", client[c].status = "Success"
                   PROVE  disk[c] \notin {Old, NoFile}
        OBVIOUS
      <4>1. SomeOfFirst(disk[c], Len(got[c])) /\ Len(got[c]) \in Nat
        BY <3>1, LenProperties DEF ClientParts, FileKept, FilesInv, TypeOK
      <4>2. Len(disk[c]) = 1 => disk[c][1] >= 1
        BY <4>1 DEF SomeOfFirst
      <4>3. Len(Old) = 1 /\ Len(NoFile) = 1 /\ Old[1] = -1 /\ NoFile[1] = 0
        BY DEF Old, NoFile
      <4> QED
        BY <4>2, <4>3
    <3>4. client[c].status = "FailedToReceive" => ts.at \in {"done", "killed"}
      BY <3>1 DEF ClientParts, ServerGone
    <3>5. client[c].at = "done" /\ client[c].status = "FailedToReceive" => disk[c] = NoFile
      BY <3>1 DEF ClientParts
    <3>6. client[c].status \in {"FailedToConnect", "FailedToOpen"} => disk[c] = Old
      BY <3>1 DEF ClientParts
    <3>7. client[c].session => client[c].at \in {"receive", "finish", "cancel"}
      BY <3>1 DEF ClientParts
    <3> QED
      BY <3>2, <3>3, <3>4, <3>5, <3>6, <3>7
  <2>2. ts.session => ts.conn # NoClient /\ ts.at \notin {"select", "shutdown", "drain"}
    BY TransferAssumption DEF FilesInv, ServesOne, Serving, BufferIsTail, TransferAssumption
  <2> QED
    BY <2>1, <2>2 DEF FilesMatchStatus
<1> QED
  BY <1>1, EveryUnitInOrder, PTL

\* If no read of a file fails ("fread"), the source of a connection that is over was
\* read to its end, or the failure was logged, or the client has not come to the end.
LEMMA WholeInvStep ==
  ASSUME TransferAssumption, "fread" \notin Faults, FilesInv, FilesInv', WholeInv, [Next]_vars
  PROVE  WholeInv'
<1> USE DEF WholeInv
<1>1. /\ ts \in ServerType /\ ts.read \in Nat /\ stream \in [Clients -> Streams(Nat)]
      /\ client \in [Clients -> ClientType] /\ ServesOne /\ BufferIsTail
  BY ServerFields DEF FilesInv, TypeOK
<1>2. CASE UNCHANGED vars
  BY <1>2 DEF vars, ServedWhole, ReceivedWhole, Logged
<1>3. ASSUME log \subseteq log', client' = client, disk' = disk, got' = got, short' = short
      PROVE  \A c \in Clients : ReceivedWhole(c)'
  BY <1>3 DEF ReceivedWhole, Logged
<1>4. CASE TsCreate \/ Stop \/ Destroy \/ \E c \in Clients : Accept(c)
  <2>1. log' = log /\ client' = client /\ disk' = disk /\ got' = got /\ short' = short
    BY <1>4 DEF TsCreate, CreateAndBind, Listen, Stop, Destroy, Accept, clients, history
  <2>2. ts'.at \notin {"finish", "shutdown", "drain"}
    <3>1. CASE CreateAndBind
      BY <1>1, <3>1 DEF CreateAndBind, ServerType
    <3>2. CASE Listen \/ Stop \/ Destroy \/ \E c \in Clients : Accept(c)
      BY <1>1, <3>2, ZenonT(60) DEF Listen, Stop, Destroy, Accept, ServerType
    <3> QED
      BY <1>4, <3>1, <3>2 DEF TsCreate
  <2> QED
    BY <1>3, <2>1, <2>2 DEF ServedWhole
<1>5. CASE SourceStart
  <2>1. /\ log \subseteq log'
        /\ client' = client /\ disk' = disk /\ got' = got /\ short' = short
        /\ ts'.conn = ts.conn
        /\ ts'.at = "read" \/ <<ts.conn, "FailedToOpen">> \in log'
    BY <1>1, <1>5 DEF SourceStart, clients, history, Log, ServerType
  <2> QED
    BY <1>3, <2>1 DEF ServedWhole, Logged
<1>6. CASE SourceRead
  <2>1. /\ log \subseteq log'
        /\ client' = client /\ disk' = disk /\ got' = got /\ short' = short
    BY <1>6 DEF SourceRead, clients, history, Log
  <2>2. \/ ts'.at = "send"
        \/ ts'.conn = ts.conn /\ ts'.read = ts.read /\ ts.read = Size
        \/ ts'.conn = ts.conn /\ <<ts.conn, "FailedToRead">> \in log'
    <3>1. PICK n \in SourceReturns :
            \/ n > 0 /\ ts' = [ts EXCEPT !.at = "send", !.read = @ + n,
                                          !.buffer = [i \in 1..n |-> ts.read + i]]
            \/ n = 0 /\ ts' = [ts EXCEPT !.at = "finish"]
            \/ n < 0 /\ ts' = [ts EXCEPT !.at = "finish"] /\ Log("FailedToRead")
      BY <1>6 DEF SourceRead
    <3>2. n = 0 => ts.read = Size
      BY <1>1 DEF SourceReturns, TransferAssumption
    <3>3. CASE n > 0 /\ ts' = [ts EXCEPT !.at = "send", !.read = @ + n,
                                          !.buffer = [i \in 1..n |-> ts.read + i]]
      BY <1>1, <3>3 DEF ServerType
    <3>4. CASE n = 0 /\ ts' = [ts EXCEPT !.at = "finish"]
      BY <1>1, <3>2, <3>4 DEF ServerType
    <3>5. CASE ts' = [ts EXCEPT !.at = "finish"] /\ Log("FailedToRead")
      BY <1>1, <3>5 DEF ServerType, Log
    <3> QED
      BY <3>1, <3>3, <3>4, <3>5
  <2>3. ServedWhole'
    BY <2>2 DEF ServedWhole, Logged
  <2> QED
    BY <1>3, <2>1, <2>3
<1>7. CASE SendAll
  <2>1. /\ log \subseteq log'
        /\ client' = client /\ disk' = disk /\ got' = got /\ short' = short
        /\ ts.at = "send"
    BY <1>7 DEF SendAll, Killed, clients, history, Log
  <2>2. PICK c \in Clients : c = ts.conn
    BY <1>1, <2>1 DEF ServesOne, Serving
  <2>3. PICK k \in Streams(Nat) : k = stream[c]
    BY <1>1
  <2>4. PICK r \in Sends(k, "server", ts.buffer) :
          \/ ts' = [ts EXCEPT !.buffer = SubSeq(@, r.ret + 1, Len(@)),
                              !.at = IF r.ret = Len(ts.buffer) THEN "read" ELSE "send"]
          \/ r.ret < 0 /\ ts' = [ts EXCEPT !.at = "finish", !.buffer = <<>>] /\ stream' = stream
          \/ ts' = [ts EXCEPT !.at = "killed", !.socket = "closed", !.session = FALSE]
    BY <1>7, <2>2, <2>3 DEF SendAll, Killed
  <2>5. \/ ts'.at \in {"read", "send", "killed"}
        \/ r.ret < 0 /\ ts'.at = "finish" /\ ts'.conn = ts.conn /\ stream' = stream
    BY <1>1, <2>4 DEF ServerType
  <2>6. r.ret < 0 => k.reset
    <3>1. PICK j : j = r.stream
      OBVIOUS
    <3>2. PICK data \in Seq(Nat) : data = ts.buffer
      BY ServerFields DEF FilesInv
    <3> QED
      BY <2>4, <3>1, <3>2, SendsUnits
  <2>7. ServedWhole'
    BY <2>2, <2>3, <2>5, <2>6 DEF ServedWhole
  <2> QED
    BY <1>3, <2>1, <2>7
<1>8. CASE SourceFinish \/ ShutdownWrite
  <2>1. /\ log' = log /\ client' = client /\ disk' = disk /\ got' = got /\ short' = short
        /\ ts.at \in {"finish", "shutdown"} /\ ts'.conn = ts.conn /\ ts'.read = ts.read
    BY <1>1, <1>8 DEF SourceFinish, ShutdownWrite, clients, history, ServerType
  <2>2. PICK c \in Clients : c = ts.conn
    BY <1>1, <2>1 DEF ServesOne, Serving
  <2>3. stream[c].reset => stream'[c].reset
    <3>1. PICK k \in Streams(Nat) : k = stream[c]
      BY <1>1
    <3>2. PICK j : j = ShutDown(k, "server")
      OBVIOUS
    <3>3. j.reset = k.reset
      BY <3>2, ShutDownFields DEF Sides
    <3>4. stream'[c] = j \/ stream'[c] = k
      BY <1>1, <1>8, <2>2, <3>1, <3>2 DEF SourceFinish, ShutdownWrite
    <3> QED
      BY <3>1, <3>3, <3>4
  <2>4. ServedWhole'
    BY <2>1, <2>2, <2>3 DEF ServedWhole, Logged
  <2> QED
    BY <1>3, <2>1, <2>4
<1>9. CASE Drain
  <2>1. /\ log' = log
        /\ client' = client /\ disk' = disk /\ got' = got /\ short' = short
        /\ ts.at = "drain"
    BY <1>9 DEF Drain, clients, history
  <2>2. PICK c \in Clients : c = ts.conn
    BY <1>1, <2>1 DEF ServesOne, Serving
  <2>3. PICK k \in Streams(Nat) : k = stream[c]
    BY <1>1
  <2>4. PICK r \in Receives(k, "server", Chunk) :
          \/ stream' = [stream EXCEPT ![c] = r.stream] /\ ts' = ts
          \/ ts' = [ts EXCEPT !.at = "select", !.conn = NoClient, !.read = 0]
    BY <1>9, <2>2, <2>3 DEF Drain
  <2>5. PICK j : j = r.stream
    OBVIOUS
  <2>6. j.reset = k.reset
    BY <2>5, ReceivesUnits DEF Sides
  <2>7. \/ ts' = ts /\ (stream[c].reset => stream'[c].reset)
        \/ ts'.at = "select"
    BY <1>1, <2>3, <2>4, <2>5, <2>6 DEF ServerType
  <2>8. ServedWhole'
    BY <2>1, <2>2, <2>7 DEF ServedWhole, Logged
  <2> QED
    BY <1>3, <2>1, <2>8
<1>10. ASSUME NEW c \in Clients, TcReceive(c) \/ Leave(c)
       PROVE  WholeInv'
  <2>1. ts' = ts /\ log' = log
    BY <1>10 DEF TcReceive, ReceiveAndRedirect, Connect, SinkStart, Receive, SinkCancel,
                SinkFinish, Close, Leave
  <2>2. ASSUME NEW d \in Clients
        PROVE  stream[d].reset => stream'[d].reset
    <3> SUFFICES ASSUME d = c, stream[c].reset
                 PROVE  stream'[c].reset
      BY <1>1, <1>10 DEF TcReceive, ReceiveAndRedirect, Connect, SinkStart, Receive, SinkCancel,
                SinkFinish, Close, Leave
    <3>1. PICK k \in Streams(Nat) : k = stream[c]
      BY <1>1
    <3>2. "client" \in Sides
      BY DEF Sides
    <3>3. CASE Connect(c)
      <4>1. client[c].at = "connect" /\ ClientParts(c)
        BY <3>3 DEF Connect, FilesInv
      <4>2. stream[c] = NoStream
        BY <4>1 DEF ClientParts
      <4> QED
        BY <4>2, NoStreamFields
    <3>4. CASE SinkStart(c) \/ SinkCancel(c) \/ SinkFinish(c)
      BY <3>4 DEF SinkStart, SinkCancel, SinkFinish
    <3>5. CASE Receive(c)
      <4>1. PICK r \in Receives(k, "client", Chunk) : stream' = [stream EXCEPT ![c] = r.stream]
        BY <3>1, <3>5 DEF Receive
      <4>2. PICK j : j = r.stream
        OBVIOUS
      <4>3. j.reset = k.reset
        BY <3>2, <4>2, ReceivesUnits
      <4> QED
        BY <1>1, <3>1, <4>1, <4>2, <4>3
    <3>6. CASE Close(c) \/ Leave(c)
      <4>1. PICK j \in Departures(k, "client") : stream' = [stream EXCEPT ![c] = j]
        BY <3>1, <3>6 DEF Close, Leave, Departures
      <4>2. k.reset => j.reset
        BY <3>2, DepartureFields
      <4> QED
        BY <1>1, <3>1, <4>1, <4>2
    <3> QED
      BY <1>10, <3>3, <3>4, <3>5, <3>6 DEF TcReceive, ReceiveAndRedirect
  <2>3. ServedWhole'
    <3>1. Serving => ts.conn \in Clients
      BY <1>1 DEF ServesOne
    <3> QED
      BY <2>1, <2>2, <3>1 DEF ServedWhole, Logged, Serving
  <2>4. ASSUME NEW d \in Clients
        PROVE  ReceivedWhole(d)'
    <3>1. CASE d # c
      <4>1. client'[d] = client[d] /\ got'[d] = got[d]
        BY <1>1, <1>10, <3>1 DEF TcReceive, ReceiveAndRedirect, Connect, SinkStart, Receive,
              SinkCancel, SinkFinish, Close, Leave, Goes, Fails, history, FilesInv, TypeOK
      <4> QED
        BY <2>1, <4>1 DEF ReceivedWhole, Logged
    <3> SUFFICES ASSUME d = c
                 PROVE  ReceivedWhole(c)'
      BY <3>1
    <3>2. ASSUME got'[c] = got[c], client'[c].status = client[c].status,
                 client[c].at \in {"finish", "close"}
          PROVE  ReceivedWhole(c)'
      BY <2>1, <3>2 DEF ReceivedWhole, Logged
    <3>3. ClientParts(c) /\ InOrder(c)
      BY DEF FilesInv
    <3>4. client \in [Clients -> ClientType] /\ client[c] \in ClientType
      BY DEF FilesInv, TypeOK
    <3>5. CASE Connect(c)
      <4>1. Goes(c, "start") \/ Fails(c, "done", "FailedToConnect")
        BY <3>5 DEF Connect
      <4>2. client'[c].at = "start" \/ client'[c].status = "FailedToConnect"
        BY <3>4, <4>1 DEF Goes, Fails, ClientType
      <4> QED
        BY <4>2 DEF ReceivedWhole
    <3>6. CASE SinkStart(c)
      <4>1. client'[c].at = "receive" \/ client'[c].status = "FailedToOpen"
        BY <3>6, <3>4 DEF SinkStart, Fails, ClientType
      <4> QED
        BY <4>1 DEF ReceivedWhole
    <3>7. CASE SinkCancel(c)
      <4>1. client'[c].status = client[c].status /\ client[c].at = "cancel"
        BY <3>7, <3>4 DEF SinkCancel, ClientType
      <4> QED
        BY <3>3, <4>1 DEF ReceivedWhole, ClientParts
    <3>8. CASE SinkFinish(c)
      <4>1. client'[c].status = client[c].status /\ client[c].at = "finish" /\ got' = got
        BY <3>8, <3>4 DEF SinkFinish, ClientType
      <4> QED
        BY <3>2, <4>1
    <3>9. CASE Close(c)
      <4>1. client'[c].status = client[c].status /\ client[c].at = "close" /\ got' = got
        BY <3>9, <3>4 DEF Close, Goes, ClientType, history
      <4> QED
        BY <3>2, <4>1
    <3>10. CASE Leave(c)
      <4>1. client'[c].at = "gone"
        BY <3>10, <3>4 DEF Leave, ClientType
      <4> QED
        BY <4>1 DEF ReceivedWhole
    <3>11. CASE Receive(c)
      <4>1. PICK k \in Streams(Nat) : k = stream[c]
        BY <1>1
      <4>2. PICK r \in Receives(k, "client", Chunk) :
              \/ r.ret > 0 /\ client' = client
              \/ r.ret = 0 /\ Goes(c, "finish") /\ got' = got
              \/ r.ret < 0 /\ Fails(c, "cancel", "FailedToReceive")
        BY <3>11, <4>1 DEF Receive, history
      <4>3. client[c].at = "receive"
        BY <3>11 DEF Receive
      <4>4. CASE client' = client \/ Fails(c, "cancel", "FailedToReceive")
        <5>1. client'[c].at = "receive" \/ client'[c].status = "FailedToReceive"
          BY <3>4, <4>3, <4>4 DEF Fails, ClientType
        <5> QED
          BY <5>1 DEF ReceivedWhole
      <4>5. CASE r.ret = 0 /\ Goes(c, "finish") /\ got' = got
        <5>1. "client" \in Sides /\ Peer("client") = "server"
          BY DEF Sides, Peer
        <5>2. PICK j : j = r.stream
          OBVIOUS
        <5>3. k.toward["client"] = <<>> /\ k.state["server"] \in {"shut", "closed"} /\ ~k.reset
          BY <4>5, <5>1, <5>2, ReceivesUnits
        <5>4. got[c] \in Seq(Int)
          BY DEF FilesInv, TypeOK
        <5>5. Came(c) = got[c]
          BY <4>1, <4>3, <5>3, <5>4, ConcatEmptySeq DEF Came
        <5>6. Waiting(c)
          BY <4>3 DEF Waiting
        <5>7. got[c] = FirstUnits(Len(got[c])) /\ Len(got[c]) = Sent(c)
              /\ stream[c].state["server"] = "shut"
          BY <3>3, <4>1, <5>3, <5>5, <5>6 DEF InOrder
        <5>8. ts.conn = c /\ ts.at = "drain"
          BY <1>1, <5>7 DEF ServesOne, Serving
        <5>9. Sent(c) = ts.read
          <6>1. ts.buffer = <<>> /\ Len(<<>>) = 0
            BY <1>1, <5>8, EmptySeq DEF BufferIsTail
          <6>2. Len(ts.buffer) = 0
            BY <6>1, Zenon
          <6> QED
            BY <1>1, <5>8, <6>2 DEF Sent
        <5>10. ts.read = Size \/ Logged(c)
          BY <4>1, <5>3, <5>8 DEF ServedWhole
        <5>11. log' = log /\ got'[c] = got[c]
          BY <2>1, <4>5
        <5>12. got'[c] = FirstUnits(ts.read)
          BY <5>7, <5>9, <5>11
        <5>13. CASE ts.read = Size
          BY <5>12, <5>13 DEF ReceivedWhole
        <5>14. CASE Logged(c)
          BY <5>11, <5>14 DEF ReceivedWhole, Logged
        <5> QED
          BY <5>10, <5>13, <5>14
      <4> QED
        BY <4>2, <4>4, <4>5
    <3> QED
      BY <1>10, <3>1, <3>5, <3>6, <3>7, <3>8, <3>9, <3>10, <3>11 DEF TcReceive, ReceiveAndRedirect
  <2> QED
    BY <2>3, <2>4
<1> QED
  BY <1>2, <1>4, <1>5, <1>6, <1>7, <1>8, <1>9, <1>10 DEF Next, TsRun, HandleConnection

\* The units of a file in order are those of the source.
LEMMA SomeOfFirstAscending ==
  ASSUME NEW units, NEW n \in Nat, SomeOfFirst(units, n), n <= Size, Size \in Nat
  PROVE  Ascending(units)
<1>1. \A i \in 1..n : i \in 1..Size
  OBVIOUS
<1> QED
  BY <1>1 DEF SomeOfFirst, Ascending

\* If no read of a file fails, a client that reports success was sent the whole
\* source, or the server has logged a failure for its connection; and its file has
\* all that came, or fwrite or fclose wrote less than they were given, and then it
\* has the rest in order (handle_connection_, tc_receive, file_sink_send_).  With
\* failed reads, which file_source_read_ reports as the end, this is not so.
THEOREM NothingLostSilently == "fread" \notin Faults => (Spec => []WholeOrLogged)
<1> SUFFICES ASSUME "fread" \notin Faults
             PROVE  Spec => []WholeOrLogged
  OBVIOUS
<1>1. Init => WholeInv
  BY DEF Init, WholeInv, ServedWhole, ReceivedWhole
<1>2. FilesInv /\ FilesInv' /\ WholeInv /\ [Next]_vars => WholeInv'
  BY WholeInvStep, TransferAssumption
<1>3. FilesInv /\ WholeInv => WholeOrLogged
  <2> SUFFICES ASSUME FilesInv, WholeInv, NEW c \in Clients,
                      client[c].at = "done", client[c].status = "Success"
               PROVE  /\ \/ got[c] = [i \in 1..Size |-> i]
                         \/ \E status \in {"FailedToOpen", "FailedToRead"} :
                              <<c, status>> \in log
                      /\ \/ disk[c] = got[c]
                         \/ c \in short /\ Ascending(disk[c])
    BY DEF WholeOrLogged
  <2>1. got[c] = FirstUnits(Size) \/ Logged(c)
    BY DEF WholeInv, ReceivedWhole
  <2>2. /\ disk[c] = got[c] \/ c \in short
        /\ SomeOfFirst(disk[c], Len(got[c])) /\ Len(got[c]) <= Size
    BY DEF FilesInv, ClientParts, FileKept
  <2>3. Len(got[c]) \in Nat /\ Size \in Nat
    BY TransferAssumption, LenProperties DEF FilesInv, TypeOK, TransferAssumption
  <2>4. Ascending(disk[c])
    BY <2>2, <2>3, SomeOfFirstAscending
  <2> QED
    BY <2>1, <2>2, <2>4 DEF FirstUnits, Logged
<1> QED
  BY <1>1, <1>2, <1>3, EveryUnitInOrder, PTL DEF Spec

================================================================================
