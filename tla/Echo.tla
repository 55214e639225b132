---------------------------------- MODULE Echo ---------------------------------
(***************************************************************************)
(* The echo server and its clients (echo/echoserver.c, echo/echoclient.c). *)
(* The server handles one connection at a time: it receives once, sends    *)
(* back what it got, says that nothing more will come, and reads until the *)
(* client has closed too.  Clients connect whenever they like and wait in  *)
(* the backlog for their turn.                                             *)
(*                                                                         *)
(* A message is counted in units; unit i of the message of c is <<c, i>>.  *)
(***************************************************************************)
EXTENDS Integers, Sequences, Tcp

CONSTANTS
  Clients,
  NoClient,
  Length,            \* Length[c]: the units of the message of c
  MaxMessageLength,  \* es->maxMessageLength, in units
  Addresses,         \* how many addresses getaddrinfo finds
  Splits,            \* clients whose message may travel in several pieces
  Leavers,           \* clients that may end at any time once connected
  Faults             \* which of "resolve", "bind", "listen", "sigpipe" may happen

ASSUME EchoAssumption ==
  /\ NoClient \notin Clients
  /\ Length \in [Clients -> Nat]
  /\ MaxMessageLength \in Nat \ {0}
  /\ Addresses \in Nat \ {0}
  /\ Splits \subseteq Clients /\ Leavers \subseteq Clients
  /\ Faults \subseteq {"resolve", "bind", "listen", "sigpipe"}

VARIABLES
  stream,  \* stream[c]: the connection of c
  es,      \* the EchoServer and the local state of es_create and es_run
  client   \* client[c]: the local state of ec_create and ec_send_and_receive

vars == <<stream, es, client>>

Message(c) == [i \in 1..Length[c] |-> <<c, i>>]

Init ==
  /\ stream = [c \in Clients |-> NoStream]
  /\ es = [at |-> "bind", socket |-> "none", address |-> 1, status |-> "Success",
           conn |-> NoClient, read |-> 0, buffer |-> <<>>]
  /\ client = [c \in Clients |-> [at |-> "create", sent |-> 0, got |-> <<>>,
                                  status |-> "Success"]]

-----------------------------------------------------------------------------
(* es_create.                                                              *)

\* One turn of the loop over the addresses: socket and bind, or the next one.
\* Each socket that could not be bound is closed.
CreateAndBind ==
  /\ es.at = "bind"
  /\ \/ /\ es.address <= Addresses
        /\ es' = [es EXCEPT !.at = "listen", !.socket = "bound"]
     \/ /\ es.address <= Addresses /\ "bind" \in Faults
        /\ es' = [es EXCEPT !.address = @ + 1]
     \/ /\ es.address > Addresses
        /\ es' = [es EXCEPT !.at = "destroy", !.status = "FailedToBind"]
  /\ UNCHANGED <<stream, client>>

\* The rest of es_create: on a failure it destroys what it has made.
Listen ==
  /\ es.at = "listen"
  /\ \/ es' = [es EXCEPT !.at = "select", !.socket = "listening"]
     \/ /\ "listen" \in Faults
        /\ es' = [es EXCEPT !.at = "destroy", !.status = "FailedToListen"]
  /\ UNCHANGED <<stream, client>>

-----------------------------------------------------------------------------
(* es_run.                                                                 *)

\* continueFcn returns false.
Stop ==
  /\ es.at = "select"
  /\ es' = [es EXCEPT !.at = "stopped"]
  /\ UNCHANGED <<stream, client>>

\* es_run is called again, as its comment allows.
Rerun ==
  /\ es.at = "stopped"
  /\ es' = [es EXCEPT !.at = "select"]
  /\ UNCHANGED <<stream, client>>

\* A pending connection is accepted.  (After a timeout of select_, or when
\* select or accept fails, which is logged, the loop just goes round again.)
Accept(c) ==
  /\ es.at = "select"
  /\ IsPending(stream[c])
  /\ stream' = [stream EXCEPT ![c] = Accepted(@)]
  /\ es' = [es EXCEPT !.at = "receive", !.conn = c]
  /\ UNCHANGED client

\* The one recv of receive_and_send_all_.
Receive ==
  /\ es.at = "receive"
  /\ \E r \in Receives(stream[es.conn], "server", MaxMessageLength) :
       /\ stream' = [stream EXCEPT ![es.conn] = r.stream]
       /\ es' = [es EXCEPT !.at = "send", !.read = r.ret, !.buffer = r.data]
  /\ UNCHANGED client

\* SIGPIPE, which nothing ignores, ends the server in the middle of a send.
Killed ==
  /\ "sigpipe" \in Faults
  /\ stream' = [c \in Clients |-> Abandoned(stream[c])]
  /\ es' = [es EXCEPT !.at = "killed", !.socket = "closed"]

\* send_all_ of what was received.  A recv of 0 sends nothing.  A recv of -1
\* is taken for the largest size_t: the send is tried all the same, and as it
\* returns -1 too, the comparison with read finds nothing wrong.  Failures are
\* logged, here and in Receive, and the loop of es_run goes on.
SendAll ==
  /\ es.at = "send"
  /\ \/ /\ es.read >= 0 /\ es.buffer = <<>>
        /\ es' = [es EXCEPT !.at = "shutdown"]
        /\ UNCHANGED stream
     \/ /\ es.read < 0 \/ es.buffer # <<>>
        /\ \E r \in Sends(stream[es.conn], "server", es.buffer) :
             \/ /\ r.ret >= 0
                /\ stream' = [stream EXCEPT ![es.conn] = r.stream]
                /\ es' = [es EXCEPT !.buffer = SubSeq(@, r.ret + 1, Len(@))]
             \/ /\ r.ret < 0
                /\ es' = [es EXCEPT !.at = "shutdown", !.buffer = <<>>]
                /\ UNCHANGED stream
             \/ r.ret < 0 /\ Killed
  /\ UNCHANGED client

\* Variant: shutdown_ does not say that nothing more will come.
ShutdownForgotten ==
  /\ es.at = "shutdown"
  /\ es' = [es EXCEPT !.at = "drain"]
  /\ UNCHANGED <<stream, client>>

\* The first line of shutdown_.
ShutdownWrite ==
  /\ es.at = "shutdown"
  /\ stream' = [stream EXCEPT ![es.conn] = ShutDown(@, "server")]
  /\ es' = [es EXCEPT !.at = "drain"]
  /\ UNCHANGED client

\* Variant: the socket is closed without reading what the client still sends.
DrainNothing ==
  /\ es.at = "drain"
  /\ stream' = [stream EXCEPT ![es.conn] = Closed(@, "server")]
  /\ es' = [es EXCEPT !.at = "select", !.conn = NoClient]
  /\ UNCHANGED client

\* The loop of shutdown_, up to the close when the client has closed.
Drain ==
  /\ es.at = "drain"
  /\ \E r \in Receives(stream[es.conn], "server", MaxMessageLength) :
       IF r.ret > 0
         THEN stream' = [stream EXCEPT ![es.conn] = r.stream] /\ UNCHANGED es
         ELSE /\ stream' = [stream EXCEPT ![es.conn] = Closed(@, "server")]
              /\ es' = [es EXCEPT !.at = "select", !.conn = NoClient, !.read = 0]
  /\ UNCHANGED client

\* es_destroy, by es_create or by main after es_run.
Destroy ==
  /\ es.at \in {"destroy", "stopped"}
  /\ stream' = [c \in Clients |-> Unlistened(stream[c])]
  /\ es' = [es EXCEPT !.at = "done", !.socket = "closed"]
  /\ UNCHANGED client

-----------------------------------------------------------------------------
(* A client: ec_create, ec_send_and_receive.                               *)

Goes(c, at) == client' = [client EXCEPT ![c].at = at]

Fails(c, at, status) == client' = [client EXCEPT ![c].at = at, ![c].status = status]

Create(c) ==
  /\ client[c].at = "create"
  /\ \/ Goes(c, "connect")
     \/ "resolve" \in Faults /\ Fails(c, "done", "FailedToResolveHost")
  /\ UNCHANGED <<stream, es>>

\* One of the addresses is the one the server listens on, or none is.
Connect(c) ==
  /\ client[c].at = "connect"
  /\ IF es.socket = "listening"
       THEN Goes(c, "send") /\ stream' = [stream EXCEPT ![c] = Connected]
       ELSE Fails(c, "done", "FailedToConnectToSocket") /\ UNCHANGED stream
  /\ UNCHANGED <<es>>

\* Variant: a message that was taken in pieces is sent again from its start.
SendFromStart(c) ==
  /\ client[c].at = "send"
  /\ IF client[c].sent = Length[c] THEN Goes(c, "receive") /\ UNCHANGED stream
     ELSE \E r \in Sends(stream[c], "client", SubSeq(Message(c), 1, Length[c] - client[c].sent)) :
            IF r.ret < 0
              THEN Fails(c, "close", "FailedToSend") /\ UNCHANGED stream
              ELSE /\ c \in Splits \/ r.ret = Length[c] - client[c].sent
                   /\ client' = [client EXCEPT ![c].sent = @ + r.ret]
                   /\ stream' = [stream EXCEPT ![c] = r.stream]
  /\ UNCHANGED <<es>>

\* A turn of send_all_; for an empty message there is none.
Send(c) ==
  /\ client[c].at = "send"
  /\ IF client[c].sent = Length[c] THEN Goes(c, "receive") /\ UNCHANGED stream
     ELSE LET rest == SubSeq(Message(c), client[c].sent + 1, Length[c]) IN
          \E r \in Sends(stream[c], "client", rest) :
            IF r.ret < 0
              THEN Fails(c, "close", "FailedToSend") /\ UNCHANGED stream
              ELSE /\ c \in Splits \/ r.ret = Len(rest)
                   /\ client' = [client EXCEPT ![c].sent = @ + r.ret]
                   /\ stream' = [stream EXCEPT ![c] = r.stream]
  /\ UNCHANGED <<es>>

\* A turn of receive_and_redirect_, which goes on until the server has closed.
ReceiveAndRedirect(c) ==
  /\ client[c].at = "receive"
  /\ \E r \in Receives(stream[c], "client", MaxMessageLength) :
       /\ stream' = [stream EXCEPT ![c] = r.stream]
       /\ \/ r.ret > 0 /\ client' = [client EXCEPT ![c].got = @ \o r.data]
          \/ r.ret = 0 /\ Goes(c, "close")
          \/ r.ret < 0 /\ Fails(c, "close", "FailedToReceive")
  /\ UNCHANGED <<es>>

\* The EXIT_POINT of ec_send_and_receive.
Close(c) ==
  /\ client[c].at = "close"
  /\ stream' = [stream EXCEPT ![c] = Closed(@, "client")]
  /\ Goes(c, "done")
  /\ UNCHANGED <<es>>

\* The client ends early, its process by a signal or its connection by a reset.
Leave(c) ==
  /\ client[c].at \in {"send", "receive"}
  /\ c \in Leavers
  /\ \E k \in Departures(stream[c], "client") : stream' = [stream EXCEPT ![c] = k]
  /\ Goes(c, "gone")
  /\ UNCHANGED <<es>>

-----------------------------------------------------------------------------
EsCreate == CreateAndBind \/ Listen

\* One connection after the other.
EsRun ==
  \/ \E c \in Clients : Accept(c)
  \/ Receive \/ SendAll \/ ShutdownWrite \/ Drain

SendAndReceive(c) == Connect(c) \/ Send(c) \/ ReceiveAndRedirect(c) \/ Close(c)

Next ==
  \/ EsCreate \/ EsRun \/ Stop \/ Rerun \/ Destroy
  \/ \E c \in Clients : Create(c) \/ SendAndReceive(c) \/ Leave(c)

Spec == Init /\ [][Next]_vars

\* The server and every client run on; accept is called again and again, and
\* takes connections in the order in which they came.
FairSpec ==
  /\ Spec
  /\ WF_vars(EsCreate) /\ WF_vars(Receive \/ SendAll \/ ShutdownWrite \/ Drain)
  /\ \A c \in Clients : /\ SF_vars(Accept(c))
                        /\ WF_vars(SendAndReceive(c))

-----------------------------------------------------------------------------
(* Properties.                                                             *)

\* What a client receives is its own message, from the start and not longer
\* than the server takes; and all of that when the message came in one piece.
\* (A message in pieces may be cut: there is one call of recv only.)
EchoIsTheMessage ==
  \A c \in Clients :
    LET got == client[c].got IN
    /\ got = SubSeq(Message(c), 1, Len(got)) /\ Len(got) <= MaxMessageLength
    /\ client[c].at = "done" /\ client[c].status = "Success" /\ c \notin Splits
         => Len(got) = (IF Length[c] < MaxMessageLength THEN Length[c] ELSE MaxMessageLength)

\* No client is cut off: a connection that was made fails only when the server
\* has ended before its turn, however much of its message the server left
\* unread and whatever the clients before it did.  This is what shutdown_ reads
\* for: a close before the client's would reset the connection.
NobodyCutOff ==
  \A c \in Clients :
    client[c].status \in {"FailedToSend", "FailedToReceive"} => es.at \in {"done", "killed"}

\* Every client that connects with a message gets to its end, and the server
\* gets through every connection it accepts, as long as it runs.
EveryClientServed ==
  \A c \in Clients :
    /\ client[c].at = "send"
         ~> client[c].at \in {"done", "gone"} \/ es.at \in {"stopped", "done", "killed"}
    /\ es.conn = c ~> es.conn # c \/ es.at = "killed"

\* echoserver.c:45: "es_run will continue accepting connections from clients or
\* until continueFcn(continueFcnData) returns false."
RunsUntilStopped == es.at # "killed"
================================================================================
