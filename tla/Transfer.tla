-------------------------------- MODULE Transfer -------------------------------
(***************************************************************************)
(* The transfer server and its clients (transfer/transferserver.c,         *)
(* transfer/transferclient.c).  A client asks for nothing: to connect is   *)
(* to be sent everything the server's source has, and the end of the       *)
(* stream is the end of the data.  Source and sink are abstract tables of  *)
(* functions, filled here with a file on either side.                      *)
(*                                                                         *)
(* The source has Size units, 1 to Size in this order.                     *)
(***************************************************************************)
EXTENDS Integers, Sequences, Tcp

CONSTANTS
  Clients,
  NoClient,
  Size,       \* the units of the source
  Chunk,      \* the units in the buffers of server and client
  Addresses,  \* how many addresses getaddrinfo finds
  Leavers,    \* clients that may end at any time once connected
  Sources,    \* "file", and "other" for a source that reports failed reads
  Faults      \* which of "bind", "listen", "open", "read", "fread", "sink", "disk",
              \* "sigpipe" may happen

ASSUME TransferAssumption ==
  /\ NoClient \notin Clients /\ Leavers \subseteq Clients
  /\ Size \in Nat /\ Chunk \in Nat \ {0} /\ Addresses \in Nat \ {0}
  /\ Sources \subseteq {"file", "other"}
  /\ Faults \subseteq {"bind", "listen", "open", "read", "fread", "sink", "disk", "sigpipe"}

VARIABLES
  stream,  \* stream[c]: the connection of c
  ts,      \* the TransferServer and the local state of ts_create and ts_run
  client,  \* client[c]: the local state of tc_receive
  disk,    \* disk[c]: what was written to the output file of c, or NoFile
  log,     \* what logFcn was called with, and for which connection
  got,     \* history: got[c], all that recv has returned to c
  short    \* history: the clients whose file took less than it was given

vars == <<stream, ts, client, disk, log, got, short>>

NoFile == <<0>>

Old == <<-1>>  \* an output file from an earlier transfer

\* session: what source_start returned is live; read: the units it has read.
Init ==
  /\ stream = [c \in Clients |-> NoStream]
  /\ \E source \in Sources :
       ts = [at |-> "bind", socket |-> "none", address |-> 1, status |-> "Success",
             conn |-> NoClient, source |-> source, session |-> FALSE, read |-> 0,
             buffer |-> <<>>]
  /\ client = [c \in Clients |-> [at |-> "connect", session |-> FALSE, status |-> "Success"]]
  /\ disk = [c \in Clients |-> Old]
  /\ log = {}
  /\ got = [c \in Clients |-> <<>>]
  /\ short = {}

history == <<got, short>>

clients == <<client, disk, history>>

-----------------------------------------------------------------------------
(* ts_create.                                                              *)

\* One turn of the loop over the addresses: socket and bind, or the next one.
CreateAndBind ==
  /\ ts.at = "bind"
  /\ \/ /\ ts.address <= Addresses
        /\ ts' = [ts EXCEPT !.at = "listen", !.socket = "bound"]
     \/ /\ ts.address <= Addresses /\ "bind" \in Faults
        /\ ts' = [ts EXCEPT !.address = @ + 1]
     \/ /\ ts.address > Addresses
        /\ ts' = [ts EXCEPT !.at = "destroy", !.status = "FailedToBind"]
  /\ UNCHANGED <<stream, clients, log>>

\* The rest of ts_create: on a failure it destroys what it has made.
Listen ==
  /\ ts.at = "listen"
  /\ \/ ts' = [ts EXCEPT !.at = "select", !.socket = "listening"]
     \/ /\ "listen" \in Faults
        /\ ts' = [ts EXCEPT !.at = "destroy", !.status = "FailedToListen"]
  /\ UNCHANGED <<stream, clients, log>>

-----------------------------------------------------------------------------
(* handle_connection_, between the accept and the shutdown of ts_run.      *)

\* handle_connection_ has returned status, which ts_run logs if it is a failure.
Log(status) == log' = log \cup {<<ts.conn, status>>}

\* source_start, that is fopen for a file.
SourceStart ==
  /\ ts.at = "start"
  /\ \/ /\ ts' = [ts EXCEPT !.at = "read", !.session = TRUE, !.read = 0]
        /\ UNCHANGED log
     \/ "open" \in Faults /\ ts' = [ts EXCEPT !.at = "shutdown"] /\ Log("FailedToOpen")
  /\ UNCHANGED <<stream, clients>>

\* What source_read may return: the next units, 0 at the end, or a failure,
\* which fread, and so a file source, reports as if it were the end.
SourceReturns ==
  (IF ts.read = Size THEN {0} ELSE {n \in 1..Chunk : ts.read + n <= Size})
    \cup (IF ts.source = "other" /\ "read" \in Faults THEN {-1} ELSE {})
    \cup (IF ts.source = "file" /\ "fread" \in Faults THEN {0} ELSE {})

\* Variant: the failure of a read is taken for the end of the source.
SourceReadEnds ==
  /\ ts.at = "read"
  /\ \E n \in SourceReturns :
       \/ /\ n > 0
          /\ ts' = [ts EXCEPT !.at = "send", !.read = @ + n,
                              !.buffer = [i \in 1..n |-> ts.read + i]]
          /\ UNCHANGED log
       \/ n <= 0 /\ ts' = [ts EXCEPT !.at = "finish"] /\ UNCHANGED log
  /\ UNCHANGED <<stream, clients>>

\* The condition of the loop of handle_connection_.
SourceRead ==
  /\ ts.at = "read"
  /\ \E n \in SourceReturns :
       \/ /\ n > 0
          /\ ts' = [ts EXCEPT !.at = "send", !.read = @ + n,
                              !.buffer = [i \in 1..n |-> ts.read + i]]
          /\ UNCHANGED log
       \/ n = 0 /\ ts' = [ts EXCEPT !.at = "finish"] /\ UNCHANGED log
       \/ n < 0 /\ ts' = [ts EXCEPT !.at = "finish"] /\ Log("FailedToRead")
  /\ UNCHANGED <<stream, clients>>

\* SIGPIPE, which nothing ignores, ends the server in the middle of a send.
Killed ==
  /\ "sigpipe" \in Faults
  /\ stream' = [c \in Clients |-> Abandoned(stream[c])]
  /\ ts' = [ts EXCEPT !.at = "killed", !.socket = "closed", !.session = FALSE]
  /\ UNCHANGED log

\* A turn of send_all_, and after the last one the body of the loop is over.
SendAll ==
  /\ ts.at = "send"
  /\ \E r \in Sends(stream[ts.conn], "server", ts.buffer) :
       \/ /\ r.ret >= 0
          /\ stream' = [stream EXCEPT ![ts.conn] = r.stream]
          /\ ts' = [ts EXCEPT !.buffer = SubSeq(@, r.ret + 1, Len(@)),
                              !.at = IF r.ret = Len(ts.buffer) THEN "read" ELSE "send"]
          /\ UNCHANGED log
       \/ /\ r.ret < 0
          /\ ts' = [ts EXCEPT !.at = "finish", !.buffer = <<>>]
          /\ Log("FailedToSend")
          /\ UNCHANGED stream
       \/ r.ret < 0 /\ Killed
  /\ UNCHANGED clients

\* The EXIT_POINT of handle_connection_: source_finish closes the file.
SourceFinish ==
  /\ ts.at = "finish"
  /\ ts' = [ts EXCEPT !.at = "shutdown", !.session = FALSE]
  /\ UNCHANGED <<stream, clients, log>>

-----------------------------------------------------------------------------
(* ts_run.                                                                 *)

\* continueFcn returns false.
Stop ==
  /\ ts.at = "select"
  /\ ts' = [ts EXCEPT !.at = "destroy"]
  /\ UNCHANGED <<stream, clients, log>>

\* A pending connection is accepted.  (After a timeout of select_, or when
\* select or accept fails, the loop just goes round again.)
Accept(c) ==
  /\ ts.at = "select"
  /\ IsPending(stream[c])
  /\ stream' = [stream EXCEPT ![c] = Accepted(@)]
  /\ ts' = [ts EXCEPT !.at = "start", !.conn = c]
  /\ UNCHANGED <<clients, log>>

\* Variant: shutdown_ does not say that nothing more will come.
ShutdownForgotten ==
  /\ ts.at = "shutdown"
  /\ ts' = [ts EXCEPT !.at = "drain"]
  /\ UNCHANGED <<stream, clients, log>>

\* The first line of shutdown_.
ShutdownWrite ==
  /\ ts.at = "shutdown"
  /\ stream' = [stream EXCEPT ![ts.conn] = ShutDown(@, "server")]
  /\ ts' = [ts EXCEPT !.at = "drain"]
  /\ UNCHANGED <<clients, log>>

\* The loop of shutdown_ and its close, when the client has closed.
Drain ==
  /\ ts.at = "drain"
  /\ \E r \in Receives(stream[ts.conn], "server", Chunk) :
       IF r.ret > 0
         THEN stream' = [stream EXCEPT ![ts.conn] = r.stream] /\ UNCHANGED ts
         ELSE /\ stream' = [stream EXCEPT ![ts.conn] = Closed(@, "server")]
              /\ ts' = [ts EXCEPT !.at = "select", !.conn = NoClient, !.read = 0]
  /\ UNCHANGED <<clients, log>>

\* ts_destroy, by ts_create or by main after ts_run.
Destroy ==
  /\ ts.at = "destroy"
  /\ stream' = [c \in Clients |-> Unlistened(stream[c])]
  /\ ts' = [ts EXCEPT !.at = "done", !.socket = "closed"]
  /\ UNCHANGED <<clients, log>>

-----------------------------------------------------------------------------
(* A client: tc_receive with a file for a sink.                            *)

Goes(c, at) == client' = [client EXCEPT ![c].at = at]

Fails(c, at, status) == client' = [client EXCEPT ![c].at = at, ![c].status = status]

\* One of the addresses is the one the server listens on, or none is.
Connect(c) ==
  /\ client[c].at = "connect"
  /\ IF ts.socket = "listening"
       THEN Goes(c, "start") /\ stream' = [stream EXCEPT ![c] = Connected]
       ELSE Fails(c, "done", "FailedToConnect") /\ UNCHANGED stream
  /\ UNCHANGED <<ts, disk, log, history>>

\* sink_start: fopen empties a file that is there, or fails and leaves it.
SinkStart(c) ==
  /\ client[c].at = "start"
  /\ \/ /\ client' = [client EXCEPT ![c].at = "receive", ![c].session = TRUE]
        /\ disk' = [disk EXCEPT ![c] = <<>>]
     \/ "sink" \in Faults /\ Fails(c, "close", "FailedToOpen") /\ UNCHANGED disk
  /\ UNCHANGED <<stream, ts, log, history>>

\* How many of n units the disk takes: on a full one fwrite returns less than it
\* was given, and fclose loses an end of the file that was still in the buffer.
Taken(n) == IF "disk" \in Faults THEN 0..n ELSE {n}

\* The file of c is left with content, n units less than it was given.
Keeps(c, content, n) ==
  /\ disk' = [disk EXCEPT ![c] = content]
  /\ short' = IF n > 0 THEN short \cup {c} ELSE short

\* The loop of receive_and_redirect_, with sink_send, that is fwrite: nobody
\* looks at what it returns.
Receive(c) ==
  /\ client[c].at = "receive"
  /\ \E r \in Receives(stream[c], "client", Chunk) :
       /\ stream' = [stream EXCEPT ![c] = r.stream]
       /\ \/ /\ r.ret > 0
             /\ \E n \in Taken(r.ret) :
                  Keeps(c, disk[c] \o SubSeq(r.data, 1, n), r.ret - n)
             /\ got' = [got EXCEPT ![c] = @ \o r.data]
             /\ UNCHANGED client
          \/ r.ret = 0 /\ Goes(c, "finish") /\ UNCHANGED <<disk, history>>
          \/ r.ret < 0 /\ Fails(c, "cancel", "FailedToReceive") /\ UNCHANGED <<disk, history>>
  /\ UNCHANGED <<ts, log>>

\* Variant: the sink is finished after a failure too.
SinkCancelKeeps(c) ==
  /\ client[c].at = "cancel"
  /\ client' = [client EXCEPT ![c].at = "close", ![c].session = FALSE]
  /\ UNCHANGED <<stream, ts, disk, log, history>>

\* sink_cancel: the file is closed and removed.
SinkCancel(c) ==
  /\ client[c].at = "cancel"
  /\ client' = [client EXCEPT ![c].at = "close", ![c].session = FALSE]
  /\ disk' = [disk EXCEPT ![c] = NoFile]
  /\ UNCHANGED <<stream, ts, log, history>>

\* sink_finish: the result of fclose is not looked at, either.
SinkFinish(c) ==
  /\ client[c].at = "finish"
  /\ client' = [client EXCEPT ![c].at = "close", ![c].session = FALSE]
  /\ \E n \in Taken(Len(disk[c])) : Keeps(c, SubSeq(disk[c], 1, n), Len(disk[c]) - n)
  /\ UNCHANGED <<stream, ts, log, got>>

\* The end of tc_receive.
Close(c) ==
  /\ client[c].at = "close"
  /\ stream' = [stream EXCEPT ![c] = Closed(@, "client")]
  /\ Goes(c, "done")
  /\ UNCHANGED <<ts, disk, log, history>>

\* The client ends early, its process by a signal or its connection by a reset.
Leave(c) ==
  /\ client[c].at \in {"start", "receive"}
  /\ c \in Leavers
  /\ \E k \in Departures(stream[c], "client") : stream' = [stream EXCEPT ![c] = k]
  /\ client' = [client EXCEPT ![c].at = "gone", ![c].session = FALSE]
  /\ UNCHANGED <<ts, disk, log, history>>

-----------------------------------------------------------------------------
TsCreate == CreateAndBind \/ Listen

HandleConnection == SourceStart \/ SourceRead \/ SendAll \/ SourceFinish

\* One connection after the other.
TsRun == (\E c \in Clients : Accept(c)) \/ HandleConnection \/ ShutdownWrite \/ Drain

ReceiveAndRedirect(c) == SinkStart(c) \/ Receive(c) \/ SinkCancel(c) \/ SinkFinish(c)

TcReceive(c) == Connect(c) \/ ReceiveAndRedirect(c) \/ Close(c)

Next ==
  \/ TsCreate \/ TsRun \/ Stop \/ Destroy
  \/ \E c \in Clients : TcReceive(c) \/ Leave(c)

Spec == Init /\ [][Next]_vars

\* The server and every client run on; accept is called again and again, and
\* takes connections in the order in which they came.
FairSpec ==
  /\ Spec
  /\ WF_vars(TsCreate) /\ WF_vars(Destroy)
  /\ WF_vars(HandleConnection \/ ShutdownWrite \/ Drain)
  /\ \A c \in Clients : SF_vars(Accept(c)) /\ WF_vars(TcReceive(c))

-----------------------------------------------------------------------------
(* Properties.                                                             *)

\* Units of the source, each at most once and in order.
Ascending(units) ==
  \A i, j \in 1..Len(units) : units[i] \in 1..Size /\ (i < j => units[i] < units[j])

\* A client that reports success was sent the whole source, in order, or the
\* server has logged a failure for its connection; and its file has all of what
\* came, unless fwrite or fclose wrote less than they were given, which
\* receive_and_redirect_ and file_sink_finish_ do not look at: then it has the
\* rest, in order.  Nothing else is lost silently, unless a read of a file fails
\* ("fread"), which file_source_read_ does not tell from the end of the file.
WholeOrLogged ==
  \A c \in Clients :
    client[c].at = "done" /\ client[c].status = "Success" =>
      /\ \/ got[c] = [i \in 1..Size |-> i]
         \/ \E status \in {"FailedToOpen", "FailedToRead"} : <<c, status>> \in log
      /\ \/ disk[c] = got[c]
         \/ c \in short /\ Ascending(disk[c])

\* The output file of a client that is done is what its status says: received
\* to the end, removed after a failed receive, untouched by a failed start; a
\* failed receive means that the server has ended.  Files are open only during
\* a transfer: the server's only while it serves a connection, the client's
\* only while it receives.
FilesMatchStatus ==
  /\ \A c \in Clients :
       /\ client[c].at = "done" =>
            CASE client[c].status = "Success" -> disk[c] \notin {Old, NoFile}
              [] client[c].status = "FailedToReceive" -> disk[c] = NoFile
              [] OTHER -> disk[c] = Old
       /\ client[c].status = "FailedToReceive" => ts.at \in {"done", "killed"}
       /\ client[c].session => client[c].at \in {"receive", "finish", "cancel"}
  /\ ts.session => ts.conn # NoClient /\ ts.at \notin {"select", "shutdown", "drain"}

\* Every client that connects gets to the end of its transfer, and the server
\* gets through every connection it accepts: a client that leaves, a source
\* that fails or a sink that cannot be opened holds nobody else up.
EveryTransferEnds ==
  \A c \in Clients :
    /\ client[c].at = "start" ~> client[c].at \in {"done", "gone"}
    /\ ts.conn = c ~> ts.conn # c \/ ts.at = "killed"

================================================================================
