------------------------------- MODULE GetfileLoop -----------------------------
(***************************************************************************)
(* The single-threaded getfile programs: the server of gflib/gfserver.c,   *)
(* which serves one connection after the other, and the downloads of       *)
(* gflib/gfclient_download.c, each a process that makes its requests one   *)
(* by one through gflib/gfclient.c.  The handler between the server and    *)
(* its content map is given as an object file and is external here.        *)
(*                                                                         *)
(* What is sent is counted in units of three parts: <<"get", 0, 0>> and    *)
(* <<"path", p, 0>> are a request, <<"getfile", 0, 0>> and                 *)
(* <<status, size, 0>> the header of a response, <<"data", p, i>> unit i   *)
(* of file p.  Path 0 stands for one that a tokenizer refuses.             *)
(***************************************************************************)
EXTENDS ContentMap, FiniteSets, Tcp

CONSTANTS
  Clients,    \* the processes of gfclient_download
  NoConn,
  Workloads,  \* what may be in the workload files: a set of functions of clients
  Requests,   \* Requests[c]: nrequests of c
  Size,       \* Size[p]: the units of file p
  Chunk,      \* the units in the buffers of handler, server and client
  Addresses,  \* how many addresses getaddrinfo finds
  Leavers,    \* clients that may end at any time
  Faults      \* which of "bind", "listen", "read", "sigpipe", "open", "disk" may happen

ASSUME LoopAssumption ==
  /\ \A w \in Workloads, c \in Clients : w[c] \in Seq(Nat) /\ w[c] # <<>>
  /\ Requests \in [Clients -> Nat] /\ Chunk \in Nat \ {0} /\ Addresses \in Nat \ {0}
  /\ \A i \in 1..Len(Items) : Items[i] > 0 /\ Size[Items[i]] \in Nat
  /\ NoConn \notin UNION {{c} \X (1..Requests[c]) : c \in Clients}
  /\ Leavers \subseteq Clients
  /\ Faults \subseteq {"bind", "listen", "read", "sigpipe", "open", "disk"}

VARIABLES
  stream,  \* stream[k]: connection k, of the request k[2] of client k[1]
  gfs,     \* the gfserver_t, and the local state of serve_ and what it calls
  ctx,     \* the gfcontext_t of the connection that is served
  kept,    \* history: the connections whose gfcontext_t the handler still has
  client,  \* client[c]: the gfcrequest_t and the local state of main
  disk,    \* disk[k]: the local file of request k
  given,   \* history: what disk[k] would be, had its writes taken everything
  short,   \* history: the requests whose file took less than it was given
  workload \* workload[c]: the paths that workload_init has read for c

serverVars == <<gfs, ctx, kept, lookup>>

files == <<disk, given, short>>

vars == <<stream, serverVars, client, files, workload>>

Conns == UNION {{c} \X (1..Requests[c]) : c \in Clients}

NoFile == <<<<"none", 0, 0>>>>

Data(p, from, n) == [i \in 1..n |-> <<"data", p, from + i>>]

NoCtx == [live |-> FALSE, expectSent |-> -1, sentSoFar |-> -1]

\* text: the header as far as it came; out: what sock_send_all has left to
\* send; sent: what it was called with and what it will return.
Init ==
  /\ stream = [k \in Conns |-> NoStream]
  /\ gfs = [at |-> "bind", socket |-> "none", address |-> 1, conn |-> NoConn,
            text |-> <<>>, out |-> <<>>, what |-> "nothing", ok |-> TRUE]
  /\ ctx = NoCtx
  /\ kept = {}
  /\ LookupInit
  /\ client = [c \in Clients |->
                 [at |-> "next", i |-> 0, counter |-> 0, out |-> <<>>, text |-> <<>>,
                  ret |-> 0, status |-> "ok", fileLen |-> 0, received |-> 0,
                  reports |-> <<>>]]
  /\ disk = [k \in Conns |-> NoFile]
  /\ given = disk
  /\ short = {}
  /\ workload \in Workloads

clients == <<client, files, workload>>

-----------------------------------------------------------------------------
(* Listening.                                                              *)

\* One turn of create_and_bind_to_socket_: socket and bind, or the next one.
CreateAndBind ==
  /\ gfs.at = "bind"
  /\ \/ /\ gfs.address <= Addresses
        /\ gfs' = [gfs EXCEPT !.at = "listen", !.socket = "bound"]
     \/ /\ gfs.address <= Addresses /\ "bind" \in Faults
        /\ gfs' = [gfs EXCEPT !.address = @ + 1]
     \/ /\ gfs.address > Addresses
        /\ gfs' = [gfs EXCEPT !.at = "unlisten"]
  /\ UNCHANGED <<stream, ctx, kept, lookup, clients>>

\* The rest of listen_; on a failure serve_ returns.
Listen ==
  /\ gfs.at = "listen"
  /\ \/ gfs' = [gfs EXCEPT !.at = "select", !.socket = "listening"]
     \/ "listen" \in Faults /\ gfs' = [gfs EXCEPT !.at = "unlisten"]
  /\ UNCHANGED <<stream, ctx, kept, lookup, clients>>

\* continueFcn returns false, and gfserver_destroy is called.
Stop ==
  /\ gfs.at = "select"
  /\ gfs' = [gfs EXCEPT !.at = "unlisten"]
  /\ UNCHANGED <<stream, ctx, kept, lookup, clients>>

\* unlisten_, by listen_ or by gfserver_destroy.
Unlisten ==
  /\ gfs.at = "unlisten"
  /\ stream' = [k \in Conns |-> Unlistened(stream[k])]
  /\ gfs' = [gfs EXCEPT !.at = "done", !.socket = "closed"]
  /\ UNCHANGED <<ctx, kept, lookup, clients>>

-----------------------------------------------------------------------------
(* serve_ and handle_connection_.                                          *)

Accept(k) ==
  /\ gfs.at = "select"
  /\ IsPending(stream[k])
  /\ stream' = [stream EXCEPT ![k] = Accepted(@)]
  /\ gfs' = [gfs EXCEPT !.at = "reading", !.conn = k, !.text = <<>>]
  /\ UNCHANGED <<ctx, kept, lookup, clients>>

\* sock_send_all begins; what tells its callers apart.
Sending(what, data) == [gfs EXCEPT !.at = "sending", !.what = what, !.out = data, !.ok = TRUE]

Header(status, size) == <<<<"getfile", 0, 0>>, <<status, size, 0>>>>

\* A turn of the loop of recv and tok_process, and what comes after the last
\* one: an error, a request that is no request, or the handler.
ReadRequest ==
  /\ gfs.at = "reading"
  /\ \E r \in Receives(stream[gfs.conn], "server", Chunk) :
       LET text == gfs.text \o r.data IN
       /\ stream' = [stream EXCEPT ![gfs.conn] = r.stream]
       /\ \/ /\ r.ret < 0
             /\ gfs' = Sending("error", Header("error", 0))
             /\ UNCHANGED <<ctx, lookup>>
          \/ /\ \/ r.ret = 0
                \/ Len(text) > 2
                \/ Len(text) = 2 /\ text[2] = <<"path", 0, 0>>
             /\ gfs' = Sending("error", Header("invalid", 0))
             /\ UNCHANGED <<ctx, lookup>>
          \/ /\ r.ret > 0 /\ Len(text) < 2
             /\ gfs' = [gfs EXCEPT !.text = text]
             /\ UNCHANGED <<ctx, lookup>>
          \/ /\ r.ret > 0 /\ Len(text) = 2 /\ text[2] # <<"path", 0, 0>>
             /\ gfs' = [gfs EXCEPT !.at = "lookup", !.text = text]
             /\ ctx' = [NoCtx EXCEPT !.live = TRUE]
             /\ Lookup(text[2][2])
  /\ UNCHANGED <<kept, clients>>

\* SIGPIPE, which nothing ignores, ends the server in the middle of a send.
Killed ==
  /\ "sigpipe" \in Faults
  /\ stream' = [k \in Conns |-> Abandoned(stream[k])]
  /\ gfs' = [gfs EXCEPT !.at = "killed", !.socket = "closed"]

\* A turn of sock_send_all.
SendAll ==
  /\ gfs.at = "sending" /\ gfs.out # <<>>
  /\ \E r \in Sends(stream[gfs.conn], "server", gfs.out) :
       \/ /\ r.ret >= 0
          /\ stream' = [stream EXCEPT ![gfs.conn] = r.stream]
          /\ gfs' = [gfs EXCEPT !.out = SubSeq(@, r.ret + 1, Len(@))]
       \/ r.ret < 0 /\ gfs' = [gfs EXCEPT !.out = <<>>, !.ok = FALSE] /\ UNCHANGED stream
       \/ r.ret < 0 /\ Killed
  /\ UNCHANGED <<ctx, kept, lookup, clients>>

Sent(what) == gfs.at = "sending" /\ gfs.out = <<>> /\ gfs.what = what

\* Variant: shutdown_ does not say that nothing more will come.
ShutForgotten(k) ==
  /\ gfs' = [gfs EXCEPT !.at = "drain"]
  /\ UNCHANGED stream

\* shutdown_ begins: nothing more will be sent.
Shut(k) ==
  /\ stream' = [stream EXCEPT ![k] = ShutDown(@, "server")]
  /\ gfs' = [gfs EXCEPT !.at = "drain"]

\* send_error_and_shutdown_, whether or not the header could be sent.
ErrorSent ==
  /\ Sent("error")
  /\ Shut(gfs.conn)
  /\ UNCHANGED <<ctx, kept, lookup, clients>>

\* Variant: the connection is closed and its context is not destroyed.
DrainOnly ==
  /\ gfs.at = "drain"
  /\ \E r \in Receives(stream[gfs.conn], "server", Chunk) :
       IF r.ret > 0
         THEN stream' = [stream EXCEPT ![gfs.conn] = r.stream] /\ UNCHANGED gfs
         ELSE /\ stream' = [stream EXCEPT ![gfs.conn] = Closed(@, "server")]
              /\ gfs' = [gfs EXCEPT !.at = "select", !.conn = NoConn]
  /\ UNCHANGED <<ctx, kept, lookup, clients>>

\* The loop of shutdown_ and its close, when the client has closed; a context
\* that owned the connection is destroyed.
Drain ==
  /\ gfs.at = "drain"
  /\ \E r \in Receives(stream[gfs.conn], "server", Chunk) :
       IF r.ret > 0
         THEN stream' = [stream EXCEPT ![gfs.conn] = r.stream] /\ UNCHANGED <<gfs, ctx>>
         ELSE /\ stream' = [stream EXCEPT ![gfs.conn] = Closed(@, "server")]
              /\ gfs' = [gfs EXCEPT !.at = "select", !.conn = NoConn]
              /\ ctx' = NoCtx
  /\ UNCHANGED <<kept, lookup, clients>>

-----------------------------------------------------------------------------
(* The handler, and the context it calls.                                  *)

\* content_get, one turn of its loop at a time.
ContentGet ==
  /\ gfs.at = "lookup"
  /\ LookupNext
  /\ UNCHANGED <<stream, gfs, ctx, kept, clients>>

\* The handler calls gfs_sendheader: the file is there, or it is not.
Respond ==
  /\ gfs.at = "lookup" /\ search = "over"
  /\ gfs' = IF fildes < 0 THEN Sending("error", Header("notfound", 0))
            ELSE Sending("header", Header("ok", Size[Items[fildes + 1]]))
  /\ UNCHANGED <<stream, ctx, kept, lookup, clients>>

\* ctx_send_header_ of GF_OK goes on: what send_response_ returned is not
\* looked at.
HeaderSent ==
  /\ Sent("header")
  /\ ctx' = [ctx EXCEPT !.expectSent = Size[Items[fildes + 1]], !.sentSoFar = 0]
  /\ gfs' = [gfs EXCEPT !.at = "load"]
  /\ UNCHANGED <<stream, kept, lookup, clients>>

\* The loop of the handler: it reads the next units with pread and calls
\* gfs_send, or calls gfs_abort when a read fails.  For an empty file the loop
\* does not run, and the handler returns without giving the context up.
Load ==
  LET left == ctx.expectSent - ctx.sentSoFar IN
  /\ gfs.at = "load"
  /\ \/ /\ left > 0
        /\ gfs' = Sending("data", Data(Items[fildes + 1], ctx.sentSoFar,
                                       IF left < Chunk THEN left ELSE Chunk))
        /\ UNCHANGED <<stream, ctx, kept>>
     \/ left > 0 /\ "read" \in Faults /\ Shut(gfs.conn) /\ UNCHANGED <<ctx, kept>>
     \/ /\ left = 0
        /\ gfs' = [gfs EXCEPT !.at = "select", !.conn = NoConn]
        /\ ctx' = NoCtx
        /\ kept' = kept \cup {gfs.conn}
        /\ UNCHANGED stream
  /\ UNCHANGED <<lookup, clients>>

\* ctx_send_ goes on, up to the shutdown when the file is sent; after a failure
\* the handler calls gfs_abort.
DataSent ==
  LET n == IF ctx.expectSent - ctx.sentSoFar < Chunk THEN ctx.expectSent - ctx.sentSoFar
           ELSE Chunk IN
  /\ Sent("data")
  /\ \/ /\ gfs.ok /\ ctx.sentSoFar + n < ctx.expectSent
        /\ ctx' = [ctx EXCEPT !.sentSoFar = @ + n]
        /\ gfs' = [gfs EXCEPT !.at = "load"]
        /\ UNCHANGED stream
     \/ /\ gfs.ok /\ ctx.sentSoFar + n = ctx.expectSent
        /\ ctx' = [ctx EXCEPT !.sentSoFar = @ + n]
        /\ Shut(gfs.conn)
     \/ ~gfs.ok /\ Shut(gfs.conn) /\ UNCHANGED ctx
  /\ UNCHANGED <<kept, lookup, clients>>

-----------------------------------------------------------------------------
(* A client: main of gfclient_download, and perform_.                      *)

Conn(c) == <<c, client[c].i>>

Now(c) == stream[Conn(c)]

\* How many of n units the disk takes.
Written(n) == IF "disk" \in Faults THEN 0..n ELSE {n}

\* The file of c is then content, with what stdio has still to write; lost units
\* did not get there, which nobody looks at.
Keeps(c, content, lost) ==
  /\ disk' = [disk EXCEPT ![Conn(c)] = content]
  /\ short' = IF lost > 0 THEN short \cup {Conn(c)} ELSE short

\* writecb.
Puts(c, data) ==
  /\ given' = [given EXCEPT ![Conn(c)] = @ \o data]
  /\ \E n \in Written(Len(data)) :
       Keeps(c, disk[Conn(c)] \o SubSeq(data, 1, n), Len(data) - n)

\* workload_get_path: the paths come round again when there are more requests.
GetPath(c) == workload[c][(client[c].counter % Len(workload[c])) + 1]

\* main: the next path of the workload, its file and a new gfcrequest_t; or an
\* exit, when the path is too long or openFile fails.
NextRequest(c) ==
  /\ client[c].at = "next" /\ client[c].i < Requests[c]
  /\ \/ /\ client' = [client EXCEPT ![c] =
             [@ EXCEPT !.at = "connect", !.i = client[c].i + 1,
                       !.counter = client[c].counter + 1,
                       !.out = <<<<"get", 0, 0>>, <<"path", GetPath(c), 0>>>>,
                       !.text = <<>>, !.ret = 0, !.status = "ok", !.fileLen = 0,
                       !.received = 0]]
        /\ disk' = [disk EXCEPT ![<<c, client[c].i + 1>>] = <<>>]
        /\ given' = [given EXCEPT ![<<c, client[c].i + 1>>] = <<>>]
     \/ /\ "open" \in Faults
        /\ client' = [client EXCEPT ![c] =
             [@ EXCEPT !.at = "gone", !.i = client[c].i + 1,
                       !.counter = client[c].counter + 1]]
        /\ UNCHANGED <<disk, given>>
  /\ UNCHANGED <<stream, serverVars, short, workload>>

\* One of the addresses is the one the server listens on, or none is.
Connect(c) ==
  /\ client[c].at = "connect"
  /\ IF gfs.socket = "listening"
       THEN /\ client' = [client EXCEPT ![c].at = "request"]
            /\ stream' = [stream EXCEPT ![Conn(c)] = Connected]
       ELSE /\ client' = [client EXCEPT ![c].at = "report", ![c].ret = -1]
            /\ UNCHANGED stream
  /\ UNCHANGED <<serverVars, files, workload>>

\* send_request_, a turn of sock_send_all at a time.
SendRequest(c) ==
  /\ client[c].at = "request"
  /\ \E r \in Sends(Now(c), "client", client[c].out) :
       /\ stream' = [stream EXCEPT ![Conn(c)] = r.stream]
       /\ client' = [client EXCEPT ![c] =
            IF r.ret < 0 THEN [@ EXCEPT !.at = "close", !.ret = -1]
            ELSE [@ EXCEPT !.out = SubSeq(client[c].out, r.ret + 1, Len(client[c].out)),
                           !.at = IF r.ret = Len(client[c].out) THEN "response" ELSE "request"]]
  /\ UNCHANGED <<serverVars, files, workload>>

\* A turn of the loop of read_response_.  When the header is there perform_
\* looks at its status, and writes what came behind it to the file.
ReadResponse(c) ==
  /\ client[c].at = "response"
  /\ \E r \in Receives(Now(c), "client", Chunk) :
       LET text == client[c].text \o r.data
           tail == SubSeq(text, 3, Len(text))
       IN
       /\ stream' = [stream EXCEPT ![Conn(c)] = r.stream]
       /\ \/ /\ r.ret > 0 /\ Len(text) < 2
             /\ client' = [client EXCEPT ![c].text = text]
             /\ UNCHANGED files
          \/ /\ r.ret <= 0
             /\ client' = [client EXCEPT ![c] =
                  [@ EXCEPT !.at = "close", !.ret = -1, !.status = "invalid"]]
             /\ UNCHANGED files
          \/ /\ r.ret > 0 /\ Len(text) >= 2 /\ text[2][1] # "ok"
             /\ client' = [client EXCEPT ![c] =
                  [@ EXCEPT !.at = "close", !.status = text[2][1]]]
             /\ UNCHANGED files
          \/ /\ r.ret > 0 /\ Len(text) >= 2 /\ text[2][1] = "ok"
             /\ client' = [client EXCEPT ![c] =
                  [@ EXCEPT !.at = "body", !.fileLen = text[2][2], !.received = Len(tail)]]
             /\ Puts(c, tail)
  /\ UNCHANGED <<serverVars, workload>>

\* A turn of finish_receiving_, and the check of the length behind it.
FinishReceiving(c) ==
  LET me == client[c] IN
  /\ me.at = "body"
  /\ \/ /\ me.received = me.fileLen
        /\ client' = [client EXCEPT ![c].at = "close"]
        /\ UNCHANGED <<stream, files>>
     \/ /\ me.received < me.fileLen
        /\ \E r \in Receives(Now(c), "client",
                      IF me.fileLen - me.received < Chunk THEN me.fileLen - me.received ELSE Chunk) :
             /\ stream' = [stream EXCEPT ![Conn(c)] = r.stream]
             /\ IF r.ret > 0
                  THEN Puts(c, r.data) /\ client' = [client EXCEPT ![c].received = @ + r.ret]
                  ELSE /\ client' = [client EXCEPT ![c].at = "close", ![c].ret = -1]
                       /\ UNCHANGED files
  /\ UNCHANGED <<serverVars, workload>>

\* The EXIT_POINT of perform_.
CloseConn(c) ==
  /\ client[c].at = "close"
  /\ stream' = [stream EXCEPT ![Conn(c)] = Closed(@, "client")]
  /\ client' = [client EXCEPT ![c].at = "report"]
  /\ UNCHANGED <<serverVars, files, workload>>

\* fclose, and unlink unless the file is kept.
Settles(c, keep) ==
  LET k == Conn(c) IN
  IF keep
    THEN /\ \E n \in Written(Len(disk[k])) :
              Keeps(c, SubSeq(disk[k], 1, n), Len(disk[k]) - n)
         /\ UNCHANGED given
    ELSE /\ Keeps(c, NoFile, 0)
         /\ given' = [given EXCEPT ![k] = NoFile]

Reports(c) ==
  client' = [client EXCEPT ![c].at = "next",
                           ![c].reports = Append(@, <<client[c].ret, client[c].status>>)]

\* Variant: only the status decides whether the file is kept.
ReportByStatus(c) ==
  /\ client[c].at = "report"
  /\ Settles(c, client[c].status = "ok")
  /\ Reports(c)
  /\ UNCHANGED <<stream, serverVars, workload>>

\* main: the file is removed when perform_ failed or the status is not GF_OK.
Report(c) ==
  /\ client[c].at = "report"
  /\ Settles(c, client[c].ret >= 0 /\ client[c].status = "ok")
  /\ Reports(c)
  /\ UNCHANGED <<stream, serverVars, workload>>

\* The client ends early, its process by a signal or its connection by a reset.
Leave(c) ==
  /\ c \in Leavers
  /\ client[c].at \in {"request", "response", "body"}
  /\ \E k \in Departures(Now(c), "client") : stream' = [stream EXCEPT ![Conn(c)] = k]
  /\ client' = [client EXCEPT ![c].at = "gone"]
  /\ UNCHANGED <<serverVars, files, workload>>

-----------------------------------------------------------------------------
CallHandler == ContentGet \/ Respond \/ HeaderSent \/ Load \/ DataSent

HandleConnection == ReadRequest \/ SendAll \/ ErrorSent \/ CallHandler \/ Drain

\* gfserver_serve.
Serve == CreateAndBind \/ Listen \/ (\E k \in Conns : Accept(k)) \/ HandleConnection

\* gfc_perform.
Perform(c) ==
  Connect(c) \/ SendRequest(c) \/ ReadResponse(c) \/ FinishReceiving(c) \/ CloseConn(c)

Next ==
  \/ Serve \/ Stop \/ Unlisten
  \/ \E c \in Clients : NextRequest(c) \/ Perform(c) \/ Report(c) \/ Leave(c)

Spec == Init /\ [][Next]_vars

\* The server and every client run on; accept is called again and again, and
\* takes connections in the order in which they came.
FairSpec ==
  /\ Spec
  /\ WF_vars(CreateAndBind \/ Listen) /\ WF_vars(Unlisten) /\ WF_vars(HandleConnection)
  /\ \A k \in Conns : SF_vars(Accept(k))
  /\ \A c \in Clients : WF_vars(NextRequest(c) \/ Perform(c) \/ Report(c))

-----------------------------------------------------------------------------
(* Properties.                                                             *)

\* The path of request k: the workload from its start, over and over.
PathOf(k) == workload[k[1]][((k[2] - 1) % Len(workload[k[1]])) + 1]

InMap(p) == \E i \in 1..nitems : Items[i] = p

Whole(p) == Data(p, 0, Size[p])

\* What request i for path p has reported and its local file.
IsTrue(reports, i, p, file) ==
  /\ i <= Len(reports) =>
       CASE reports[i] = <<0, "ok">> -> InMap(p) /\ file = Whole(p)
         [] reports[i] = <<0, "notfound">> -> p # 0 /\ ~InMap(p) /\ file = NoFile
         [] reports[i] = <<0, "invalid">> -> p = 0 /\ file = NoFile
         [] OTHER -> reports[i][1] < 0 /\ file = NoFile
  /\ file \notin {NoFile, <<>>} => InMap(p) /\ file = SubSeq(Whole(p), 1, Len(file))

\* The part has units of the whole, in their order.
SomeOf(part, whole) ==
  \A i \in 1..Len(part) :
    /\ part[i][3] \in 1..Len(whole) /\ part[i] = whole[part[i][3]]
    /\ \A j \in 1..Len(part) : i < j => part[i][3] < part[j][3]

\* What a download tells its user is true, for the requests behind it: success
\* means a path of the content map, the one of the workload whose turn it was,
\* and that its whole file was given to stdio; a file that is not in the map or
\* not well-formed is reported as such; and nothing is left of other files.  The
\* local file is what was given, unless fwrite or fclose took less, which
\* writecb and main do not look at: then some of it is missing, and success is
\* still reported.
ReportsAreTrue ==
  \A k \in Conns :
    /\ IsTrue(client[k[1]].reports, k[2], PathOf(k), given[k])
    /\ \/ disk[k] = given[k]
       \/ k \in short /\ given[k] # NoFile /\ SomeOf(disk[k], given[k])

\* The handler was called for the connection that is served.
Called == gfs.conn # NoConn /\ Len(gfs.text) = 2

\* An accepted connection is open exactly while the server serves it, and a
\* context is live exactly from the call of the handler until its connection is
\* closed: no connection is lost or closed too early, and no context is lost or
\* used behind its end.  The exceptions are the response of an empty file, whose
\* context the handler keeps and whose connection is never closed, and the end of
\* the process by SIGPIPE, which takes all of them with it.
ConnectionsHaveOwner ==
  /\ gfs.at # "killed" =>
       /\ \A k \in Conns : stream[k].state["server"] \in {"open", "shut"} <=>
                              gfs.conn = k \/ k \in kept
       /\ ctx.live <=> Called
  /\ \A k \in kept : InMap(PathOf(k)) /\ Size[PathOf(k)] = 0
  /\ gfs.at \in {"lookup", "load"} => ctx.live
  /\ gfs.at = "load" => ctx.sentSoFar \in 0..ctx.expectSent

\* Every request of every download ends, with the answers of a server that
\* runs and without them when it has ended; and the server gets through every
\* connection it accepts.
EveryRequestEnds ==
  /\ \A c \in Clients : client[c].at = "connect" ~> client[c].at \in {"next", "gone"}
  /\ \A k \in Conns : gfs.conn = k ~> gfs.conn # k \/ gfs.at = "killed"
================================================================================
