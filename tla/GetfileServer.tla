---------------------------- MODULE GetfileServer ----------------------------
(***************************************************************************)
(* The multithreaded getfile server: the boss thread of mtgf/gfserver.c    *)
(* accepts connections and reads requests, gfs_handler hands each request  *)
(* with its context to the worker pool, and the workers run mth_do_work_   *)
(* of mtgf/gfserver_main.c against the content source and the context.     *)
(*                                                                         *)
(* The pool's queue is the atomic one of FifoQueue, which ConcQueue        *)
(* implements.  A request is sent as a whole or not at all, and file       *)
(* contents are counted in units; unit i of file p is <<p, i>>.            *)
(***************************************************************************)
EXTENDS Integers, Sequences, FiniteSets

CONSTANTS
  Conns,       \* connections, each with the one request its client sends
  Workers,     \* the worker threads of the pool
  Paths,       \* the paths in the content map
  Missing,     \* a well-formed path that is not in it
  Malformed,   \* a request the tokenizer or unpack_request_get refuses
  NoPath, NoConn,
  Request,     \* Request[c]: what the client of c asks for
  Size,        \* Size[p]: the units of file p at first
  Chunk,       \* bound: the units in one buffer of mth_do_work_
  Leavers,     \* clients that may close before they have their response
  Faults       \* which of "recv", "stat", "read", "shrink", "sigpipe" may happen

ASSUME ServerAssumption ==
  /\ NoConn \notin Conns
  /\ Missing \notin Paths /\ Malformed \notin Paths \cup {Missing}
  /\ Request \in [Conns -> Paths \cup {Missing, Malformed}]
  /\ Size \in [Paths -> Nat]
  /\ Chunk \in Nat \ {0}
  /\ Leavers \subseteq Conns
  /\ Faults \subseteq {"recv", "stat", "read", "shrink", "sigpipe"}

VARIABLES
  client,    \* client[c]: what the client of c has done
  got,       \* got[c]: status, length and contents the client received
  len,       \* len[p]: the length of file p now
  sock,      \* sock[c]: the server's end of c, acceptedSocketId
  ctx,       \* ctx[c]: the gfcontext_t of c
  boss,      \* boss: where serve_ and handle_connection_ are, and with which c
  tokPath,   \* the path in the memory of gfs->tokenizer
  task,      \* task[c]: the MthTask of c
  queue,     \* the tasks in the pool's queue
  worker,    \* worker[w]: the local state of mth_do_work_ in w
  process    \* whether the process runs, and what ended it if not

vars == <<client, got, len, sock, ctx, boss, tokPath, task, queue, worker, process>>

\* mth_do_work_ and its content session: size and sent, numRead of the session,
\* and read, the length of what is in the buffer.
Idle == [at |-> "idle", conn |-> NoConn, size |-> 0, sent |-> 0, numRead |-> 0, read |-> 0]

NoCtx == [state |-> "none", expectSent |-> 0, sentSoFar |-> 0]

Statuses == {"ok", "notfound", "error", "invalid"}

TypeOK ==
  /\ client \in [Conns -> {"away", "connected", "asked", "left", "hungup"}]
  /\ got \in [Conns -> [status : Statuses \cup {"none"}, size : Nat, data : Seq(Paths \X Nat)]]
  /\ len \in [Paths -> Nat]
  /\ sock \in [Conns -> {"none", "open", "shut", "closed"}]
  /\ ctx \in [Conns -> [state : {"none", "live", "freed"}, expectSent : Int, sentSoFar : Int]]
  /\ boss \in [at : {"accept", "reading", "call", "error", "invalid", "drain", "finish", "done"},
               conn : Conns \cup {NoConn}]
  /\ tokPath \in Paths \cup {Missing, NoPath}
  /\ task \in [Conns -> [state : {"none", "live", "freed"},
                         path : Paths \cup {Missing, NoPath}, ctx : BOOLEAN]]
  /\ queue \in Seq(Conns)
  /\ worker \in [Workers -> [at : {"idle", "start", "notfound", "header", "loop", "send",
                                   "drain", "end", "exited"},
                             conn : Conns \cup {NoConn},
                             size : Nat, sent : Nat, numRead : Nat, read : Nat]]
  /\ process \in {"runs", "aborted", "sigpipe"}

Init ==
  /\ client = [c \in Conns |-> "away"]
  /\ got = [c \in Conns |-> [status |-> "none", size |-> 0, data |-> <<>>]]
  /\ len = Size
  /\ sock = [c \in Conns |-> "none"]
  /\ ctx = [c \in Conns |-> NoCtx]
  /\ boss = [at |-> "accept", conn |-> NoConn]
  /\ tokPath = NoPath
  /\ task = [c \in Conns |-> [state |-> "none", path |-> NoPath, ctx |-> FALSE]]
  /\ queue = <<>>
  /\ worker = [w \in Workers |-> Idle]
  /\ process = "runs"

-----------------------------------------------------------------------------
(* The clients and the disk.                                               *)

served == <<got, sock, ctx, boss, tokPath, task, queue, worker, process>>

Gone(c) == client[c] \in {"left", "hungup"}

Connect(c) ==
  /\ client[c] = "away"
  /\ client' = [client EXCEPT ![c] = "connected"]
  /\ UNCHANGED <<len, served>>

Ask(c) ==
  /\ client[c] = "connected"
  /\ client' = [client EXCEPT ![c] = "asked"]
  /\ UNCHANGED <<len, served>>

\* The response is complete, or the server has closed its side of the stream.
Satisfied(c) ==
  \/ got[c].status = "ok" /\ Len(got[c].data) = got[c].size
  \/ got[c].status \in Statuses \ {"ok"}
  \/ sock[c] \in {"shut", "closed"}

Leave(c) ==
  /\ client[c] = "asked"
  /\ Satisfied(c) \/ c \in Leavers
  /\ client' = [client EXCEPT ![c] = "left"]
  /\ UNCHANGED <<len, served>>

\* A client that closes before its request is complete.
HangUp(c) ==
  /\ client[c] = "connected"
  /\ client' = [client EXCEPT ![c] = "hungup"]
  /\ UNCHANGED <<len, served>>

\* Another program shortens a file of the content map, not to nothing: a file
\* that is empty when a worker opens it is what Size[p] = 0 is for.
Shrink(p) ==
  /\ "shrink" \in Faults
  /\ len[p] > 1
  /\ len' = [len EXCEPT ![p] = @ - 1]
  /\ UNCHANGED <<client, served>>

-----------------------------------------------------------------------------
(* The connection.                                                         *)

\* sock_send_all to c: all of it is sent, or -1 is returned when the client is
\* gone; as nothing ignores SIGPIPE, that send may instead end the process.
SendOutcomes(c) ==
  IF Gone(c) THEN {"ok", "failed"} \cup ({"sigpipe"} \cap Faults) ELSE {"ok"}

\* send_response_ of a header to c.
SendResponse(c, status, size) ==
  \E outcome \in SendOutcomes(c) :
    /\ process' = IF outcome = "sigpipe" THEN "sigpipe" ELSE process
    /\ got' = IF Gone(c) THEN got
               ELSE [got EXCEPT ![c].status = status, ![c].size = size]

\* The first half of shutdown_: nothing more will be sent to c.  The second
\* half reads until the client has closed too, then closes the socket.
Shut(c) == sock' = [sock EXCEPT ![c] = "shut"]

Close(c) ==
  /\ Gone(c)
  /\ sock' = [sock EXCEPT ![c] = "closed"]

-----------------------------------------------------------------------------
(* The boss: serve_, handle_connection_ and gfs_handler.                   *)

clients == <<client, len>>

BossAt(at, c) == boss' = [at |-> at, conn |-> c]

Accept(c) ==
  /\ boss.at = "accept"
  /\ client[c] # "away" /\ sock[c] = "none"
  /\ sock' = [sock EXCEPT ![c] = "open"]
  /\ BossAt("reading", c)
  /\ UNCHANGED <<clients, got, ctx, tokPath, task, queue, worker, process>>

\* The loop of recv and tok_process up to the end of the request, of the
\* stream, or an error.  The path is left in the memory of the tokenizer, which
\* the next request overwrites.
ReadRequest ==
  LET c == boss.conn IN
  /\ boss.at = "reading"
  /\ \/ client[c] \in {"asked", "left"} /\ Request[c] # Malformed
        /\ tokPath' = Request[c] /\ BossAt("call", c)
     \/ client[c] \in {"asked", "left"} /\ Request[c] = Malformed
        /\ BossAt("invalid", c) /\ UNCHANGED tokPath
     \/ client[c] = "hungup" /\ BossAt("invalid", c) /\ UNCHANGED tokPath
     \/ "recv" \in Faults /\ BossAt("error", c) /\ UNCHANGED tokPath
  /\ UNCHANGED <<clients, got, sock, ctx, task, queue, worker, process>>

\* Variant: the socket of a refused request is left open.
RefuseWithoutShutdown ==
  LET c == boss.conn IN
  /\ boss.at \in {"error", "invalid"}
  /\ SendResponse(c, boss.at, 0)
  /\ BossAt("accept", NoConn)
  /\ UNCHANGED <<clients, sock, ctx, tokPath, task, queue, worker>>

\* send_error_and_shutdown_ in the thread of the boss.
Refuse ==
  LET c == boss.conn IN
  /\ boss.at \in {"error", "invalid"}
  /\ SendResponse(c, boss.at, 0)
  /\ Shut(c)
  /\ BossAt("drain", c)
  /\ UNCHANGED <<clients, ctx, tokPath, task, queue, worker>>

BossDrain ==
  /\ boss.at = "drain"
  /\ Close(boss.conn)
  /\ BossAt("accept", NoConn)
  /\ UNCHANGED <<clients, got, ctx, tokPath, task, queue, worker, process>>

\* call_handler_, gfs_handler and mth_process: a context that owns the socket,
\* a task that owns the context and a copy of the path, and the pool's queue.
CallHandler ==
  LET c == boss.conn IN
  /\ boss.at = "call"
  /\ ctx' = [ctx EXCEPT ![c] = [state |-> "live", expectSent |-> -1, sentSoFar |-> -1]]
  /\ task' = [task EXCEPT ![c] = [state |-> "live", path |-> tokPath, ctx |-> TRUE]]
  /\ queue' = Append(queue, c)
  /\ BossAt("accept", NoConn)
  /\ UNCHANGED <<clients, got, sock, tokPath, worker, process>>

\* continue_ is false, gfserver_serve returns and main calls mth_finish.
Stop ==
  /\ boss.at = "accept"
  /\ BossAt("finish", NoConn)
  /\ UNCHANGED <<clients, got, sock, ctx, tokPath, task, queue, worker, process>>

\* wp_finish has joined every worker.
Finish ==
  /\ boss.at = "finish"
  /\ \A w \in Workers : worker[w].at = "exited"
  /\ BossAt("done", NoConn)
  /\ UNCHANGED <<clients, got, sock, ctx, tokPath, task, queue, worker, process>>

-----------------------------------------------------------------------------
(* A worker: mth_do_work_, with the source and the context it calls.       *)

Goes(w, at) == worker' = [worker EXCEPT ![w].at = at]

Take(w) ==
  /\ worker[w].at = "idle"
  /\ queue # <<>>
  /\ worker' = [worker EXCEPT ![w] = [Idle EXCEPT !.at = "start", !.conn = Head(queue)]]
  /\ queue' = Tail(queue)
  /\ UNCHANGED <<clients, got, sock, ctx, boss, tokPath, task, process>>

\* Variant: the pills of wp_finish are ahead of the tasks.
TakePillEarly(w) ==
  /\ worker[w].at = "idle"
  /\ boss.at = "finish"
  /\ Goes(w, "exited")
  /\ UNCHANGED <<clients, got, sock, ctx, boss, tokPath, task, queue, process>>

\* The pills of wp_finish are behind every task.
TakePill(w) ==
  /\ worker[w].at = "idle"
  /\ boss.at = "finish" /\ queue = <<>>
  /\ Goes(w, "exited")
  /\ UNCHANGED <<clients, got, sock, ctx, boss, tokPath, task, queue, process>>

\* Variant: the task points to the path in the tokenizer.
SourceStartShared(w) ==
  /\ worker[w].at = "start"
  /\ worker' = IF tokPath \in Paths
                 THEN [worker EXCEPT ![w].at = "header", ![w].size = len[tokPath]]
                 ELSE [worker EXCEPT ![w].at = "notfound"]
  /\ UNCHANGED <<clients, got, sock, ctx, boss, tokPath, task, queue, process>>

\* source_start: content_get finds the file and fstat its length now.
SourceStart(w) ==
  LET path == task[worker[w].conn].path IN
  /\ worker[w].at = "start"
  /\ \/ /\ path \in Paths
        /\ worker' = [worker EXCEPT ![w].at = "header", ![w].size = len[path]]
     \/ (path \notin Paths \/ "stat" \in Faults) /\ Goes(w, "notfound")
  /\ UNCHANGED <<clients, got, sock, ctx, boss, tokPath, task, queue, process>>

\* ctx_send_header_ with GF_FILE_NOT_FOUND, up to the first half of shutdown_.
SendNotFound(w) ==
  LET c == worker[w].conn IN
  /\ worker[w].at = "notfound"
  /\ SendResponse(c, "notfound", 0)
  /\ Shut(c)
  /\ Goes(w, "drain")
  /\ UNCHANGED <<clients, ctx, boss, tokPath, task, queue>>

\* Variant: the header promises one unit less.
SendHeaderShort(w) ==
  LET c == worker[w].conn IN
  /\ worker[w].at = "header"
  /\ SendResponse(c, "ok", worker[w].size)
  /\ ctx' = [ctx EXCEPT ![c].expectSent = worker[w].size - 1, ![c].sentSoFar = 0]
  /\ Goes(w, "loop")
  /\ UNCHANGED <<clients, sock, boss, tokPath, task, queue>>

\* ctx_send_header_ with GF_OK.  What it returns is not looked at.
SendHeader(w) ==
  LET c == worker[w].conn IN
  /\ worker[w].at = "header"
  /\ SendResponse(c, "ok", worker[w].size)
  /\ ctx' = [ctx EXCEPT ![c].expectSent = worker[w].size, ![c].sentSoFar = 0]
  /\ Goes(w, "loop")
  /\ UNCHANGED <<clients, sock, boss, tokPath, task, queue>>

\* The units pread may return: at most a buffer, at most what is left to send,
\* and none at the end of the file as it is now.
Readable(w) ==
  LET me == worker[w]
      left == len[task[me.conn].path] - me.numRead
  IN  IF left <= 0 THEN {0} ELSE {n \in 1..Chunk : n <= me.size - me.sent /\ n <= left}

\* The loop of mth_do_work_ up to the end of source_read.
ReadFile(w) ==
  LET me == worker[w] IN
  /\ me.at = "loop"
  /\ \/ me.sent >= me.size /\ Goes(w, "end") /\ UNCHANGED sock
     \/ /\ me.sent < me.size
        /\ \E n \in Readable(w) :
             worker' = [worker EXCEPT ![w].at = "send", ![w].read = n, ![w].numRead = @ + n]
        /\ UNCHANGED sock
     \/ me.sent < me.size /\ "read" \in Faults
        /\ Shut(me.conn) /\ Goes(w, "drain")
  /\ UNCHANGED <<clients, got, ctx, boss, tokPath, task, queue, process>>

\* The contents of the buffer: the units before the session's numRead.
Buffer(w) ==
  LET me == worker[w]
  IN  [i \in 1..me.read |-> <<task[me.conn].path, me.numRead - me.read + i>>]

\* hc_send, that is ctx_send_: its asserts, sock_send_all, and shutdown_ when
\* expectSent is reached.  A failure is not looked at: sent grows all the same.
Send(w) ==
  LET me == worker[w]
      c == me.conn
      full == ctx[c].sentSoFar + me.read = ctx[c].expectSent
  IN
  /\ me.at = "send"
  /\ \E outcome \in SendOutcomes(c) :
       /\ process' = IF \/ ctx[c].expectSent < 0
                        \/ ctx[c].sentSoFar + me.read > ctx[c].expectSent
                     THEN "aborted"
                     ELSE IF outcome = "sigpipe" THEN "sigpipe" ELSE process
       /\ got' = IF Gone(c) THEN got ELSE [got EXCEPT ![c].data = @ \o Buffer(w)]
       /\ IF outcome = "ok"
            THEN /\ ctx' = [ctx EXCEPT ![c].sentSoFar = @ + me.read]
                 /\ IF full THEN Shut(c) ELSE UNCHANGED sock
            ELSE UNCHANGED <<ctx, sock>>
       /\ worker' = [worker EXCEPT ![w].sent = @ + me.read,
                       ![w].at = IF outcome = "ok" /\ full THEN "drain" ELSE "loop"]
  /\ UNCHANGED <<clients, boss, tokPath, task, queue>>

\* Variant: the context is not given up by gfs_abort and the like.
WorkerDrainKeeps(w) ==
  /\ worker[w].at = "drain"
  /\ Close(worker[w].conn)
  /\ Goes(w, "loop")
  /\ UNCHANGED <<clients, got, ctx, boss, tokPath, task, queue, process>>

\* The second half of shutdown_ and ctx_destroy_: *ctx is NULL from here on.
\* After a whole file the loop ends by its condition, else by EXIT_POINT.
WorkerDrain(w) ==
  LET c == worker[w].conn IN
  /\ worker[w].at = "drain"
  /\ Close(c)
  /\ ctx' = [ctx EXCEPT ![c].state = "freed"]
  /\ task' = [task EXCEPT ![c].ctx = FALSE]
  /\ Goes(w, "end")
  /\ UNCHANGED <<clients, got, boss, tokPath, queue, process>>

\* EXIT_POINT: source_finish and mth_task_destroy_ with its assert.
EndWork(w) ==
  LET c == worker[w].conn IN
  /\ worker[w].at = "end"
  /\ process' = IF task[c].ctx THEN "aborted" ELSE process
  /\ task' = [task EXCEPT ![c].state = "freed"]
  /\ worker' = [worker EXCEPT ![w] = Idle]
  /\ UNCHANGED <<clients, got, sock, ctx, boss, tokPath, queue>>

-----------------------------------------------------------------------------
ClientStep(c) == Connect(c) \/ Ask(c) \/ Leave(c) \/ HangUp(c)

BossStep ==
  \/ \E c \in Conns : Accept(c)
  \/ ReadRequest \/ Refuse \/ BossDrain \/ CallHandler \/ Finish

WorkerStep(w) ==
  \/ Take(w) \/ TakePill(w) \/ SourceStart(w) \/ SendNotFound(w) \/ SendHeader(w)
  \/ ReadFile(w) \/ Send(w) \/ WorkerDrain(w) \/ EndWork(w)

Next ==
  /\ process = "runs"
  /\ \/ \E c \in Conns : ClientStep(c)
     \/ \E p \in Paths : Shrink(p)
     \/ BossStep \/ Stop
     \/ \E w \in Workers : WorkerStep(w)

Spec == Init /\ [][Next]_vars

\* Every thread that can run is run, a client that has connected sends its
\* request or hangs up, and it closes when it has its response.
FairSpec ==
  /\ Spec
  /\ WF_vars(process = "runs" /\ BossStep)
  /\ \A w \in Workers : WF_vars(process = "runs" /\ WorkerStep(w))
  /\ \A c \in Conns : /\ WF_vars(process = "runs" /\ (Ask(c) \/ HangUp(c)))
                      /\ WF_vars(process = "runs" /\ Leave(c))

-----------------------------------------------------------------------------
(* Properties.                                                             *)

\* What a client receives is a prefix of the file it asked for, with the length
\* of that file: neither the next request, read into the same tokenizer while
\* the task waits, nor the other sessions on the same file descriptor, nor the
\* buffers of other workers get into it.
ResponseIsTheFile ==
  \A c \in Conns :
    /\ got[c].status = "ok" =>
         /\ Request[c] \in Paths
         /\ len[Request[c]] <= got[c].size /\ got[c].size <= Size[Request[c]]
    /\ got[c].status = "notfound" => Request[c] = Missing \/ "stat" \in Faults
    /\ got[c].data = [i \in 1..Len(got[c].data) |-> <<Request[c], i>>]
    /\ got[c].data # <<>> => got[c].status = "ok" /\ Len(got[c].data) <= got[c].size

\* The end of the stream means the end of the file, when no read failed.
WholeFileBeforeEnd ==
  \A c \in Conns :
    sock[c] \in {"shut", "closed"} /\ got[c].status = "ok" /\ "read" \notin Faults
      => Len(got[c].data) = got[c].size

\* Who is responsible for closing the socket of c: the boss, a task in the
\* queue or a worker.
Owners(c) ==
  (IF boss.conn = c THEN {<<"boss">>} ELSE {})
    \cup {<<"queue", i>> : i \in {j \in DOMAIN queue : queue[j] = c}}
    \cup {<<"worker", w>> : w \in {v \in Workers : worker[v].conn = c /\ task[c].ctx}}

\* An accepted socket has exactly one owner until it is closed, through every
\* hand-over from the boss to the queue to a worker, and none after that; the
\* context and its task live as long as a worker needs them.  When mth_finish has
\* returned, every connection has been answered or refused and closed, and no context
\* or task is left.
OneOwner ==
  /\ TypeOK
  /\ \A c \in Conns :
       Cardinality(Owners(c)) = (IF sock[c] \in {"open", "shut"} THEN 1 ELSE 0)
  /\ \A w \in Workers :
       worker[w].at \in {"start", "notfound", "header", "send", "drain"} =>
         LET c == worker[w].conn
         IN  ctx[c].state = "live" /\ task[c].state = "live" /\ task[c].ctx
  /\ boss.at = "done" =>
       \A c \in Conns : /\ sock[c] \in {"none", "closed"}
                        /\ ctx[c].state # "live" /\ task[c].state # "live"

\* The asserts of ctx_send_ (gfserver.c:459-460) and of mth_task_destroy_
\* (gfserver_main.c:180): the context was given up before the task is freed.
NoAssertFails == process # "aborted"

\* Every accepted connection is closed in the end, and a client that has asked
\* is not left waiting unless the server stops.
EveryClientServed ==
  \A c \in Conns :
    /\ sock[c] = "open" ~> sock[c] = "closed"
    /\ client[c] = "asked" ~> (sock[c] = "closed" \/ boss.at = "done")
=============================================================================
