# TLA+ models of the getfile repository

This directory holds the specifications kept beside the C code of the repository:
a linked-list steque, a thread-safe queue made of it, a worker pool on top of the
queue, a multithreaded file server and a multithreaded download client on top of the
pool, the headers these two exchange and the generator of the table that reads them,
the single-threaded server and client with their content map, and two servers without
a protocol: echo and transfer. The modules are checked with TLC on small instances.
Every safety property is also proved with TLAPS, for all values of the constants.

Paths below are relative to the repository's root, `src/` in `PROJECT.json`.

## 1. The system

### Components, their state and their operations

| component | code | state | operations |
| --- | --- | --- | --- |
| concurrent queue | `mtgf/gf-student.c:21-79` | a steque, a mutex, a condition variable `notEmpty` | `queue_create`, `queue_enqueue_n`, `queue_enqueue`, `queue_dequeue`, `queue_empty`, `queue_destroy` |
| worker pool | `mtgf/gf-student.c:85-172` | a queue, threads, worker data | `wp_start`, `wp_add_tasks`, `wp_add_task`, `wp_finish`, `worker_work_` |
| gfserver library | `mtgf/gfserver.c` | listening socket, tokenizer, handler; per request a context with the socket and two counters | `gfserver_serve`, `gfs_sendheader`, `gfs_send`, `gfs_abort`, setters |
| multithreaded handler | `mtgf/handler.c`, `mtgf/gfserver_main.c` | a pool, tasks, content sessions | `gfs_handler`, `mth_start`, `mth_process`, `mth_finish` |
| gfclient library | `mtgf/gfclient.c` | a request: server, path, status, lengths, callbacks | `gfc_create`, `gfc_perform`, `gfc_cleanup`, setters and getters |
| multithreaded client | `mtgf/gfclient_download.c` | a pool, tasks, file sinks | `mtc_start`, `mtc_process`, `mtc_finish` |
| headers | `mtgf/gf-student-gflib.c` | a tokenizer between two pieces of a header | `tok_process`, `tok_reset`, `snprintf_request_get`, `snprintf_response`, `unpack_request_get`, `unpack_response`, `sock_send_all` |
| steque | `mtgf/steque.c` | nodes in the heap, `front`, `back`, `N` | `steque_init`, `steque_enqueue`, `steque_push`, `steque_pop`, `steque_cycle`, `steque_front`, `steque_isempty`, `steque_size`, `steque_destroy` |
| single-threaded getfile | `gflib/gfserver.c`, `gfclient.c`, `gfclient_download.c` | one connection, one context, one request at a time | `gfserver_serve`, `gfs_*`, `gfc_perform`, `main` of the download |
| content map, workload | `gflib/content.c`, `gflib/workload.c` and the same files of `mtgf/` | a sorted table of paths and file descriptors; a list of paths and a counter | `content_init`, `content_get`; `workload_init`, `workload_get_path` |
| transfer | `transfer/` | a listening socket, one connection, a source; a sink | `ts_create`, `ts_run`, `ts_destroy`, `tc_receive` |
| echo | `echo/` | a listening socket, one connection, a buffer | `es_create`, `es_run`, `es_destroy`, `ec_create`, `ec_send_and_receive` |
| generator | `generator/` | a graph of the grammar, classes of chars | `build_graph`, `compress_graph`, `write_table`, at development time |

### How they interact

The boss thread of the server accepts a connection, reads the request into *its*
tokenizer and calls the handler; the handler makes a task that owns the context and
a copy of the path, and adds it to the pool. A worker pops the task, asks the
content source for the length of the file, sends a header and then the file through
the context, which closes the socket when the announced length has been sent. The
client is the mirror image: the main thread posts requests, a worker opens a local
file (making its directories), connects, sends the request, reads the header and the
body and reports. Everything between threads goes through the queue of the pool; the
pool ends its workers by sending one pill per worker behind all the tasks.

The servers of `gflib/`, `transfer/` and `echo/` have one thread and serve one connection
after the other; what runs beside them are their clients, other processes, which meet the
server only through the connection and its backlog. All three end a connection in the same way: they
say that nothing more will come (`shutdown`), read until the client has closed too, and close.

Which behaviours are hard:

* the queue notifies *outside* its mutex, with a signal for one item and a broadcast
  for several; waiting threads may be overtaken or woken for nothing;
* the end of the pool relies on the order of pills and tasks in one queue;
* a connection passes through five owners, in three threads, and each must hand it on
  exactly once, on every error path;
* either side of a connection may go away, announce more or less than it sends, and
  the file or the disk may change underneath;
* a header arrives in any pieces, the last of them with bytes of the body behind it, and is
  read with one tokenizer for all connections, whose memory grows and moves meanwhile;
* several workers share one file descriptor, one directory tree, one tokenizer's
  memory with the boss;
* a single-threaded server must get past every client: one that sends more than is read, leaves
  in the middle, or resets the connection; a close at the wrong moment cuts the client off;
* where there is no length (transfer, echo) the end of the stream is the end of the data, and an
  early end must show somewhere;
* the linked list has two ends that meet when it becomes empty or has one node.

What makes each component correct is stated in section 3; `hazards` in
`PROJECT.json` lists, at its line, everything that is hard to test, with the
properties that would catch it going wrong.

## 2. The modules

| module | what it is |
| --- | --- |
| `FifoQueue` | abstract: what `gf-student.h` promises of the queue; calls take effect at one instant |
| `ConcQueue` | the queue, one action for each step between two scheduling points |
| `QueueClients` | any threads that keep to the queue's contract, at most `MaxCalls` calls |
| `WorkerPool` | the boss and the workers of a pool, composed with `ConcQueue` step by step |
| `GetfileServer` | boss, handler, workers, contexts, content source, and the clients |
| `GetfileClient` | main thread, workers, requests, file sinks, and the servers |
| `Tokenizer` | the table of `get_action_`, the tokenizer and its memory, packing and unpacking of headers, as operators |
| `HeaderReader` | the loops of server and client that feed a tokenizer from a socket, and a grammar of headers to compare with |
| `ActionTable` | the generator: the graph of the grammar, the classes of chars, the table it prints |
| `StequeSpec` | abstract: what `steque.h` promises, a sequence |
| `Steque` | the linked list of `steque.c` |
| `ContentMap` | the sorted items and the binary search of `content_get` |
| `Tcp` | external: what the calls of the socket library return and do to a connection |
| `Echo` | the echo server and its clients |
| `Transfer` | the transfer server and its clients, with their sources and sinks |
| `GetfileLoop` | the single-threaded getfile server, on `ContentMap`, and the download processes |
| `MC_Queue`, `MC_Pool`, `MC_Server`, `MC_Client`, `MC_Header`, `MC_Echo`, `MC_Transfer`, `MC_Getfile`, `MC_Steque` | constants for the runs |
| `WorkerPoolProofs` (with those of `ConcQueue` and `Steque`), `GetfileServerProofs`, `GetfileClientProofs`, `GetfileLoopProofs` (with those of `ContentMap`), `HeaderProofs` (of `ActionTable`, `Tokenizer` and `HeaderReader`), `TransferProofs`, `EchoProofs` | theorems |
| `TcpProofs` | lemmas about the calls of `Tcp`, for the proofs about the programs on top of it |

The layers rest on each other. `ConcQueue` uses a sequence for the steque: `ImplementsSteque` is that the linked
list is one. `GetfileServer` and `GetfileClient` use the pool's queue as an atomic sequence, with
"take a pill when the queue is empty and the boss is in finish" for the pills. That
is what the two lower layers provide: `ImplementsFifo` (the queue is atomic),
`PillsLast` and `FinishedMeansDone` (pills are behind all tasks, and the finish waits
for all of them). They also take a header as a whole: a request is a path or `Malformed`, a
response is a status and a length. That is what `HeaderReader` provides: `MessagesAreExact` and
`SplitsAtHeader` say that what either side makes of a stream does not depend on its pieces.
`GetfileLoop` has the headers in two units each, so that they may come in pieces, with a tail
behind them.

### ConcQueue

`base` is the steque as a sequence, `holder` the owner of the mutex, `pc[t]` the point
of a call at which `t` is, `batch[t]` and `pushed[t]` the arguments and the loop index
of `queue_enqueue_n`, `ret[t]` the result of the last read. A call of the queue is begun
by a `Begin` operator, which the modules that use the queue conjoin with their own
state; the later steps are `QueueStep(t)`. A wait is four points: `deq_asleep` (mutex
released), `deq_woken` (notified, wants the mutex), `deq_test` (has it and tests again)
and, if there is an item, `deq_pop`. `SpuriousWakeup` moves a sleeper to `deq_woken`
without a notification. The body of a critical section is one action except for the
loop that pushes a batch, which is one action per item, so that its atomicity is a
result and not an assumption. `steque_enqueue` and `steque_pop` are modelled by what
they do to a sequence.

The contract (`Usable`, `Alone`) is that of the header: `queue_destroy` is called when
no other thread is in a call, and nothing is called afterwards.

### WorkerPool

`boss`, `created` and `joined` are the program counter and the loop indices of
`wp_start` and `wp_finish`; `at[w]` is where worker `w` is in `worker_work_`. `data[w]`
is the life of the worker's data. `added`, `taken`, `started`, `done` are history
variables: only `AddTasks` reads `added`, so that every task is added at most once and tasks can be told
apart. The worker's data is made *before* its thread, and destroyed by the boss while
other workers run, as in the code.

### GetfileServer

One connection carries one request. `sock`, `ctx`, `task` are the three objects a request
owns on the server and `got` is what the client received; file contents are counted in
units, and unit `i` of file `p` is `<<p, i>>`, so that contents of the wrong file or the
wrong place are visible. `tokPath` is the memory of the tokenizer the handler's path points
into. The steps of the boss (`Accept`, `ReadRequest`, `Refuse`, `BossDrain`, `CallHandler`)
and of a worker (`Take`, `SourceStart`, `SendHeader`, `ReadFile`, `Send`, `WorkerDrain`, ...)
are the stretches between two system calls that may block or fail. A client may hang up
before its request is complete, leave when it has its response, or (`Leavers`) at any
time after its request. `Faults` names what may fail: receiving a request, `fstat`,
`pread`, a file becoming shorter (`shrink`), and SIGPIPE on a send to a closed peer.
A send to a client that has gone may succeed or fail: both happen with real sockets.
`NoAssertFails` follows the two asserts of the code as if built with them.

The program of the handler ends its process with the server's loop, which the code lets
a callback stop (`continue_`); `Stop` may happen between any two connections. The content map is the
set `Paths` here; its search is in `ContentMap`.

### GetfileClient

`reply[t]` is what the server will send: a status, an announced length and a body of its
own length, so that servers that send less, more or nothing of what they announce are all
there. `read[t]` counts the units that `recv` returned; the pieces in which they come, the
tail behind the header included, are any. `file[t]` is the local file with the units that
`fwrite` wrote, `req[t]` the request's memory, status and lengths, and `report[t]` what the
report callback was told. Every local path is posted once: two requests for one local path
would write one file through two handles, which no part of the code promises anything about.

### ActionTable, Tokenizer and HeaderReader

A char is its code, because the code does arithmetic with it (`buffer[i] - '0'`). The table of
`get_action_` (44 states, 23 classes of chars) was generated by `generator/build_graph.cpp`, which
`ActionTable` follows: `Edges` is the graph of `build_graph` over the constants `Words` and
`Terminator`, with a state named by the stem of a keyword or the part of the terminator read so far;
`Class` and `Compressed` are `compress_graph`, which gives one number to the chars that take
the same edges from every state; `Table` is `write_table`; `GrammarAssumption` is `validate_inputs`, and what its callers
give it: the words are the keys of a map, and each has a token of its own.
`TableIsGraph` compares the rows of the table with the graph: this is where a class that
joins two chars too many would show. The tokenizer reads the table, as the C code does. That the
checked-in table is this one, with equal states merged, was compared entry by entry outside of TLA+.

The tokenizer is a record with the fields of `struct TokenizerTag`. `buffer` is memory: it keeps what
earlier paths and headers left in it. A path token is a place in a block, and `realloc` may move the
buffer to another block (`moves`), so that a pointer that was not moved with it is seen. `TakeChar` is
one turn of the loop of `tok_process`, in its order: the token that ends here, the reset of the
recording, the char, the number, modulo `Modulus`. A char of more than seven bits has no
action: the state is then `Crashed`, and the process is over.

`HeaderReader` feeds it. `Receive` is one `recv` with what the loop does to its result, for the server
(`processed` against the length of `chunk`) and the client (the tail, `Behind`, and the copy of the header's text)
at once; `NextConnection` is `tok_reset`. `Request` and `Response` are what the two make of it after the
loop. `received` is a history variable. The grammar it is compared with (`Fields`, `Meaning`, `IsHeader`,
`Viable`, `Decided`) splits a text at its spaces and shares nothing with the table but the keywords.

### Steque

`heap[n]` is the node at address `n`, `allocated` the addresses `malloc` has returned and `free` has not got.
The callers hold a lock, so that a call is one step; `steque_destroy` is a step for each turn of its
loop. The assignments of a call are made in their order where a later one reads what an earlier one
wrote: `steque_cycle` of a list of one node links the node to itself, moves `front` along this link, and then
cuts it. The item of a freed node stays in `heap`, as the memory does, so that a list that leads through one is seen as
wrong by `ListOK` and not by an accident of the model. `chain` is a history variable, the
nodes from front to back; no guard reads it. `StequeSpec` is the sequence; while steque_destroy runs (`destroying`) it is
empty, and may do nothing but return, so that an underflow in the loop of `steque_destroy` is no step of it.

### ContentMap

`key`, `lo`, `hi`, `search` and `fildes` are the local variables of `content_get`, one action for
each turn of its loop. Strings are integers in the order of `strcmp`; equal keys are allowed, as in the code, which
then returns either. `qsort` is external: the items are sorted by `ItemsAssumption`.

### Tcp

A connection is `state[s]`, what end `s` has done with its socket, `toward[s]`, what is on its way to `s`, and
`reset`. `Receives` and `Sends` are the sets of outcomes of `recv` and `send`: any piece of what is there,
0 when the peer will send no more, -1 after a reset, and no outcome while the call has to wait. A close with
unread data resets the connection, and so does a send to a closed peer, sooner or later; this is what the loop of
`shutdown_` is for. A connection that is closed before it is accepted is accepted all the same.

### Echo, Transfer, GetfileLoop

In each of them the server is a record with its program counter `at` and the local variables of the function it is in; an
action is the stretch between two calls that may block or fail, and is named after the function. The turns of the loops over addresses, of
`send_all_` and of `shutdown_` are actions of their own. `stream` holds the connections, one for each client (for
each request in `GetfileLoop`). Clients connect whenever they like, fail when nobody listens, and wait in the backlog.
`Leavers` may end at any time, by a close or by a reset. `Faults` names what else may fail; "sigpipe" is
the signal that a second send to a closed peer raises, and that nothing ignores: it ends the server's process.

* `Echo`: the one `recv` of `receive_and_send_all_`, whose -1 is taken for a size and then hidden by the -1
  of the `send` behind it. `Rerun` calls `es_run` again, as its comment allows.
* `Transfer`: a source may fail to start or to read; a file source cannot tell a failed read from the end, any other source can. `log` is
  what `logFcn` was called with. `disk[c]` is the output file, which may be there from an earlier transfer (`Old`).
  `fwrite` and `fclose` may take less than they are given (`Taken`, the fault "disk"), which the client does not look at. The history variables
  `got` and `short` are what `recv` has returned, and the clients whose file has not all of it.
* `GetfileLoop`: a download process makes its requests one by one, with the paths of its workload over and over.
  The handler (`handler.o`, an object file) is external: it looks the path up with `content_get`, sends the header, then the file
  with `pread` and `gfs_send`, or aborts. `disk` and `reports` are what a user of the download has at the end. A download
  may end before a request, when its path is too long or its file cannot be opened ("open"), and its disk may take less than it is given ("disk"). History
  variables: `given` is what the local file would be without the latter, `short` the requests it happened to, `kept` the
  connections of empty files, whose contexts the handler never gives up.

## 3. The runs

All runs are listed in `PROJECT.json`; `tlc -workers 2 -config X.cfg M` repeats one.

| run | instance | what it shows |
| --- | --- | --- |
| `queue` | 3 threads, 4 calls, batches of 0, 1 and 2 items | `MutexOwned`, `PopFindsItem`, `NoLostWakeup`; `ImplementsFifo`, the refinement of `FifoQueue`; `EventuallyServed`: once no more calls are begun, every call returns except for dequeues of an empty queue |
| `pool` | 3 workers, 2 tasks, batches up to 2 | `EveryTaskOnce`, `PillsLast`, `DataOutlivesWorker`, `FinishedMeansDone`, `KeepsQueueContract`, and `FinishReturns`: `wp_finish` returns |
| `server_safety` | 3 clients, 2 workers, files of 3 and 1 units, a missing path, one leaver, failing `recv`, `fstat`, `pread`, shrinking files, SIGPIPE | `ResponseIsTheFile`, `OneOwner`, `NoAssertFails` |
| `server_live` | 3 clients, 2 for the same file and a malformed request, failing `recv` and `fstat` | `WholeFileBeforeEnd`, `EveryClientServed` |
| `client` | 2 requests, 2 workers, one directory, 7 kinds of servers, failing `mkdir`, `fopen`, `connect`, `recv` | `NoAssertFails`, `SuccessMeansWholeFile`, `NoPartialFileLeft`, `EveryRequestReported`, and `FinishReturns`: `mtc_finish` returns, whatever the servers sent before they closed |
| `header` | 5 chars that make 4 keywords, digits, paths and spaces, the ends of a header, a char outside the table; buffers that start with 3 chars and 1 token | `TableIsGraph` for the generator; `HeaderRecognized`, `TokensAreFields`, `SplitsAtHeader` and `MessagesAreExact` for what reads headers with its table |
| `echo` | 3 clients with messages longer than, equal to and shorter than the buffer, one message in pieces, one leaver, failing `getaddrinfo`, `bind`, `listen`, SIGPIPE | `EchoIsTheMessage`, `NobodyCutOff`, `EveryClientServed` |
| `transfer` | 2 clients, one a leaver, a source of two buffers, file and other sources, failing `bind`, `listen`, start and read of the source, start of the sink, a full disk, SIGPIPE | `WholeOrLogged`, `FilesMatchStatus`, `EveryTransferEnds` |
| `getfile` | 2 downloads of 2 and 1 requests, one a leaver, 3 files of 3, 0 and 1 units, paths before the first, between two, behind the last, and a malformed one, failing `bind`, `listen`, `pread`, open of the local file, a full disk, SIGPIPE (2 to 3 minutes) | `ReportsAreTrue`, `ConnectionsHaveOwner`, `LookupIsRight`, `EveryRequestEnds` |
| `steque` | 4 nodes, 2 items | `ListOK`; `ImplementsSteque`, the refinement of `StequeSpec` |

Two more runs, `server_leaver` and `echo_sigpipe`, are expected to find a violation: see Findings.

### Bounds, and why they are enough

* *Queue*: the subtle scenario needs a sleeper, a second dequeue that overtakes it and an
  enqueue whose notification is late. Four calls let each of three threads make one and one thread a second, so that
  the late notification of one enqueue meets the item of another. Batches of one and of two items are the two cases of
  the notification. The proofs remove these bounds for everything but liveness.
* *Pool*: three workers are needed for one to be joined, one to end and one still to work;
  two tasks for one to overtake the other. The history variables make each task distinct.
* *Server*: a file of three units takes two buffers of two (`Chunk`), so that a worker
  is between two reads while the other one works; three clients keep the queue and both
  workers busy while the boss overwrites its tokenizer. In `server_safety` the leaver asks for a
  path that is missing: a leaver of a file is what `server_leaver` is about. In
  `server_live` all failures but those of `pread`, a shrinking file and SIGPIPE occur; these are
  excluded because they end a response or the process early, which `WholeFileBeforeEnd` says nothing about.
* *Client*: two requests may run in parallel, in one directory, or one after the other in one
  worker, which then starts with what the first has left. Replies are chosen for the boundaries of `bytesReceived` and `fileLen`:
  equal, short, too long, empty, empty with excess.
* *Header*: one keyword begins another (as GET does GETFILE) and two begin alike. Six chars before the
  end of a header (`MaxLead`) hold a complete request or response of three fields, a field has at most two chars
  (`MaxField`); a longer path or keyword repeats the same edges. The buffer is doubled
  up to twice while a path is in it. The second header, of one char, is read with a tokenizer in any state the
  first may have left. `Modulus` is 8, so that the number 11 wraps and the number 1 does
  not. The proofs remove all of these bounds.
* *Echo*: the buffer of two units is smaller than, as large as and larger than a message; two clients wait while
  one is served. Two addresses make a failed `bind` before a good one.
* *Transfer*: three units with a buffer of two take two reads and two sends, so that the source or the connection may fail in
  the middle. Two clients are enough for one to be hurt by what the other has left behind.
* *Getfile*: three items give the binary search a key in the middle, at either end, missing between two, before the first and
  behind the last; the proof removes this bound, and is the only one to cover a list of no items. One download goes round its workload, or past its end; the other one leaves, is refused, or asks for the empty file.
* *Steque*: four nodes hold a list with two inner nodes; addresses are reused at once after a `free`.
  The proof removes this bound.

Deadlock checking is off where the system may really stop: all calls made, all
connections served, the pool finished, a server that waits for its next client, or no node left to allocate.

### Fairness, and why the code justifies it

Every liveness run uses weak fairness of each *thread* or process: a step of a thread that stays
possible is taken, which any preemptive scheduler gives. A mutex needs no more here, since
every holder releases it in a bounded number of its own steps and the number of calls is
finite. Spurious wakeups end eventually
(`<>[][~Wakeup]_vars`): without it a thread that wakes, tests and sleeps forever satisfies the
weak fairness of its steps. The pool additionally assumes that `work` returns and
that the owner calls `wp_finish` sooner or later: both are its callers' part. The multithreaded server
assumes that clients send or hang up and close when they have what they asked for: without it
`EveryClientServed` is false, because the boss receives without a timeout (an entry of
`hazards`). The multithreaded client assumes that a server sends its reply and closes.

In `Echo`, `Transfer` and `GetfileLoop` both ends are programs of the repository, so that the fairness of a client is that of its own code: it
sends, receives and closes. A client that leaves does so whenever it likes or never. `Accept(c)` has strong fairness for
each connection: `accept` is called again and again and takes connections in the order in which they came, so that
a waiting one is not passed over for ever. Nothing is assumed of stopping a server or of `es_run` being called again;
`EveryClientServed` of `Echo` says what holds until the server is stopped. It
needs messages that are not empty: with an empty one both ends wait for each other (`hazards`).

### Findings

Two runs check what an assertion and a comment say, and TLC finds a behaviour of the code that does otherwise.

| run | what it shows |
| --- | --- |
| `server_leaver` | a client that goes away during its response: the result of `hc_send` is ignored, the context is kept, and the assert of `mth_task_destroy_` (`mtgf/gfserver_main.c:180`) fails |
| `echo_sigpipe` | a client that goes away before its echo: nothing ignores SIGPIPE, and the signal ends a server that "will continue accepting connections [...] until continueFcn(continueFcnData) returns false" (`echo/echoserver.c:45-47`) |

More things were met while modelling and have no run of their own:

* tasks leave the queue in order but `work` is called outside the mutex, so that they may be *started* in
  another order than `mtgf/gf-student.h:62-63` says (`EveryTaskOnce` is about the order of the queue);
* a file of size 0: the loop of `mth_do_work_` never calls `hc_send`, nobody gives up the context, and the
  assert of `mth_task_destroy_` fails (the files of the server runs are not empty). The handler of the single-threaded
  server also returns without giving up the context of an empty file; the connection stays open
  and the download, which knows the length, closes it: `ConnectionsHaveOwner` states this exception;
* a read of 0 does not end the loop that sends a file: a file that became shorter keeps a worker busy for ever
  (`server_safety` lets files shrink; no liveness is claimed of it);
* the results of `fwrite` and `fclose` are ignored, in `mtgf/gfclient_download.c`, `gflib/gfclient_download.c` and
  `transfer/transferclient.c`: a full disk gives a successful report for an incomplete file. `SuccessMeansWholeFile` is checked without the fault "disk";
  `WholeOrLogged` and `ReportsAreTrue` are checked with it and say what is still true: everything has arrived and was
  given to stdio, and the file has some of its units, in order;
* a failing read of a file source is not told from its end, because `fread` returns 0 for both: with the fault
  "fread" TLC refutes `WholeOrLogged`;
* a byte of more than seven bits in a header finds no action: `get_action_` returns NULL and `tok_process` follows it
  (`mtgf/gf-student-gflib.c:758,129`), where `mtgf/gf-student-gflib.h:100-101` promises "-1 the tokenizer encountered an invalid
  sequence of characters.  tok_invalid will return true in this case". The model ends the process there; `HeaderRecognized` does not state the
  promise but what happens, and that it happens behind such a byte only;
* SIGPIPE may end the process before `sock_send_all` can return the -1 its comment promises
  (`mtgf/gf-student-gflib.h:205-206`);
* the failure paths of `mtc_do_request_` free neither the request nor the task (`mtgf/gfclient_download.c:245,261-270`);
* `workload_get_path` divides by the number of paths, 0 for an empty file, and `make_timeval_` by 1000 where microseconds need 1000000.

## 4. The theorems

Everything below is proved by `tlapm` for all values of the constants, from the named
assumptions of the modules: `ThreadsAssumption` (finitely many threads, `NoThread` is none),
`ItemsAssumption` of `ConcQueue` (batches are sequences of items), `PoolAssumption` (at least one worker, as
`wp_start` asserts; the boss is not a worker; the pill is not a task), `PillsAssumption` (the
pills are among the batches that may be enqueued), `ClientAssumption`
(`NoTask` is not a task, sizes are natural numbers, a buffer is not empty), `ServerAssumption` (the same for `NoConn`, sizes and
buffers; an unknown path and a malformed request are no paths of the content map), `TransferAssumption` (the same for `NoClient`,
sizes and buffers; there is an address), `EchoAssumption` (the same for `NoClient`, lengths and the buffer), `LoopAssumption` of `GetfileLoop` (the same for `NoConn`, sizes and buffers; no workload is empty,
and the paths of the content map are well-formed), `StequeAssumption` (`Null` is not a node, `Nothing` not an item),
`ItemsAssumption` of `ContentMap` (the keys are sorted, as `qsort` leaves them), `GrammarAssumption` (a keyword is printable, not empty, begins with
neither a digit nor the slash, and no two are equal, since `Words` of `generator/Graph.hpp:22` is a map from their texts; the
terminator is of two control characters or more), `TokenizerAssumption` (a new tokenizer has some memory; GETFILE and GET are keywords) and
`ReaderAssumption` (`recv` returns at least one char; the copy of a header has room for one). The assumptions of the other modules describe their
instances and no proof uses them; TLC evaluates all of them. `tlapm` 1.4.5 expands an `@` wrongly when it stands inside the `EXCEPT` of
another `@`; no definition of the modules has one.

**The steque** (`WorkerPoolProofs`). The inductive invariant is `ListOK` itself, which is why it has the history
variable `chain`: it says, without recursion, that `front` leads through N linked nodes to `back`, all different, all allocated and
nothing else. The node that `free` gets is in `chain` once, so that no other pointer leads to it; a new node is in no
place of `chain`. `StequeIsList` is this invariant, `StequeRefines` that the list implements `StequeSpec`:
every call appends, prepends, rotates or takes the head of `Contents`, the call of `steque_destroy` empties the
abstract sequence, the turns of its loop change nothing and the last one returns. An underflow happens only to an empty sequence
and never in `steque_destroy`: by `ListOK`, N is 0 when `front` is NULL, so that the loop has ended.

**The queue** (`WorkerPoolProofs`). The inductive invariant is `QueueInv`, the conjunction of
`TypeOK`, `IndexInRange`, `MutexOwned`, `PopFindsItem` and `NoLostWakeup`. Mutual exclusion
supports everything else: a step that pushes or pops owns the mutex, so that no other thread is between
its test and its pop. `NoLostWakeup` counts: a sleeping dequeue implies a broadcast on its way, or
no more items in the queue than threads that are awake plus signals on their way. The proof of
each step is a comparison of these cardinalities before and after it; `IndexInRange` is needed to
know that whoever leaves the loop has pushed something and will notify. The theorems are
`QueueTypes`, `QueueMutex`, `QueueNoUnderflow`, `QueueNoLostWakeup`.

**The queue is atomic** (`WorkerPoolProofs`). `QueueRefines` is that the queue implements `FifoQueue`. The mapping hides the part of a batch
that is pushed but not complete (`HalfPushed`). Beyond `QueueInv` it needs `BatchAtBack`: what the thread in the loop has
pushed is at the back of the queue, in the order of the batch, since nobody else can touch the queue meanwhile. A batch takes
effect with its last push (`PushShowsBatch`), a dequeue with its pop, and the locks, waits, wakeups and notifications show nothing.

**The pool is a good client** (`WorkerPoolProofs`). `PoolKeepsQueueContract` proves
`Spec => QueueSpec`: every step of the pool is a step of the queue under its contract, or does not
touch it. The invariant is `Places`: where the boss and the workers may be, in particular that the
boss reaches `queue_destroy` only when all workers have been joined and that a joined worker is out
of every call. Hence `PoolQueueInvariant`: the queue's theorems hold in the pool. `PoolData`
(`DataOutlivesWorker`) follows from the same invariant.

**Finished means done** (`WorkerPoolProofs`). The invariant is `Ledger`, three parts on top of `Places`:
`History` (the history variables have their types), `Accounted` (each added task is still to be pushed, in
the queue, in the hands of a worker, or done) and `PillOrder` (once a worker has a pill, nothing but
pills is left to be taken; no pill is before a task). `PillOrder` is what turns "all workers have
ended" into "no task is left": a worker that has ended popped a pill, so nothing but pills is waiting, so
that `Accounted` leaves only `done`. The theorems are `PoolTypes`, `PoolPillsLast`, `PoolFinishedMeansDone`.

**Every task once** (`WorkerPoolProofs`). `Ledger` says that a task is in *some* place; `PoolEveryTaskOnce` that it is in exactly
one, and in order. The invariant has two more parts. `TasksInOrder` compares, index by index, the tasks added with those popped
and the first of those pending, behind which there are only pills (`Handed`): a push moves an item from the boss's batch to the queue without changing what
is pending (`PushKeepsPending`), a pop takes the head. `Once` says that no task was added or started twice, that two workers never hold the same
task, and that what has been started is in the hands of the worker that started it, or done. The two need each other: a popped
task is new to the workers because it is further on in `added`, which has no member twice (`HandedNew`). That comes
from the pool's owner, who adds each task once: the guard of `AddTasks`.

**The client** (`GetfileClientProofs`). The invariant `IInv` follows one request: it is untouched and in the queue once
(`QueueOK`), in the hands of one worker (`HandsOK`), or `Settled` in one of the three ways `mtc_do_request_` leaves
it; `StagesOK` says for each point of `mtc_do_request_` what has been done for the request so far. What makes the
assert of `write_` hold is in the stage `receive`: what was received is at most `fileLen`, and as long as something is
missing, nothing of the body was dropped (`read[t] = req[t].bytesReceived`), so that the next units go where they belong
(`UnitsGrow`). A step of one worker changes nothing of the other requests (`OneRequest`), so that each action is proved for
its own request only. From `IInv` follow `ClientNoAssertFails`, `ClientNoPartialFileLeft`, `ClientSuccessMeansWholeFile`, which
assumes that `fwrite` does not fail, since the code does not look at what it returns (findings, above), and
`ClientEveryRequestReported`, which assumes that the pool has a worker. All hold for any server, any sizes and any faults else.

**The server** (`GetfileServerProofs`). The invariant `IInv` follows one connection through its hands. It is with the boss
(`BossOK`), in the queue once (`QueueOK`), with one worker (`HandsOK`, `WorkersOK`), or with nobody and then not accepted yet
or closed for good (`RestOK`); `BossStage`, `QueueStage` and `WorkerStage` say what each of them knows of the socket, the
context, the task and what the client has received. In the loop of `mth_do_work_` that is `InStep`: `sent`, which the worker
counts, and `sentSoFar`, which the context counts, agree as long as the client is there, and both say how much of the file it
has. They differ once a send has failed, since the worker ignores the result; hence `sentSoFar <= sent`, which is all the
assert of `ctx_send_` needs. A step of a worker changes one connection only (`OneConnection`), as does one of the boss
(`BossConnection`), and a step outside the server moves no connection (`OutsideMoves`).
`ServerResponseIsTheFile` needs nothing else. The other three assume `Patient`: no file is empty, and no client
of a file leaves before it has it. Without it they are false: `server_leaver` shows the assert of `mth_task_destroy_` failing, and
an empty file ends the loop before the context is given up in the same way. `ServerOneOwner` also assumes that there is a worker,
as the pool does: `mth_finish` of a pool without workers would leave the queue unserved.

**The transfer** (`TransferProofs`, on the lemmas of `TcpProofs`). The invariant `FilesInv` follows the units of the source.
The server's buffer holds the last units it has read (`BufferIsTail`), so that `Sent(c)` is how many it has handed over; `InOrder(c)` says
that what has come out at a client's end (`got`) or is on its way are the first units of the source, `Sent(c)` of them as long as
the server serves it, that the file is `got`, or some of it in order if the disk took less (`short`, `SomeOfFirst`), and that only a server that has ended resets a connection; `ServesOne` that the server has one
connection open while it serves and none otherwise; `ClientParts` what a client knows at each point of `tc_receive`. A step of a client changes one connection
(`ClientStep`), and so does one of the server (`ServerStep`) but for its end, which resets or closes all (`Killed`, `Destroy`). The theorems are
`EveryUnitInOrder` (the invariant), `FilesAlwaysMatchStatus` and, with `ServedWhole` (a connection that the server has shut down without a logged
failure was served to the end of the source) on top, `NothingLostSilently`. The last one assumes that `fread` does not fail (`"fread" \notin Faults`), as
the run does: with a failing `fread` it is false (findings, above). What it says of the file leaves room for a full disk. All other faults may happen, to any number of clients.

**The echo server** (`EchoProofs`, on the lemmas of `TcpProofs`). The invariant `EchoInv` follows a message to the server and back.
`AskedWhole(c)` says that until the server receives from `c`, all that `c` has sent is on its way to it, and nothing has come back;
so that the one `recv` of `receive_and_send_all_` gets a message that was sent in one piece as far as its buffer goes (`ReceivesAllThere`).
`EchoInOrder(c)` says that what `c` has received, what is on its way to it and what the server has in hand follow each other in
the message of `c`, no more than the buffer holds, and exactly that much of a message in one piece (`Enough`); and that
only a server that has ended resets the connection of a client that waits. The last part needs `shutdown_`: the server closes
a connection only when its client has closed it, or when it is reset already. `ServesOne` and the two step lemmas are those of the transfer.
The theorems are `EchoAlwaysInOrder` (the invariant), `EchoIsAlwaysTheMessage` and `NobodyIsCutOff`; all faults may happen, and any
client may leave. A message in pieces is echoed from its start, but how much of it depends on what the one `recv` finds.

**The content map** (`GetfileLoopProofs`). The inductive invariant is `SearchInv`, whose second part is the comment in the loop of
`content_get` (`gflib/content.c:76`): while it searches, every item with the key is between `lo` and `hi`. Each turn keeps it
because the items are sorted. `LookupRight` is that the result is right for every list of items, with equal keys or
none; `LookupTerminates` that each turn makes what is left smaller. `GetfileLookupRight` is the first of the two in the server, where the
other programs take their steps between the turns.

**The single-threaded programs** (`GetfileLoopProofs`, on the lemmas of `TcpProofs`). What a download reports is true only if the request arrives
as it was sent, the handler finds the file of that path, and the answer arrives in order and is taken apart at the right place. The invariant
`LoopInv` follows a request all the way round. `Request(p)` and `Answer(p)` are the units of the two messages, and `Follows(q, u, n)` says that `q` is
what comes in `u` behind its first `n` units: every buffer on the way is such a piece. `Asked(k)` says this of what the server has heard and what
is on its way to it, and that as long as the client sends nothing is missing between the two; `HandlerInv` that the handler runs with the
path of its own connection, that what it has found is a file of this path, and that the context counts what was sent of it; `InOrder(c)` that what is
on its way to a client follows what it has taken, and is followed by what the server has in hand (`Handed`), until the connection is torn down;
`ClientParts(c)` what `perform_` knows at each point, so that a client that has as many units as the
header announced has the whole file (`FileIsBeginning`). `ServesOne` and `Fresh` keep connections apart: the server has one, and none
is there before its client asks. A step of the server changes one connection (`ServedStep`), or ends all it has (`ServerEnds`); a step of a client changes its
own request (`ClientActs`). `LoopInv` is about `given`, what a local file was given. Two more invariants stand on it: `FilesInv` follows the local files
(`FileKept`: the file is what was given, or it is short and has some of it in order), through `writecb` (`PutsKept`), `fclose` and `unlink` (`SettlesKept`);
`OwnedInv` the connections and the context, in both directions: open exactly while served, live exactly from the call
of the handler to the close. The theorems are `GetfileReportsAreTrue`, `GetfileConnectionsHaveOwner` and `GetfileLookupRight`; every fault may
happen in them, and any client may leave at any time.

**The table** (`HeaderProofs`). `TableFaithful` is that the generated table is the graph, for every grammar. Two facts carry it. The graph
is deterministic: `Leads(state, char, move)` says that an edge leads there, `Goes` says the same with one disjunct for each kind
of state (`LeadsGoes`, `GoesLeads`), and `GoesOnce` that no two moves fit: a keyword begins with neither a digit nor the slash, a stem is extended
by a char in one way, and where a keyword ends there is a space, a NUL or the terminator, which no keyword contains. Two keywords with one text would
give their last stem two tokens; a map from the texts has no two (`GrammarAssumption`). And two chars of
one class have one signature (`SameClass`): `FirstOfClass` is the least char with the signature, and the
number of first chars up to it is a different one for each. So the edge that is kept for a class has the move of the char's own edge.

**The headers** (`HeaderProofs`). The tokenizer works char by char, the grammar on the whole text; the invariant has to say what
the one knows of the other. `TypeInv` has the types and the bounds of the memory (`TokenizerOK`). `Progress(tok, t, n, j)` is about a tokenizer that was offered n chars of a
text t and has taken j of them. While it goes on, no prefix has decided the text (`Undecided`) and the tokenizer `Tracks` it: its state is the one that belongs to
the field or the part of the terminator that the text ends in (`Live`); its tokens are the meanings of the complete fields, each path a string in the current block that
ends before `startOfCurrent`, where nothing is written any more (`HasRead`); and `numberValue` is the value of the digits so far, modulo 2^w, or the
buffer holds the unfinished path from `startOfCurrent` on (`Records`). When it is over, the j-th char is the one that has decided (`Ended`): the text is a header now, or
can no longer become one, or the char has no entry in the table. The inductive invariant `ReadInv` is `TypeInv` and `ReadAt(j)` for some j, which is `Progress` of what was
received, and says what was copied for the callback and which bytes of the last piece are behind the header.
One turn of the loop of `tok_process` takes `Progress` from one char to the next (`OneTurn`, by the kind of the state and of the action), so that the
pieces do not matter: `Process` goes on in a piece where it has stopped in the last one (`TurnsProgress`).
From `ReadInv` follow `ReaderRecognizes` (done where a header ends, invalid where a char of seven bits makes one impossible, neither but `Crashed` where any other byte does), `ReaderReads`, `ReaderSplits` and the first half of `ReaderMessages`; `ReaderTypes` and `ReaderTable` need only `TypeInv`. The second half of
`ReaderMessages`, that what is printed is read back, is about texts: what is printed of two or three fields has these fields, and the
digits that `%zu` prints have the value they were printed of (`NumberOfDecimal`).

`Process`, `Fields`, `Number`, `Decimal` and `HeaderText` are recursive functions, and what they compute is proved by induction. The induction theorems of the library
take an operator as a parameter, which the provers at hand cannot instantiate; but it also has the fact that `<` is well-founded on `Nat`, from which follow
`LeastOfSet` (a set of numbers that is not empty has a least one), `Inductive` (induction for a set of numbers),
`Recursion` (a recursion over an interval defines a function) and `TextInduction` (the same for texts, char by char).

### Only model-checked

* Liveness (`EventuallyServed`, `FinishReturns`, `EveryClientServed`, `EveryTransferEnds`, `EveryRequestEnds`): the
  prover has no support for fairness and `ENABLED`.

## 5. What is not modelled, and why

* The text of the C that the generator prints, and the Graphviz output: layout. The fixed size of the buffers a
  header is printed to (`snprintf_tokens` counts beyond it, the server asserts that it fits).
* The random mode of the workload, which nothing selects, and the parsing of the workload and content files.
* The handler object `gflib/handler.o`: external, modelled from how the library is used.
* A send that has to wait because the other side does not read: the buffers of a connection are unbounded in `Tcp`, so
  that a client that never reads is not seen to hold a server up. A failing `select` or `accept` only lets the loop go round
  again, as a timeout does, and is not told from one.
* Setters and getters, tables of error messages, options, usage texts, logging (but for the log of `Transfer`): they copy values or print.
* The length of a timeout: a `select_` that times out lets the loop go round, whenever it does.
* Failing `pthread_create`, `calloc` and `malloc`: not checked by the code; what follows is undefined.
* Two requests for one local path, and a task added twice: see section 2.
* Pools whose tasks add tasks to another pool (`mtgf/test/tWorkerPool.cpp`): each of them is a `WorkerPool`, and
  the property that the first is finished before the second is its user's.
* The test suites and sample programs, read as documentation.

## 6. Plan

Done, in this order: `FifoQueue`, `ConcQueue`, `QueueClients`; `WorkerPool`; `GetfileServer`;
`GetfileClient`; the proofs of the queue, the pool, the client and the server; `Tokenizer` and `HeaderReader`; `Tcp`, `Echo`, `Transfer`;
`Steque` and its proofs; `ContentMap`, `GetfileLoop` and the proofs of the search; `ActionTable`; the proofs of `EveryTaskOnce`,
of the transfer, of the single-threaded programs, of the echo server and of the headers. What would come next:

1. bounded send buffers in `Tcp`, with clients that do not read;
2. pools in a cascade.
