---------------------------- MODULE GetfileClient ----------------------------
(***************************************************************************)
(* The multithreaded download client: main posts requests, the workers of  *)
(* the pool run mtc_do_request_ of mtgf/gfclient_download.c, which drives  *)
(* the file sink and gfc_perform of mtgf/gfclient.c.                       *)
(*                                                                         *)
(* The server is any program: what it sends on a connection is one of      *)
(* Replies, a status with a size and the units of body that follow before  *)
(* it closes, fewer than the size or more.  The pool's queue is the atomic *)
(* one of FifoQueue, which ConcQueue implements.                           *)
(***************************************************************************)
EXTENDS Integers, Sequences, FiniteSets

CONSTANTS
  Tasks,       \* the requests, each with a local path of its own (localPath)
  Workers,     \* the worker threads of the pool
  NoTask,
  Dirs,        \* the directories of the local paths
  Dir,         \* Dir[t]: the directory of the local path of t
  Replies,     \* what a server may send: [status, size, body]
  Chunk,       \* bound: the units one recv returns at most
  Faults       \* which of "mkdir", "fopen", "connect", "recv", "disk" may happen

Statuses == {"ok", "notfound", "error", "invalid"}

ASSUME ClientAssumption ==
  /\ NoTask \notin Tasks
  /\ Dir \in [Tasks -> Dirs]
  /\ Replies \subseteq [status : Statuses \cup {"garbage"}, size : Nat, body : Nat]
  /\ Chunk \in Nat \ {0}
  /\ Faults \subseteq {"mkdir", "fopen", "connect", "recv", "disk"}

VARIABLES
  boss,      \* main: posting requests, in mtc_finish, or past it
  queue,     \* the tasks in the pool's queue
  task,      \* task[t]: the memory of the MtcTask of t
  worker,    \* worker[w]: where mtc_do_request_ is, with which task
  req,       \* req[t]: the gfcrequest_t of t
  ret,       \* ret[t]: what gfc_perform returned for t
  reply,     \* reply[t]: what the server sends to t
  read,      \* read[t]: the units of its body that recv has returned
  dirs,      \* the directories that exist
  file,      \* file[t]: the local file of t and its handle
  report,    \* report[t]: what reportFcn was told about t
  process    \* whether the process runs, or an assert has ended it

vars == <<boss, queue, task, worker, req, ret, reply, read, dirs, file, report, process>>

Idle == [at |-> "idle", task |-> NoTask]

Memory == {"none", "live", "freed"}

TypeOK ==
  /\ boss \in {"posting", "finish", "done"}
  /\ queue \in Seq(Tasks)
  /\ task \in [Tasks -> Memory]
  /\ worker \in [Workers -> [at : {"idle", "mkdir", "fopen", "connect", "response", "receive",
                                   "check", "cancel", "finish", "report", "exited"},
                             task : Tasks \cup {NoTask}]]
  /\ req \in [Tasks -> [memory : Memory, status : Statuses, fileLen : Nat, bytesReceived : Nat]]
  /\ ret \in [Tasks -> {0, -1}]
  /\ reply \in [Tasks -> Replies \cup {[status |-> "garbage", size |-> 0, body |-> 0]}]
  /\ read \in [Tasks -> Nat]
  /\ dirs \subseteq Dirs
  /\ file \in [Tasks -> [state : {"none", "refused", "open", "closed", "removed"}, data : Seq(Nat)]]
  /\ report \in [Tasks -> Seq([success : BOOLEAN, expected : Nat, received : Nat])]
  /\ process \in {"runs", "aborted"}

\* The status of a request is GF_OK, the zero of calloc, until it is set.
NewReq == [memory |-> "none", status |-> "ok", fileLen |-> 0, bytesReceived |-> 0]

Init ==
  /\ boss = "posting"
  /\ queue = <<>>
  /\ task = [t \in Tasks |-> "none"]
  /\ worker = [w \in Workers |-> Idle]
  /\ req = [t \in Tasks |-> NewReq]
  /\ ret = [t \in Tasks |-> 0]
  /\ reply = [t \in Tasks |-> [status |-> "garbage", size |-> 0, body |-> 0]]
  /\ read = [t \in Tasks |-> 0]
  /\ dirs = {}
  /\ file = [t \in Tasks |-> [state |-> "none", data |-> <<>>]]
  /\ report = [t \in Tasks |-> <<>>]
  /\ process = "runs"

-----------------------------------------------------------------------------
(* main: mtc_process and mtc_finish.                                       *)

Post(t) ==
  /\ boss = "posting"
  /\ task[t] = "none"
  /\ task' = [task EXCEPT ![t] = "live"]
  /\ queue' = Append(queue, t)
  /\ UNCHANGED <<boss, worker, req, ret, reply, read, dirs, file, report, process>>

CallFinish ==
  /\ boss = "posting"
  /\ boss' = "finish"
  /\ UNCHANGED <<queue, task, worker, req, ret, reply, read, dirs, file, report, process>>

\* wp_finish has joined every worker.
Finish ==
  /\ boss = "finish"
  /\ \A w \in Workers : worker[w].at = "exited"
  /\ boss' = "done"
  /\ UNCHANGED <<queue, task, worker, req, ret, reply, read, dirs, file, report, process>>

-----------------------------------------------------------------------------
(* A worker: mtc_do_request_.                                              *)

Goes(w, at) == worker' = [worker EXCEPT ![w].at = at]

Take(w) ==
  /\ worker[w].at = "idle"
  /\ queue # <<>>
  /\ worker' = [worker EXCEPT ![w] = [at |-> "mkdir", task |-> Head(queue)]]
  /\ queue' = Tail(queue)
  /\ UNCHANGED <<boss, task, req, ret, reply, read, dirs, file, report, process>>

\* The pills of wp_finish are behind every task.
TakePill(w) ==
  /\ worker[w].at = "idle"
  /\ boss = "finish" /\ queue = <<>>
  /\ Goes(w, "exited")
  /\ UNCHANGED <<boss, queue, task, req, ret, reply, read, dirs, file, report, process>>

\* sink_start has returned NULL: mtc_do_request_ returns at once.
StartFails(w) ==
  /\ file' = [file EXCEPT ![worker[w].task].state = "refused"]
  /\ worker' = [worker EXCEPT ![w] = Idle]

\* Variant: a directory that another worker has just made is an error.
MakeDirectoryExists(w) ==
  LET d == Dir[worker[w].task] IN
  /\ worker[w].at = "mkdir"
  /\ \/ d \notin dirs /\ dirs' = dirs \cup {d} /\ Goes(w, "fopen") /\ UNCHANGED file
     \/ d \in dirs /\ Goes(w, "idle") /\ UNCHANGED <<dirs, file>>
  /\ UNCHANGED <<boss, queue, task, req, ret, reply, read, report, process>>

\* The loop of mkdir in open_file_; EEXIST, another worker's directory, is fine.
MakeDirectory(w) ==
  LET d == Dir[worker[w].task] IN
  /\ worker[w].at = "mkdir"
  /\ \/ d \notin dirs /\ "mkdir" \in Faults /\ StartFails(w) /\ UNCHANGED dirs
     \/ dirs' = dirs \cup {d} /\ Goes(w, "fopen") /\ UNCHANGED file
  /\ UNCHANGED <<boss, queue, task, req, ret, reply, read, report, process>>

\* fopen in open_file_, then gfc_create and its setters.
OpenFile(w) ==
  LET t == worker[w].task IN
  /\ worker[w].at = "fopen"
  /\ \/ "fopen" \in Faults /\ StartFails(w) /\ UNCHANGED req
     \/ /\ file' = [file EXCEPT ![t] = [state |-> "open", data |-> <<>>]]
        /\ req' = [req EXCEPT ![t] = [NewReq EXCEPT !.memory = "live"]]
        /\ Goes(w, "connect")
  /\ UNCHANGED <<boss, queue, task, ret, reply, read, dirs, report, process>>

\* perform_ has reached EXIT_POINT.
Returns(w, status) ==
  /\ ret' = [ret EXCEPT ![worker[w].task] = status]
  /\ Goes(w, "check")

\* resolve_address_info_, create_and_connect_to_socket_ and send_request_.
Connect(w) ==
  /\ worker[w].at = "connect"
  /\ \/ "connect" \in Faults /\ Returns(w, -1) /\ UNCHANGED reply
     \/ \E r \in Replies :
          /\ reply' = [reply EXCEPT ![worker[w].task] = r]
          /\ Goes(w, "response")
          /\ UNCHANGED ret
  /\ UNCHANGED <<boss, queue, task, req, read, dirs, file, report, process>>

\* The next units of the body, as many of n as fwrite takes: what it returns
\* is not looked at.
Fwrite(t, n) ==
  \E k \in IF "disk" \in Faults THEN 0..n ELSE {n} :
    file' = [file EXCEPT ![t].data = @ \o [i \in 1..k |-> read[t] + i]]

\* write_ with its assert, for the request r of t.
Write(t, r, n) ==
  /\ process' = IF r.bytesReceived + n > r.fileLen THEN "aborted" ELSE process
  /\ Fwrite(t, n)
  /\ req' = [req EXCEPT ![t] = [r EXCEPT !.bytesReceived = @ + n]]

AtMost(a, b) == IF a > b THEN b ELSE a

\* read_response_ up to the end of the header, which the tokenizer takes in any
\* pieces, and the switch on response.status.  With the header may come the
\* first units of the body, the tail; what is more than fileLen is dropped.
ReadResponse(w) ==
  LET t == worker[w].task
      r == reply[t]
  IN
  /\ worker[w].at = "response"
  /\ \/ /\ r.status = "garbage" \/ "recv" \in Faults
        /\ req' = [req EXCEPT ![t].status = "invalid"]
        /\ Returns(w, -1)
        /\ UNCHANGED <<read, file, process>>
     \/ /\ r.status \in Statuses \ {"ok"}
        /\ req' = [req EXCEPT ![t].status = r.status]
        /\ Returns(w, 0)
        /\ UNCHANGED <<read, file, process>>
     \/ /\ r.status = "ok"
        /\ \E tail \in 0..AtMost(Chunk, r.body) :
             /\ Write(t, [req[t] EXCEPT !.status = "ok", !.fileLen = r.size], AtMost(tail, r.size))
             /\ read' = [read EXCEPT ![t] = tail]
        /\ Goes(w, "receive")
        /\ UNCHANGED ret
  /\ UNCHANGED <<boss, queue, task, reply, dirs, report>>

\* Variant: the end of the stream does not end the loop.
ReceiveForever(w) ==
  LET t == worker[w].task
      left == req[t].fileLen - req[t].bytesReceived
  IN
  /\ worker[w].at = "receive"
  /\ \/ left = 0 /\ Returns(w, 0) /\ UNCHANGED <<read, req, file, process>>
     \/ /\ left > 0
        /\ \E n \in 1..AtMost(left, AtMost(Chunk, reply[t].body - read[t])) :
             Write(t, req[t], n) /\ read' = [read EXCEPT ![t] = @ + n]
        /\ UNCHANGED <<worker, ret>>
  /\ UNCHANGED <<boss, queue, task, reply, dirs, report>>

\* Variant: recv is asked for a whole buffer.
ReceiveWholeBuffer(w) ==
  LET t == worker[w].task
      left == req[t].fileLen - req[t].bytesReceived
  IN
  /\ worker[w].at = "receive"
  /\ \/ left <= 0 /\ Returns(w, 0) /\ UNCHANGED <<read, req, file, process>>
     \/ /\ left > 0
        /\ \E n \in 1..AtMost(Chunk, reply[t].body - read[t]) :
             Write(t, req[t], n) /\ read' = [read EXCEPT ![t] = @ + n]
        /\ UNCHANGED <<worker, ret>>
  /\ UNCHANGED <<boss, queue, task, reply, dirs, report>>

\* finish_receiving_, one turn of its loop at a time: at most what is missing
\* is asked for, and a missing unit at the end makes perform_ return -1.
Receive(w) ==
  LET t == worker[w].task
      left == req[t].fileLen - req[t].bytesReceived
  IN
  /\ worker[w].at = "receive"
  /\ \/ left = 0 /\ Returns(w, 0) /\ UNCHANGED <<read, req, file, process>>
     \/ /\ left > 0
        /\ \E n \in 1..AtMost(left, AtMost(Chunk, reply[t].body - read[t])) :
             Write(t, req[t], n) /\ read' = [read EXCEPT ![t] = @ + n]
        /\ UNCHANGED <<worker, ret>>
     \/ /\ left > 0 /\ (read[t] = reply[t].body \/ "recv" \in Faults)
        /\ Returns(w, -1) /\ UNCHANGED <<read, req, file, process>>
  /\ UNCHANGED <<boss, queue, task, reply, dirs, report>>

Report(t, success) ==
  report' = [report EXCEPT ![t] = Append(@, [success  |-> success,
                                             expected |-> req[t].fileLen,
                                             received |-> req[t].bytesReceived])]

\* Variant: only the status is looked at, not what gfc_perform returned.
CheckStatusOnly(w) ==
  LET t == worker[w].task IN
  /\ worker[w].at = "check"
  /\ \/ req[t].status # "ok" /\ Report(t, FALSE) /\ Goes(w, "cancel")
     \/ req[t].status = "ok" /\ Goes(w, "finish") /\ UNCHANGED report
  /\ UNCHANGED <<boss, queue, task, req, ret, reply, read, dirs, file, process>>

\* The test of the return value and of the status, and the report of a failure.
Check(w) ==
  LET t == worker[w].task IN
  /\ worker[w].at = "check"
  /\ \/ (ret[t] < 0 \/ req[t].status # "ok") /\ Report(t, FALSE) /\ Goes(w, "cancel")
     \/ ret[t] = 0 /\ req[t].status = "ok" /\ Goes(w, "finish") /\ UNCHANGED report
  /\ UNCHANGED <<boss, queue, task, req, ret, reply, read, dirs, file, process>>

\* Variant: the file is kept.
CancelKeeps(w) ==
  /\ worker[w].at = "cancel"
  /\ file' = [file EXCEPT ![worker[w].task].state = "closed"]
  /\ worker' = [worker EXCEPT ![w] = Idle]
  /\ UNCHANGED <<boss, queue, task, req, ret, reply, read, dirs, report, process>>

\* sink_cancel closes and removes the file; the request and the task are left.
Cancel(w) ==
  /\ worker[w].at = "cancel"
  /\ file' = [file EXCEPT ![worker[w].task] = [state |-> "removed", data |-> <<>>]]
  /\ worker' = [worker EXCEPT ![w] = Idle]
  /\ UNCHANGED <<boss, queue, task, req, ret, reply, read, dirs, report, process>>

FinishSink(w) ==
  /\ worker[w].at = "finish"
  /\ file' = [file EXCEPT ![worker[w].task].state = "closed"]
  /\ Goes(w, "report")
  /\ UNCHANGED <<boss, queue, task, req, ret, reply, read, dirs, report, process>>

\* The report of a success, gfc_cleanup and mtc_destroy_task_.
ReportSuccess(w) ==
  LET t == worker[w].task IN
  /\ worker[w].at = "report"
  /\ Report(t, TRUE)
  /\ req' = [req EXCEPT ![t].memory = "freed"]
  /\ task' = [task EXCEPT ![t] = "freed"]
  /\ worker' = [worker EXCEPT ![w] = Idle]
  /\ UNCHANGED <<boss, queue, ret, reply, read, dirs, file, process>>

-----------------------------------------------------------------------------
WorkerStep(w) ==
  \/ Take(w) \/ TakePill(w) \/ MakeDirectory(w) \/ OpenFile(w) \/ Connect(w)
  \/ ReadResponse(w) \/ Receive(w) \/ Check(w) \/ Cancel(w) \/ FinishSink(w)
  \/ ReportSuccess(w)

Next ==
  /\ process = "runs"
  /\ \/ \E t \in Tasks : Post(t)
     \/ CallFinish \/ Finish
     \/ \E w \in Workers : WorkerStep(w)

Spec == Init /\ [][Next]_vars

\* Every thread that can run is run, and the server sends its reply and closes.
FairSpec ==
  /\ Spec
  /\ WF_vars(process = "runs" /\ Finish)
  /\ \A w \in Workers : WF_vars(process = "runs" /\ WorkerStep(w))

-----------------------------------------------------------------------------
(* Properties.                                                             *)

Succeeded(t) == \E i \in DOMAIN report[t] : report[t][i].success

\* No server can make the assert of write_ (gfclient.c:220) fail, whatever size
\* it announces and however much it sends; and the state keeps its types.
NoAssertFails == TypeOK /\ process # "aborted"

\* Readme.md:472: file size and contents on the client match those of the
\* server.  A download that is reported as a success is complete and in order
\* on the disk, closed, and reported with its size.
SuccessMeansWholeFile ==
  \A t \in Tasks : Succeeded(t) =>
    /\ reply[t].status = "ok"
    /\ file[t] = [state |-> "closed", data |-> [i \in 1..reply[t].size |-> i]]
    /\ report[t] = << [success |-> TRUE, expected |-> reply[t].size, received |-> reply[t].size] >>

\* gfclient-student.h:84: cancel leaves no side effects.  When mtc_finish has
\* returned, every file is closed and only those of successes are left.
NoPartialFileLeft ==
  boss = "done" =>
    \A t \in Tasks : /\ file[t].state # "open"
                     /\ file[t].state = "closed" => Succeeded(t)

\* gfclient-student.h:48-50: when mtc_finish has returned, every request was
\* completed and reported once, unless the disk refused its file.
EveryRequestReported ==
  boss = "done" =>
    \A t \in Tasks : task[t] # "none" =>
      Len(report[t]) = (IF file[t].state = "refused" THEN 0 ELSE 1)

\* mtc_finish returns, whatever the servers send before they close.
FinishReturns == boss = "finish" ~> boss = "done"
=============================================================================
