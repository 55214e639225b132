------------------------- MODULE GetfileClientProofs -------------------------
(***************************************************************************)
(* What GetfileClient promises its user, for any number of requests and of *)
(* workers, any server and every fault: the argument follows one request   *)
(* from the queue, through the hands of one worker, to the state in which  *)
(* mtc_do_request_ leaves it.                                              *)
(***************************************************************************)
EXTENDS GetfileClient, SequenceTheorems, TLAPS

\* The first n units of a file.
FirstUnits(n) == [i \in 1..n |-> i]

\* Nobody has touched the memory of t yet.
Fresh(t) ==
  /\ req[t] = NewReq
  /\ read[t] = 0
  /\ file[t] = [state |-> "none", data |-> <<>>]
  /\ report[t] = <<>>

\* On the disk is what was received, as far as the disk takes what fwrite is given.
Stored(t) == "disk" \notin Faults => file[t].data = FirstUnits(req[t].bytesReceived)

\* What the status of the response and the size in its header were kept as.
HeaderKept(t) ==
  /\ req[t].status = "ok"
  /\ reply[t].status = "ok"
  /\ req[t].fileLen = reply[t].size

\* The body has been received to its end.
Complete(t) ==
  /\ HeaderKept(t)
  /\ req[t].bytesReceived = req[t].fileLen
  /\ Stored(t)

\* Where mtc_do_request_ is with t, and what it has done to get there.
StageOK(t, at) ==
  /\ task[t] = "live"
  /\ at \in {"mkdir", "fopen"} => Fresh(t)
  /\ at \notin {"mkdir", "fopen", "report"} => file[t].state = "open"
  /\ at \in {"connect", "response"} =>
       /\ file[t].data = <<>> /\ read[t] = 0
       /\ req[t] = [NewReq EXCEPT !.memory = "live"]
  /\ at = "response" => reply[t] \in Replies
  /\ at = "receive" =>
       /\ HeaderKept(t) /\ Stored(t)
       /\ req[t].bytesReceived <= req[t].fileLen
       /\ req[t].bytesReceived < req[t].fileLen => read[t] = req[t].bytesReceived
  /\ at = "check" /\ ret[t] = 0 /\ req[t].status = "ok" => Complete(t)
  /\ at \in {"finish", "report"} => Complete(t)
  /\ at = "report" => file[t].state = "closed"
  /\ at # "cancel" => report[t] = <<>>
  /\ at = "cancel" => Len(report[t]) = 1 /\ ~report[t][1].success

\* The three ways mtc_do_request_ leaves a request.
Settled(t) ==
  \/ file[t].state = "refused" /\ report[t] = <<>>
  \/ file[t].state = "removed" /\ Len(report[t]) = 1 /\ ~report[t][1].success
  \/ /\ file[t].state = "closed"
     /\ Complete(t)
     /\ report[t] = << [success |-> TRUE, expected |-> reply[t].size, received |-> reply[t].size] >>

Queued(t) == \E i \in 1..Len(queue) : queue[i] = t
Held(t)   == \E w \in Workers : worker[w].task = t

\* A worker has a task just while it runs mtc_do_request_, and nobody shares it.
HandsOK ==
  /\ \A w \in Workers : worker[w].task = NoTask <=> worker[w].at \in {"idle", "exited"}
  /\ \A v, w \in Workers : worker[v].task = worker[w].task /\ worker[v].task # NoTask => v = w

\* The queue holds a task once, and no worker has it.
QueueOK ==
  /\ \A i, j \in 1..Len(queue) : queue[i] = queue[j] => i = j
  /\ \A t \in Tasks : Queued(t) => task[t] = "live" /\ Fresh(t) /\ ~Held(t)

\* No worker leaves before the queue is empty for good.
ExitOK ==
  /\ \A w \in Workers : worker[w].at = "exited" => boss # "posting" /\ queue = <<>>
  /\ boss = "done" => \A w \in Workers : worker[w].at = "exited"

\* What a task is, where neither the queue nor a worker has it.
TasksOK ==
  \A t \in Tasks :
    /\ task[t] = "none" => Fresh(t)
    /\ task[t] # "none" => Queued(t) \/ Held(t) \/ Settled(t)

StagesOK == \A w \in Workers : worker[w].task \in Tasks => StageOK(worker[w].task, worker[w].at)

IInv ==
  /\ TypeOK /\ process = "runs"
  /\ HandsOK /\ QueueOK /\ ExitOK /\ TasksOK /\ StagesOK

-----------------------------------------------------------------------------
(* Lemmas about one request.                                               *)

\* The initial state: nothing is posted and nobody has a task.
LEMMA InitOK == Init => IInv
<1> SUFFICES ASSUME Init PROVE IInv
  OBVIOUS
<1> USE ClientAssumption DEF Init, NewReq, Idle
<1>1. TypeOK
  BY DEF TypeOK, Statuses, Memory
<1>2. HandsOK /\ QueueOK /\ ExitOK /\ StagesOK
  BY DEF HandsOK, QueueOK, ExitOK, StagesOK, Queued
<1>3. TasksOK
  BY DEF TasksOK, Fresh
<1> QED
  BY <1>1, <1>2, <1>3 DEF IInv

\* What mtc_do_request_ has written of the body grows at its end.
LEMMA UnitsGrow ==
  ASSUME NEW b \in Nat, NEW n \in Nat
  PROVE  FirstUnits(b) \o [i \in 1..n |-> b + i] = FirstUnits(b + n)
<1>1. /\ FirstUnits(b) \in Seq(Nat) /\ Len(FirstUnits(b)) = b
      /\ \A i \in 1..b : FirstUnits(b)[i] = i
  BY DEF FirstUnits
<1> DEFINE more == [i \in 1..n |-> b + i]
<1>2. more \in Seq(Nat) /\ Len(more) = n /\ \A i \in 1..n : more[i] = b + i
  OBVIOUS
<1>3. /\ FirstUnits(b + n) \in Seq(Nat) /\ Len(FirstUnits(b + n)) = b + n
      /\ \A i \in 1..(b + n) : FirstUnits(b + n)[i] = i
  BY DEF FirstUnits
<1> HIDE DEF more
<1>4. /\ FirstUnits(b) \o more \in Seq(Nat) /\ Len(FirstUnits(b) \o more) = b + n
      /\ \A i \in 1..(b + n) : (FirstUnits(b) \o more)[i]
                                = IF i <= b THEN FirstUnits(b)[i] ELSE more[i - b]
  <2>1. /\ FirstUnits(b) \o more \in Seq(Nat) /\ Len(FirstUnits(b) \o more) = Len(FirstUnits(b)) + Len(more)
        /\ \A i \in 1..Len(FirstUnits(b)) + Len(more) :
             (FirstUnits(b) \o more)[i] = IF i <= Len(FirstUnits(b)) THEN FirstUnits(b)[i] ELSE more[i - Len(FirstUnits(b))]
    BY <1>1, <1>2, ConcatProperties, Zenon
  <2> QED
    BY <1>1, <1>2, <2>1
<1>5. \A i \in 1..(b + n) : i > b => i - b \in 1..n
  OBVIOUS
<1>6. \A i \in 1..(b + n) : (FirstUnits(b) \o more)[i] = i
  BY <1>1, <1>2, <1>4, <1>5
<1>7. FirstUnits(b) \o more = FirstUnits(b + n)
  BY <1>3, <1>4, <1>6, SeqEqual
<1> QED
  BY <1>7 DEF more

\* A worker that goes on with its request, or leaves it settled, disturbs no
\* other request.
LEMMA OneRequest ==
  ASSUME IInv, NEW w \in Workers, NEW t \in Tasks, worker[w].task = t,
         NEW x,
         worker' = [worker EXCEPT ![w] = x],
         boss' = boss, queue' = queue, process' = "runs", TypeOK',
         \/ x.task = NoTask /\ x.at = "idle" /\ Settled(t)'
         \/ x.task = t /\ x.at \notin {"idle", "exited"} /\ StageOK(t, x.at)',
         task'[t] # "none",
         \A u \in Tasks \ {t} :
           /\ task'[u] = task[u] /\ req'[u] = req[u] /\ ret'[u] = ret[u]
           /\ reply'[u] = reply[u] /\ read'[u] = read[u]
           /\ file'[u] = file[u] /\ report'[u] = report[u]
  PROVE  IInv'
<1> USE ClientAssumption
<1>0. /\ DOMAIN worker = Workers
      /\ worker'[w] = x
      /\ \A v \in Workers \ {w} : worker'[v] = worker[v]
      /\ \A v \in Workers : worker[v].task \in Tasks \cup {NoTask}
      /\ t # NoTask
      /\ worker[w].at \notin {"idle", "exited"}
  BY DEF IInv, TypeOK, HandsOK
<1>1. HandsOK'
  BY <1>0 DEF IInv, HandsOK
<1>2. ~Queued(t)
  BY <1>0 DEF IInv, QueueOK, Held
<1>3. \A u \in Tasks : Queued(u)' <=> Queued(u)
  BY DEF Queued
<1>4. \A u \in Tasks \ {t} :
        /\ Fresh(u)' <=> Fresh(u)
        /\ Settled(u)' <=> Settled(u)
        /\ Held(u)' <=> Held(u)
  <2> TAKE u \in Tasks \ {t}
  <2>1. Fresh(u)' <=> Fresh(u)
    BY DEF Fresh, NewReq
  <2>2. Settled(u)' <=> Settled(u)
    BY DEF Settled, Complete, HeaderKept, Stored
  <2>3. Held(u)' <=> Held(u)
    BY <1>0 DEF Held
  <2> QED
    BY <2>1, <2>2, <2>3
<1>5. QueueOK'
  BY <1>2, <1>3, <1>4 DEF IInv, QueueOK
<1>6. ExitOK'
  BY <1>0 DEF IInv, ExitOK
<1>7. TasksOK'
  <2>1. Held(t)' \/ Settled(t)'
    BY <1>0 DEF Held
  <2> QED
    BY <1>3, <1>4, <2>1 DEF IInv, TasksOK
<1>8. StagesOK'
  <2>1. ASSUME NEW v \in Workers, worker'[v].task \in Tasks
        PROVE  StageOK(worker[v].task, worker[v].at)'
    <3>1. CASE v = w
      <4>1. worker'[v].task = t /\ worker'[v].at = x.at /\ StageOK(t, x.at)'
        BY <1>0, <2>1, <3>1
      <4> QED
        BY <4>1 DEF StageOK
    <3>2. CASE v # w
      <4>1. worker'[v] = worker[v] /\ worker[v].task \in Tasks \ {t}
        BY <1>0, <2>1, <3>2 DEF IInv, HandsOK
      <4>2. StageOK(worker[v].task, worker[v].at)
        BY <4>1 DEF IInv, StagesOK
      <4> QED
        BY <4>1, <4>2 DEF StageOK, Fresh, NewReq, Complete, HeaderKept, Stored
    <3> QED
      BY <3>1, <3>2
  <2> QED
    BY <2>1 DEF StagesOK
<1> QED
  BY <1>1, <1>5, <1>6, <1>7, <1>8 DEF IInv

-----------------------------------------------------------------------------
(* The steps of main.                                                      *)

\* A worker that does not move is where it was, if its request is not touched.
LEMMA StageStays ==
  ASSUME StagesOK, NEW v \in Workers, worker'[v] = worker[v], worker[v].task \in Tasks,
         UNCHANGED <<req, ret, reply, read, file, report>>,
         \A t \in Tasks : task[t] = "live" => task'[t] = "live"
  PROVE  StageOK(worker[v].task, worker[v].at)'
<1>1. PICK t \in Tasks, at \in {worker[v].at} : t = worker[v].task /\ at = worker[v].at
  OBVIOUS
<1>2. StageOK(t, at)
  BY <1>1 DEF StagesOK
<1>3. /\ Fresh(t)' <=> Fresh(t)
      /\ Complete(t)' <=> Complete(t)
      /\ HeaderKept(t)' <=> HeaderKept(t)
      /\ Stored(t)' <=> Stored(t)
  BY DEF Fresh, Complete, HeaderKept, Stored, NewReq
<1>4. StageOK(t, at)'
  BY <1>2, <1>3 DEF StageOK, NewReq
<1>5. worker'[v].task = t /\ worker'[v].at = at
  BY <1>1
<1> QED
  BY <1>4, <1>5 DEF StageOK

\* mtc_process: a task nobody has touched goes to the end of the queue.
LEMMA PostOK ==
  ASSUME IInv, NEW t \in Tasks, Post(t)
  PROVE  IInv'
<1> USE ClientAssumption DEF Post
<1>1. /\ queue \in Seq(Tasks) /\ queue' \in Seq(Tasks)
      /\ Len(queue') = Len(queue) + 1 /\ Len(queue) \in Nat
      /\ \A i \in 1..Len(queue) : queue'[i] = queue[i]
      /\ queue'[Len(queue) + 1] = t
  BY AppendProperties DEF IInv, TypeOK
<1>2. ~Queued(t) /\ Fresh(t) /\ task[t] = "none"
  BY DEF IInv, QueueOK, TasksOK
<1>3. ~Held(t)
  BY <1>2 DEF Held, IInv, StagesOK, StageOK
<1>4. TypeOK'
  BY <1>1 DEF IInv, TypeOK, Memory
<1>5. \A u \in Tasks : /\ Queued(u)' <=> Queued(u) \/ u = t
                       /\ Held(u)' <=> Held(u)
                       /\ Fresh(u)' <=> Fresh(u)
                       /\ Settled(u)' <=> Settled(u)
  <2> TAKE u \in Tasks
  <2>1. Queued(u)' <=> Queued(u) \/ u = t
    BY <1>1 DEF Queued
  <2> QED
    BY <2>1 DEF Held, Fresh, Settled, Complete, HeaderKept, Stored
<1>6. /\ task' \in [Tasks -> Memory] /\ task'[t] = "live"
      /\ \A u \in Tasks \ {t} : task'[u] = task[u]
  BY <1>4 DEF TypeOK, IInv
<1>7. QueueOK'
  <2>1. \A i, j \in 1..Len(queue') : queue'[i] = queue'[j] => i = j
    BY <1>1, <1>2 DEF IInv, QueueOK, Queued
  <2>2. \A u \in Tasks : Queued(u)' => task'[u] = "live" /\ Fresh(u)' /\ ~Held(u)'
    BY <1>2, <1>3, <1>5, <1>6 DEF IInv, QueueOK
  <2> QED
    BY <2>1, <2>2 DEF QueueOK
<1>8. HandsOK' /\ ExitOK'
  BY DEF IInv, HandsOK, ExitOK
<1>9. TasksOK'
  BY <1>5, <1>6 DEF IInv, TasksOK
<1>10. StagesOK'
  <2>1. StagesOK /\ \A u \in Tasks : task[u] = "live" => task'[u] = "live"
    BY <1>2, <1>6 DEF IInv
  <2>2. \A v \in Workers : worker'[v].task \in Tasks => StageOK(worker[v].task, worker[v].at)'
    BY <2>1, StageStays
  <2> QED
    BY <2>2 DEF StagesOK
<1> QED
  BY <1>4, <1>7, <1>8, <1>9, <1>10 DEF IInv

\* A step that leaves every task where it is and as it is.
LEMMA RequestsStay ==
  ASSUME IInv, NEW b \in {"finish", "done"}, boss' = b,
         UNCHANGED <<queue, task, worker, req, ret, reply, read, dirs, file, report, process>>,
         b = "done" => \A w \in Workers : worker[w].at = "exited"
  PROVE  IInv'
<1>1. TypeOK' /\ process' = "runs"
  BY DEF IInv, TypeOK
<1>2. HandsOK' /\ ExitOK'
  BY DEF IInv, HandsOK, ExitOK
<1>3. QueueOK'
  BY DEF IInv, QueueOK, Queued, Held, Fresh
<1>4. TasksOK'
  BY DEF IInv, TasksOK, Queued, Held, Fresh, Settled, Complete, HeaderKept, Stored
<1>5. StagesOK'
  <2>1. StagesOK /\ \A u \in Tasks : task[u] = "live" => task'[u] = "live"
    BY DEF IInv
  <2>2. \A v \in Workers : worker'[v].task \in Tasks => StageOK(worker[v].task, worker[v].at)'
    BY <2>1, StageStays
  <2> QED
    BY <2>2 DEF StagesOK
<1> QED
  BY <1>1, <1>2, <1>3, <1>4, <1>5 DEF IInv

\* mtc_finish is called: nothing is posted any more.
LEMMA CallFinishOK ==
  ASSUME IInv, CallFinish
  PROVE  IInv'
BY RequestsStay DEF CallFinish

\* mtc_finish returns: every worker has left.
LEMMA FinishOK ==
  ASSUME IInv, Finish
  PROVE  IInv'
BY RequestsStay DEF Finish

-----------------------------------------------------------------------------
(* The steps of a worker.                                                  *)

\* A task leaves the queue for the hands of one worker.
LEMMA TakeOK ==
  ASSUME IInv, NEW w \in Workers, Take(w)
  PROVE  IInv'
<1> USE ClientAssumption DEF Take
<1>1. /\ queue \in Seq(Tasks) /\ queue' \in Seq(Tasks)
      /\ Len(queue) \in Nat \ {0} /\ Len(queue') = Len(queue) - 1
      /\ \A i \in 1..Len(queue') : queue'[i] = queue[i + 1]
  BY HeadTailProperties, EmptySeq DEF IInv, TypeOK
<1>2. PICK t \in Tasks : t = queue[1] /\ t = Head(queue)
  BY <1>1, ElementOfSeq
<1>3. Queued(t) /\ task[t] = "live" /\ Fresh(t) /\ ~Held(t)
  BY <1>1, <1>2 DEF Queued, IInv, QueueOK
<1>4. /\ worker' \in [Workers -> [at : {"idle", "mkdir", "fopen", "connect", "response", "receive",
                                        "check", "cancel", "finish", "report", "exited"},
                                  task : Tasks \cup {NoTask}]]
      /\ worker'[w] = [at |-> "mkdir", task |-> t]
      /\ \A v \in Workers \ {w} : worker'[v] = worker[v]
  BY <1>2 DEF IInv, TypeOK
<1>5. TypeOK'
  BY <1>1, <1>4 DEF IInv, TypeOK
<1>6. HandsOK'
  BY <1>3, <1>4 DEF IInv, HandsOK, Held
<1>7. ~Queued(t)' /\ \A u \in Tasks \ {t} : Queued(u)' <=> Queued(u)
  <2>1. \A i \in 1..Len(queue') : i + 1 \in 1..Len(queue) /\ i + 1 # 1
    BY <1>1
  <2>2. ~Queued(t)'
    BY <1>1, <1>2, <2>1 DEF Queued, IInv, QueueOK
  <2>3. ASSUME NEW u \in Tasks \ {t}, Queued(u)
        PROVE  Queued(u)'
    <3>1. PICK i \in 1..Len(queue) : queue[i] = u
      BY <2>3 DEF Queued
    <3>2. i - 1 \in 1..Len(queue') /\ (i - 1) + 1 = i
      BY <1>1, <1>2, <3>1
    <3>3. queue'[i - 1] = u
      BY <1>1, <3>1, <3>2
    <3> QED
      BY <3>2, <3>3 DEF Queued
  <2>4. ASSUME NEW u \in Tasks \ {t}, Queued(u)'
        PROVE  Queued(u)
    BY <1>1, <2>1, <2>4 DEF Queued
  <2> QED
    BY <2>2, <2>3, <2>4
<1>8. \A u \in Tasks : /\ Fresh(u)' <=> Fresh(u)
                       /\ Settled(u)' <=> Settled(u)
                       /\ Held(u)' <=> Held(u) \/ u = t
  <2> TAKE u \in Tasks
  <2>1. Held(u)' <=> Held(u) \/ u = t
    BY <1>4 DEF Held, IInv, HandsOK
  <2> QED
    BY <2>1 DEF Fresh, Settled, Complete, HeaderKept, Stored
<1>9. QueueOK'
  <2>1. \A i, j \in 1..Len(queue') : queue'[i] = queue'[j] => i = j
    <3>1. \A i \in 1..Len(queue') : i + 1 \in 1..Len(queue)
      BY <1>1
    <3>2. SUFFICES ASSUME NEW i \in 1..Len(queue'), NEW j \in 1..Len(queue'), queue'[i] = queue'[j]
                   PROVE  i = j
      OBVIOUS
    <3>3. i + 1 = j + 1
      BY <1>1, <3>1, <3>2 DEF IInv, QueueOK
    <3> QED
      BY <3>3
  <2>2. \A u \in Tasks : Queued(u)' => task'[u] = "live" /\ Fresh(u)' /\ ~Held(u)'
    BY <1>7, <1>8 DEF IInv, QueueOK
  <2> QED
    BY <2>1, <2>2 DEF QueueOK
<1>10. ExitOK'
  BY <1>4 DEF IInv, ExitOK
<1>11. TasksOK'
  BY <1>7, <1>8 DEF IInv, TasksOK
<1>12. StagesOK'
  <2>1. StageOK(t, "mkdir")'
    BY <1>3 DEF StageOK, Fresh, NewReq
  <2>2. ASSUME NEW v \in Workers \ {w}, worker[v].task \in Tasks
        PROVE  StageOK(worker[v].task, worker[v].at)'
    BY <1>4, <2>2, StageStays DEF IInv
  <2>3. StageOK(worker[w].task, worker[w].at)'
    BY <1>4, <2>1 DEF StageOK, Fresh, Complete, HeaderKept, Stored
  <2> QED
    BY <1>4, <2>2, <2>3 DEF StagesOK
<1> QED
  BY <1>5, <1>6, <1>9, <1>10, <1>11, <1>12 DEF IInv

\* A worker that goes on keeps its task.
LEMMA GoesOn ==
  ASSUME TypeOK, NEW w \in Workers, NEW at, Goes(w, at)
  PROVE  worker' = [worker EXCEPT ![w] = [at |-> at, task |-> worker[w].task]]
<1>1. worker[w] = [at |-> worker[w].at, task |-> worker[w].task]
  BY DEF TypeOK
<1>2. [worker[w] EXCEPT !.at = at] = [at |-> at, task |-> worker[w].task]
  BY <1>1
<1> QED
  BY <1>2 DEF Goes

\* A worker that has found a pill has no task.
LEMMA TakePillOK ==
  ASSUME IInv, NEW w \in Workers, TakePill(w)
  PROVE  IInv'
<1> USE ClientAssumption DEF TakePill
<1>0. worker[w].task = NoTask
  BY DEF IInv, HandsOK
<1>1. /\ worker' = [worker EXCEPT ![w] = [at |-> "exited", task |-> NoTask]]
      /\ worker[w].task = NoTask
      /\ worker'[w].at = "exited" /\ worker'[w].task = NoTask
      /\ \A v \in Workers \ {w} : worker'[v] = worker[v]
  BY <1>0, GoesOn DEF IInv, TypeOK
<1>2. TypeOK'
  BY <1>1 DEF IInv, TypeOK
<1>3. HandsOK'
  BY <1>1 DEF IInv, HandsOK
<1>4. ExitOK'
  BY <1>1 DEF IInv, ExitOK
<1>5. \A u \in Tasks : Held(u)' <=> Held(u)
  BY <1>1 DEF Held
<1>6. QueueOK' /\ TasksOK'
  BY <1>5 DEF IInv, QueueOK, TasksOK, Queued, Fresh, Settled, Complete, HeaderKept, Stored
<1>7. StagesOK'
  <2>1. ASSUME NEW v \in Workers, worker'[v].task \in Tasks
        PROVE  StageOK(worker[v].task, worker[v].at)'
    BY <1>1, <2>1, StageStays DEF IInv, HandsOK
  <2> QED
    BY <2>1 DEF StagesOK
<1> QED
  BY <1>2, <1>3, <1>4, <1>6, <1>7 DEF IInv

\* What is known of the request a worker is busy with.
LEMMA AtWork ==
  ASSUME IInv, NEW w \in Workers, worker[w].at \notin {"idle", "exited"}
  PROVE  /\ worker[w].task \in Tasks
         /\ StageOK(worker[w].task, worker[w].at)
BY ClientAssumption DEF IInv, TypeOK, HandsOK, StagesOK

\* What write_ is given is on the disk behind what was, and its assert holds,
\* when it is no more than what is missing.
LEMMA WriteStores ==
  ASSUME TypeOK, process = "runs", NEW t \in Tasks,
         NEW r \in [memory : Memory, status : Statuses, fileLen : Nat, bytesReceived : Nat],
         NEW n \in Nat, Write(t, r, n),
         r.bytesReceived + n <= r.fileLen,
         read[t] = r.bytesReceived,
         "disk" \notin Faults => file[t].data = FirstUnits(r.bytesReceived)
  PROVE  /\ process' = process
         /\ req' = [req EXCEPT ![t] = [r EXCEPT !.bytesReceived = r.bytesReceived + n]]
         /\ file' \in [Tasks -> [state : {"none", "refused", "open", "closed", "removed"}, data : Seq(Nat)]]
         /\ file'[t].state = file[t].state
         /\ \A u \in Tasks \ {t} : file'[u] = file[u]
         /\ Stored(t)'
<1>1. process' = process
  BY DEF Write
<1>2. req' = [req EXCEPT ![t] = [r EXCEPT !.bytesReceived = r.bytesReceived + n]]
  BY DEF Write
<1>3. req'[t].bytesReceived = r.bytesReceived + n
  BY <1>2 DEF TypeOK
<1>4. PICK k \in 0..n :
        /\ file' = [file EXCEPT ![t].data = file[t].data \o [i \in 1..k |-> read[t] + i]]
        /\ "disk" \notin Faults => k = n
  <2>1. Fwrite(t, n) /\ n \in 0..n
    BY DEF Write
  <2>2. CASE "disk" \in Faults
    BY <2>1, <2>2, Zenon DEF Fwrite
  <2>3. CASE "disk" \notin Faults
    BY <2>1, <2>3, Zenon DEF Fwrite
  <2> QED
    BY <2>2, <2>3
<1>5. [i \in 1..k |-> read[t] + i] \in Seq(Nat)
  BY DEF TypeOK
<1>6. file[t].data \o [i \in 1..k |-> read[t] + i] \in Seq(Nat)
  BY <1>5, ConcatProperties DEF TypeOK
<1>7. /\ file' \in [Tasks -> [state : {"none", "refused", "open", "closed", "removed"}, data : Seq(Nat)]]
      /\ file'[t].state = file[t].state
      /\ \A u \in Tasks \ {t} : file'[u] = file[u]
      /\ file'[t].data = file[t].data \o [i \in 1..k |-> read[t] + i]
  BY <1>4, <1>6, ZenonT(60) DEF TypeOK
<1>8. ASSUME "disk" \notin Faults
      PROVE  file'[t].data = FirstUnits(r.bytesReceived + n)
  <2>1. file'[t].data = FirstUnits(r.bytesReceived) \o [i \in 1..n |-> r.bytesReceived + i]
    BY <1>4, <1>7, <1>8
  <2> QED
    BY <2>1, UnitsGrow
<1> QED
  BY <1>1, <1>2, <1>3, <1>7, <1>8 DEF Stored

\* The worker goes on to the next stage of its request.
LEMMA NextStage ==
  ASSUME IInv, NEW w \in Workers, NEW t \in Tasks, worker[w].task = t,
         NEW at, at \notin {"idle", "exited"}, Goes(w, at),
         boss' = boss, queue' = queue, process' = process, TypeOK',
         StageOK(t, at)',
         \A u \in Tasks \ {t} :
           /\ task'[u] = task[u] /\ req'[u] = req[u] /\ ret'[u] = ret[u]
           /\ reply'[u] = reply[u] /\ read'[u] = read[u]
           /\ file'[u] = file[u] /\ report'[u] = report[u]
  PROVE  IInv'
<1> DEFINE x == [at |-> at, task |-> t]
<1>1. worker' = [worker EXCEPT ![w] = x] /\ process' = "runs"
  BY GoesOn DEF IInv
<1>2. x.task = t /\ x.at = at /\ t # NoTask
  BY ClientAssumption
<1>3. task'[t] # "none"
  BY DEF StageOK
<1> HIDE DEF x
<1> QED
  BY <1>1, <1>2, <1>3, OneRequest

\* The worker has done with its request.
LEMMA RequestLeft ==
  ASSUME IInv, NEW w \in Workers, NEW t \in Tasks, worker[w].task = t,
         worker' = [worker EXCEPT ![w] = Idle],
         boss' = boss, queue' = queue, process' = process, TypeOK',
         Settled(t)', task'[t] # "none",
         \A u \in Tasks \ {t} :
           /\ task'[u] = task[u] /\ req'[u] = req[u] /\ ret'[u] = ret[u]
           /\ reply'[u] = reply[u] /\ read'[u] = read[u]
           /\ file'[u] = file[u] /\ report'[u] = report[u]
  PROVE  IInv'
<1>1. Idle.task = NoTask /\ Idle.at = "idle" /\ t # NoTask
  BY ClientAssumption DEF Idle
<1>2. process' = "runs"
  BY DEF IInv
<1> QED
  BY <1>1, <1>2, OneRequest

\* sink_start has returned NULL.
LEMMA StartFailsOK ==
  ASSUME IInv, NEW w \in Workers, worker[w].at \in {"mkdir", "fopen"}, StartFails(w),
         UNCHANGED <<boss, queue, task, req, ret, reply, read, dirs, report, process>>
  PROVE  IInv'
<1>1. PICK t \in Tasks : worker[w].task = t /\ StageOK(t, worker[w].at)
  BY AtWork
<1>2. /\ file' = [file EXCEPT ![t].state = "refused"]
      /\ worker' = [worker EXCEPT ![w] = Idle]
  BY <1>1 DEF StartFails
<1>3. TypeOK'
  BY <1>2 DEF IInv, TypeOK, Idle
<1>4. Settled(t)'
  BY <1>1, <1>2 DEF IInv, TypeOK, Settled, StageOK, Fresh
<1>5. task'[t] # "none"
  BY <1>1 DEF StageOK
<1>6. \A u \in Tasks \ {t} : file'[u] = file[u]
  BY <1>2 DEF IInv, TypeOK
<1> QED
  BY <1>1, <1>2, <1>3, <1>4, <1>5, <1>6, RequestLeft

\* The directory of the local path is made, or sink_start fails.
LEMMA MakeDirectoryOK ==
  ASSUME IInv, NEW w \in Workers, MakeDirectory(w)
  PROVE  IInv'
<1> USE DEF MakeDirectory
<1>1. CASE StartFails(w) /\ UNCHANGED dirs
  BY <1>1, StartFailsOK
<1>2. CASE dirs' = dirs \cup {Dir[worker[w].task]} /\ Goes(w, "fopen") /\ UNCHANGED file
  <2>1. PICK t \in Tasks : worker[w].task = t /\ StageOK(t, "mkdir")
    BY AtWork
  <2>2. worker' = [worker EXCEPT ![w] = [at |-> "fopen", task |-> t]]
    BY <1>2, <2>1, GoesOn DEF IInv
  <2>3. TypeOK'
    BY <1>2, <2>1, <2>2, ClientAssumption DEF IInv, TypeOK
  <2>4. StageOK(t, "fopen")'
    BY <1>2, <2>1 DEF StageOK, Fresh, Complete, HeaderKept, Stored
  <2> QED
    BY <1>2, <2>1, <2>2, <2>3, <2>4, NextStage
<1> QED
  BY <1>1, <1>2

\* The file is opened and the request made, or sink_start fails.
LEMMA OpenFileOK ==
  ASSUME IInv, NEW w \in Workers, OpenFile(w)
  PROVE  IInv'
<1> USE DEF OpenFile
<1>1. CASE StartFails(w) /\ UNCHANGED req
  BY <1>1, StartFailsOK
<1>2. CASE /\ file' = [file EXCEPT ![worker[w].task] = [state |-> "open", data |-> <<>>]]
           /\ req' = [req EXCEPT ![worker[w].task] = [NewReq EXCEPT !.memory = "live"]]
           /\ Goes(w, "connect")
  <2>1. PICK t \in Tasks : worker[w].task = t /\ StageOK(t, "fopen")
    BY AtWork
  <2>2. worker' = [worker EXCEPT ![w] = [at |-> "connect", task |-> t]]
    BY <1>2, <2>1, GoesOn DEF IInv
  <2>3. /\ file' = [file EXCEPT ![t] = [state |-> "open", data |-> <<>>]]
        /\ req' = [req EXCEPT ![t] = [NewReq EXCEPT !.memory = "live"]]
    BY <1>2, <2>1
  <2>4. TypeOK'
    <3>1. [NewReq EXCEPT !.memory = "live"]
            \in [memory : Memory, status : Statuses, fileLen : Nat, bytesReceived : Nat]
      BY DEF NewReq, Memory, Statuses
    <3>2. [state |-> "open", data |-> <<>>]
            \in [state : {"none", "refused", "open", "closed", "removed"}, data : Seq(Nat)]
      BY EmptySeq
    <3> QED
      BY <2>2, <2>3, <3>1, <3>2 DEF IInv, TypeOK
  <2>5. StageOK(t, "connect")'
    BY <2>1, <2>3 DEF IInv, TypeOK, StageOK, Fresh
  <2>6. \A u \in Tasks \ {t} : file'[u] = file[u] /\ req'[u] = req[u]
    BY <2>3 DEF IInv, TypeOK
  <2> QED
    BY <1>2, <2>1, <2>4, <2>5, <2>6, NextStage
<1> QED
  BY <1>1, <1>2

\* The request is sent to a server that will reply, or perform_ fails.
LEMMA ConnectOK ==
  ASSUME IInv, NEW w \in Workers, Connect(w)
  PROVE  IInv'
<1> USE ClientAssumption DEF Connect
<1>1. PICK t \in Tasks : worker[w].task = t /\ StageOK(t, "connect")
  BY AtWork
<1>2. CASE Returns(w, -1) /\ UNCHANGED reply
  <2>1. worker' = [worker EXCEPT ![w] = [at |-> "check", task |-> t]]
    BY <1>1, <1>2, GoesOn DEF IInv, Returns
  <2>2. ret' = [ret EXCEPT ![t] = -1]
    BY <1>1, <1>2 DEF Returns
  <2>3. TypeOK'
    BY <1>2, <2>1, <2>2 DEF IInv, TypeOK
  <2>4. ret'[t] = -1 /\ \A u \in Tasks \ {t} : ret'[u] = ret[u]
    BY <2>2 DEF IInv, TypeOK
  <2>5. StageOK(t, "check")'
    BY <1>1, <2>4 DEF StageOK
  <2> QED
    BY <1>1, <1>2, <2>3, <2>4, <2>5, NextStage DEF Returns
<1>3. ASSUME NEW r \in Replies,
             reply' = [reply EXCEPT ![worker[w].task] = r], Goes(w, "response"), UNCHANGED ret
      PROVE  IInv'
  <2>1. worker' = [worker EXCEPT ![w] = [at |-> "response", task |-> t]]
    BY <1>1, <1>3, GoesOn DEF IInv
  <2>2. TypeOK'
    BY <1>1, <1>3, <2>1 DEF IInv, TypeOK
  <2>3. reply'[t] = r /\ \A u \in Tasks \ {t} : reply'[u] = reply[u]
    BY <1>1, <1>3 DEF IInv, TypeOK
  <2>4. StageOK(t, "response")'
    BY <1>1, <2>3 DEF StageOK
  <2> QED
    BY <1>1, <1>3, <2>1, <2>2, <2>3, <2>4, NextStage
<1> QED
  BY <1>2, <1>3

\* The header is kept and the tail of the body behind it, or perform_ returns.
LEMMA ReadResponseOK ==
  ASSUME IInv, NEW w \in Workers, ReadResponse(w)
  PROVE  IInv'
<1> USE ClientAssumption
<1>0. UNCHANGED <<boss, queue, task, reply, dirs, report>>
  BY DEF ReadResponse
<1>1. PICK t \in Tasks : worker[w].task = t /\ StageOK(t, "response")
  BY AtWork DEF ReadResponse
<1>2. /\ reply[t] \in [status : Statuses \cup {"garbage"}, size : Nat, body : Nat]
      /\ reply[t] \in Replies
      /\ req[t] = [memory |-> "live", status |-> "ok", fileLen |-> 0, bytesReceived |-> 0]
      /\ file[t].data = <<>> /\ read[t] = 0 /\ task[t] = "live"
      /\ file[t].state = "open" /\ report[t] = <<>>
  BY <1>1 DEF StageOK, NewReq
<1>3. ASSUME NEW status \in Statuses, NEW code \in {0, -1}, code = 0 => status # "ok",
             req' = [req EXCEPT ![t].status = status],
             Returns(w, code), UNCHANGED <<read, file, process>>
      PROVE  IInv'
  <2>1. worker' = [worker EXCEPT ![w] = [at |-> "check", task |-> t]]
    BY <1>1, <1>3, GoesOn DEF IInv, Returns
  <2>2. ret' = [ret EXCEPT ![t] = code]
    BY <1>1, <1>3 DEF Returns
  <2>3. TypeOK'
    <3>1. [req[t] EXCEPT !.status = status]
            \in [memory : Memory, status : Statuses, fileLen : Nat, bytesReceived : Nat]
      <4>1. req[t] \in [memory : Memory, status : Statuses, fileLen : Nat, bytesReceived : Nat]
        BY DEF IInv, TypeOK
      <4> QED
        BY <4>1
    <3>2. req' \in [Tasks -> [memory : Memory, status : Statuses, fileLen : Nat, bytesReceived : Nat]]
      BY <1>3, <3>1 DEF IInv, TypeOK
    <3> QED
      BY <1>0, <1>3, <2>1, <2>2, <3>2 DEF IInv, TypeOK
  <2>4. /\ ret'[t] = code /\ req'[t].status = status
        /\ \A u \in Tasks \ {t} : ret'[u] = ret[u] /\ req'[u] = req[u]
    BY <1>3, <2>2 DEF IInv, TypeOK
  <2>5. StageOK(t, "check")'
    BY <1>0, <1>2, <1>3, <2>4 DEF StageOK
  <2> QED
    BY <1>0, <1>1, <1>3, <2>3, <2>4, <2>5, NextStage DEF Returns
<1>4. ASSUME NEW tail \in 0..AtMost(Chunk, reply[t].body), reply[t].status = "ok",
             Write(t, [req[t] EXCEPT !.status = "ok", !.fileLen = reply[t].size],
                   AtMost(tail, reply[t].size)),
             read' = [read EXCEPT ![t] = tail],
             Goes(w, "receive"), UNCHANGED ret
      PROVE  IInv'
  <2> DEFINE r == [memory |-> "live", status |-> "ok", fileLen |-> reply[t].size, bytesReceived |-> 0]
             n == AtMost(tail, reply[t].size)
  <2>1. tail \in Nat /\ n \in Nat /\ n <= reply[t].size /\ (n < reply[t].size => n = tail)
    <3>1. reply[t].body \in Nat /\ reply[t].size \in Nat
      BY <1>2
    <3>2. tail \in Nat
      BY <3>1 DEF AtMost
    <3> QED
      BY <3>1, <3>2 DEF AtMost
  <2>2. [req[t] EXCEPT !.status = "ok", !.fileLen = reply[t].size] = r
    <3>1. req[t] \in [memory : {"live"}, status : {"ok"}, fileLen : {0}, bytesReceived : {0}]
      BY <1>2
    <3>2. [req[t] EXCEPT !.status = "ok", !.fileLen = reply[t].size]
            \in [memory : {"live"}, status : {"ok"}, fileLen : {reply[t].size}, bytesReceived : {0}]
      BY <3>1
    <3>3. \A q \in [memory : {"live"}, status : {"ok"}, fileLen : {reply[t].size}, bytesReceived : {0}] : q = r
      OBVIOUS
    <3> QED
      BY <3>2, <3>3
  <2>3. Write(t, r, n)
    BY <1>4, <2>2
  <2>4. r \in [memory : Memory, status : Statuses, fileLen : Nat, bytesReceived : Nat]
    BY <1>2 DEF Memory, Statuses
  <2>5. <<>> = FirstUnits(0)
    BY DEF FirstUnits
  <2> HIDE DEF r, n
  <2>6. r.bytesReceived = 0 /\ r.fileLen = reply[t].size /\ r.status = "ok"
    BY DEF r
  <2>7. /\ process' = process
        /\ req' = [req EXCEPT ![t] = [r EXCEPT !.bytesReceived = r.bytesReceived + n]]
        /\ file' \in [Tasks -> [state : {"none", "refused", "open", "closed", "removed"}, data : Seq(Nat)]]
        /\ file'[t].state = file[t].state
        /\ \A u \in Tasks \ {t} : file'[u] = file[u]
        /\ Stored(t)'
    <3>1. TypeOK /\ process = "runs"
      BY DEF IInv
    <3> QED
      BY <1>2, <2>1, <2>3, <2>4, <2>5, <2>6, <3>1, WriteStores
  <2>8. worker' = [worker EXCEPT ![w] = [at |-> "receive", task |-> t]]
    BY <1>1, <1>4, GoesOn DEF IInv
  <2>9. TypeOK'
    <3>1. [r EXCEPT !.bytesReceived = r.bytesReceived + n]
            \in [memory : Memory, status : Statuses, fileLen : Nat, bytesReceived : Nat]
      BY <2>1, <2>4
    <3>2. /\ req' \in [Tasks -> [memory : Memory, status : Statuses, fileLen : Nat, bytesReceived : Nat]]
          /\ read' \in [Tasks -> Nat]
      BY <1>4, <2>1, <2>7, <3>1 DEF IInv, TypeOK
    <3>3. worker' \in [Workers -> [at : {"idle", "mkdir", "fopen", "connect", "response", "receive",
                                         "check", "cancel", "finish", "report", "exited"},
                                   task : Tasks \cup {NoTask}]]
      BY <2>8 DEF IInv, TypeOK
    <3> QED
      BY <1>0, <1>4, <2>7, <3>2, <3>3 DEF IInv, TypeOK
  <2>10. /\ req'[t].bytesReceived = n /\ req'[t].fileLen = reply[t].size /\ req'[t].status = "ok"
         /\ read'[t] = tail
         /\ \A u \in Tasks \ {t} : req'[u] = req[u] /\ read'[u] = read[u]
    BY <1>4, <2>1, <2>4, <2>6, <2>7 DEF IInv, TypeOK
  <2>11. StageOK(t, "receive")'
    BY <1>0, <1>2, <1>4, <2>1, <2>7, <2>10 DEF StageOK, HeaderKept
  <2> QED
    BY <1>0, <1>1, <1>4, <2>7, <2>9, <2>10, <2>11, NextStage
<1>5. CASE /\ req' = [req EXCEPT ![t].status = "invalid"]
           /\ Returns(w, -1) /\ UNCHANGED <<read, file, process>>
  BY <1>3, <1>5 DEF Statuses
<1>6. CASE /\ reply[t].status \in Statuses \ {"ok"}
           /\ req' = [req EXCEPT ![t].status = reply[t].status]
           /\ Returns(w, 0) /\ UNCHANGED <<read, file, process>>
  BY <1>3, <1>6
<1> QED
  BY <1>1, <1>4, <1>5, <1>6 DEF ReadResponse

\* One turn of finish_receiving_: at most what is missing is read.
LEMMA ReceiveOK ==
  ASSUME IInv, NEW w \in Workers, Receive(w)
  PROVE  IInv'
<1> USE ClientAssumption
<1>0. UNCHANGED <<boss, queue, task, reply, dirs, report>>
  BY DEF Receive
<1>1. PICK t \in Tasks : worker[w].task = t /\ StageOK(t, "receive")
  BY AtWork DEF Receive
<1>2. /\ req[t] \in [memory : Memory, status : Statuses, fileLen : Nat, bytesReceived : Nat]
      /\ task[t] = "live" /\ file[t].state = "open" /\ report[t] = <<>>
      /\ HeaderKept(t) /\ Stored(t)
      /\ req[t].bytesReceived <= req[t].fileLen
      /\ req[t].bytesReceived < req[t].fileLen => read[t] = req[t].bytesReceived
      /\ read[t] \in Nat
  BY <1>1 DEF StageOK, IInv, TypeOK
<1> DEFINE left == req[t].fileLen - req[t].bytesReceived
<1>3. left \in Nat
  BY <1>2
<1>4. ASSUME NEW code \in {0, -1}, code = 0 => left = 0,
             Returns(w, code), UNCHANGED <<read, req, file, process>>
      PROVE  IInv'
  <2>1. ret' = [ret EXCEPT ![t] = code] /\ Goes(w, "check")
    BY <1>1, <1>4 DEF Returns
  <2>2. worker' = [worker EXCEPT ![w] = [at |-> "check", task |-> t]]
    BY <1>1, <2>1, GoesOn DEF IInv
  <2>3. TypeOK'
    BY <1>0, <1>4, <2>1, <2>2 DEF IInv, TypeOK
  <2>4. ret'[t] = code /\ \A u \in Tasks \ {t} : ret'[u] = ret[u]
    BY <2>1 DEF IInv, TypeOK
  <2>5. code = 0 => req[t].bytesReceived = req[t].fileLen
    BY <1>2, <1>4
  <2>6. StageOK(t, "check")'
    BY <1>0, <1>2, <1>4, <2>4, <2>5 DEF StageOK, Complete, HeaderKept, Stored
  <2> QED
    BY <1>0, <1>1, <1>4, <2>1, <2>3, <2>4, <2>6, NextStage
<1>5. ASSUME left > 0,
             NEW n \in 1..AtMost(left, AtMost(Chunk, reply[t].body - read[t])),
             Write(t, req[t], n), read' = [read EXCEPT ![t] = read[t] + n],
             UNCHANGED <<worker, ret>>
      PROVE  IInv'
  <2>1. n \in Nat /\ n <= left
    <3>1. reply[t].body \in Int
      BY DEF IInv, TypeOK
    <3> QED
      BY <1>2, <1>3, <3>1 DEF AtMost
  <2>2. req[t].bytesReceived + n <= req[t].fileLen /\ read[t] = req[t].bytesReceived
    BY <1>2, <1>5, <2>1
  <2>3. /\ process' = process
        /\ req' = [req EXCEPT ![t] = [req[t] EXCEPT !.bytesReceived = req[t].bytesReceived + n]]
        /\ file' \in [Tasks -> [state : {"none", "refused", "open", "closed", "removed"}, data : Seq(Nat)]]
        /\ file'[t].state = file[t].state
        /\ \A u \in Tasks \ {t} : file'[u] = file[u]
        /\ Stored(t)'
    <3>1. TypeOK /\ process = "runs"
      BY DEF IInv
    <3>2. "disk" \notin Faults => file[t].data = FirstUnits(req[t].bytesReceived)
      BY <1>2 DEF Stored
    <3> QED
      BY <1>2, <1>5, <2>1, <2>2, <3>1, <3>2, WriteStores
  <2>4. [req[t] EXCEPT !.bytesReceived = req[t].bytesReceived + n]
          \in [memory : Memory, status : Statuses, fileLen : Nat, bytesReceived : Nat]
    BY <1>2, <2>1
  <2>5. /\ req' \in [Tasks -> [memory : Memory, status : Statuses, fileLen : Nat, bytesReceived : Nat]]
        /\ read' \in [Tasks -> Nat]
    BY <1>2, <1>5, <2>1, <2>3, <2>4 DEF IInv, TypeOK
  <2>6. TypeOK'
    BY <1>0, <1>5, <2>3, <2>5 DEF IInv, TypeOK
  <2>7. /\ req'[t].bytesReceived = req[t].bytesReceived + n /\ read'[t] = read[t] + n
        /\ req'[t].fileLen = req[t].fileLen /\ req'[t].status = req[t].status
        /\ \A u \in Tasks \ {t} : req'[u] = req[u] /\ read'[u] = read[u]
    BY <1>2, <1>5, <2>3 DEF IInv, TypeOK
  <2>8. StageOK(t, "receive")'
    <3>1. HeaderKept(t)'
      BY <1>0, <1>2, <2>7 DEF HeaderKept
    <3> QED
      BY <1>0, <1>2, <2>2, <2>3, <2>7, <3>1 DEF StageOK
  <2>9. Goes(w, "receive")
    <3>1. worker[w].at = "receive" /\ worker[w] = [at |-> "receive", task |-> t]
      BY <1>1 DEF Receive, IInv, TypeOK
    <3>2. [worker[w] EXCEPT !.at = "receive"] = worker[w]
      BY <3>1
    <3>3. [worker EXCEPT ![w] = worker[w]] = worker
      BY DEF IInv, TypeOK
    <3> QED
      BY <1>5, <3>2, <3>3 DEF Goes
  <2> QED
    BY <1>0, <1>1, <1>5, <2>3, <2>6, <2>7, <2>8, <2>9, NextStage
<1>6. CASE left = 0 /\ Returns(w, 0) /\ UNCHANGED <<read, req, file, process>>
  BY <1>4, <1>6
<1>7. CASE Returns(w, -1) /\ UNCHANGED <<read, req, file, process>>
  BY <1>4, <1>7
<1> QED
  BY <1>1, <1>5, <1>6, <1>7 DEF Receive

\* What is told to reportFcn about t is told at the end of its reports.
LEMMA ReportAppends ==
  ASSUME TypeOK, NEW t \in Tasks, report[t] = <<>>, NEW success \in BOOLEAN, Report(t, success)
  PROVE  /\ report' \in [Tasks -> Seq([success : BOOLEAN, expected : Nat, received : Nat])]
         /\ report'[t] = << [success  |-> success,
                             expected |-> req[t].fileLen,
                             received |-> req[t].bytesReceived] >>
         /\ \A u \in Tasks \ {t} : report'[u] = report[u]
<1> DEFINE e == [success |-> success, expected |-> req[t].fileLen, received |-> req[t].bytesReceived]
<1>1. e \in [success : BOOLEAN, expected : Nat, received : Nat]
  BY DEF TypeOK
<1>2. report' = [report EXCEPT ![t] = Append(report[t], e)]
  BY DEF Report
<1> HIDE DEF e
<1>3. Append(report[t], e) = <<e>>
  OBVIOUS
<1>4. <<e>> \in Seq([success : BOOLEAN, expected : Nat, received : Nat])
  BY <1>1
<1>5. /\ report' \in [Tasks -> Seq([success : BOOLEAN, expected : Nat, received : Nat])]
      /\ report'[t] = <<e>>
      /\ \A u \in Tasks \ {t} : report'[u] = report[u]
  BY <1>2, <1>3, <1>4 DEF TypeOK
<1> QED
  BY <1>5 DEF e

\* A failure is reported; what is finished without a report is complete.
LEMMA CheckOK ==
  ASSUME IInv, NEW w \in Workers, Check(w)
  PROVE  IInv'
<1> USE ClientAssumption
<1>0. UNCHANGED <<boss, queue, task, req, ret, reply, read, dirs, file, process>>
  BY DEF Check
<1>1. PICK t \in Tasks : worker[w].task = t /\ StageOK(t, "check")
  BY AtWork DEF Check
<1>2. CASE Report(t, FALSE) /\ Goes(w, "cancel")
  <2>1. /\ report' \in [Tasks -> Seq([success : BOOLEAN, expected : Nat, received : Nat])]
        /\ report'[t] = << [success  |-> FALSE,
                            expected |-> req[t].fileLen,
                            received |-> req[t].bytesReceived] >>
        /\ \A u \in Tasks \ {t} : report'[u] = report[u]
    BY <1>1, <1>2, ReportAppends DEF IInv, StageOK
  <2>2. worker' = [worker EXCEPT ![w] = [at |-> "cancel", task |-> t]]
    BY <1>1, <1>2, GoesOn DEF IInv
  <2>3. TypeOK'
    BY <1>0, <2>1, <2>2 DEF IInv, TypeOK
  <2>4. Len(report'[t]) = 1 /\ ~report'[t][1].success
    BY <2>1
  <2>5. StageOK(t, "cancel")'
    BY <1>0, <1>1, <2>4 DEF StageOK
  <2> QED
    BY <1>0, <1>1, <1>2, <2>1, <2>3, <2>5, NextStage
<1>3. CASE ret[t] = 0 /\ req[t].status = "ok" /\ Goes(w, "finish") /\ UNCHANGED report
  <2>1. worker' = [worker EXCEPT ![w] = [at |-> "finish", task |-> t]]
    BY <1>1, <1>3, GoesOn DEF IInv
  <2>2. TypeOK'
    BY <1>0, <1>3, <2>1 DEF IInv, TypeOK
  <2>3. StageOK(t, "finish")'
    BY <1>0, <1>1, <1>3 DEF StageOK, Complete, HeaderKept, Stored
  <2> QED
    BY <1>0, <1>1, <1>3, <2>2, <2>3, NextStage
<1> QED
  BY <1>1, <1>2, <1>3 DEF Check

\* sink_cancel leaves a failure that was reported once, and no file.
LEMMA CancelOK ==
  ASSUME IInv, NEW w \in Workers, Cancel(w)
  PROVE  IInv'
<1>0. UNCHANGED <<boss, queue, task, req, ret, reply, read, dirs, report, process>>
  BY DEF Cancel
<1>1. PICK t \in Tasks : worker[w].task = t /\ StageOK(t, "cancel")
  BY AtWork DEF Cancel
<1>2. /\ file' = [file EXCEPT ![t] = [state |-> "removed", data |-> <<>>]]
      /\ worker' = [worker EXCEPT ![w] = Idle]
  BY <1>1 DEF Cancel
<1>3. [state |-> "removed", data |-> <<>>]
        \in [state : {"none", "refused", "open", "closed", "removed"}, data : Seq(Nat)]
  BY EmptySeq
<1>4. TypeOK'
  BY <1>0, <1>2, <1>3 DEF IInv, TypeOK, Idle
<1>5. file'[t].state = "removed" /\ \A u \in Tasks \ {t} : file'[u] = file[u]
  BY <1>2 DEF IInv, TypeOK
<1>6. Settled(t)' /\ task'[t] # "none"
  BY <1>0, <1>1, <1>5 DEF Settled, StageOK
<1> QED
  BY <1>0, <1>1, <1>2, <1>4, <1>5, <1>6, RequestLeft

\* sink_finish closes the complete file.
LEMMA FinishSinkOK ==
  ASSUME IInv, NEW w \in Workers, FinishSink(w)
  PROVE  IInv'
<1>0. UNCHANGED <<boss, queue, task, req, ret, reply, read, dirs, report, process>>
  BY DEF FinishSink
<1>1. PICK t \in Tasks : worker[w].task = t /\ StageOK(t, "finish")
  BY AtWork DEF FinishSink
<1>2. file' = [file EXCEPT ![t].state = "closed"] /\ Goes(w, "report")
  BY <1>1 DEF FinishSink
<1>3. worker' = [worker EXCEPT ![w] = [at |-> "report", task |-> t]]
  BY <1>1, <1>2, GoesOn DEF IInv
<1>4. TypeOK'
  BY <1>0, <1>2, <1>3, ClientAssumption DEF IInv, TypeOK
<1>5. /\ file'[t].state = "closed" /\ file'[t].data = file[t].data
      /\ \A u \in Tasks \ {t} : file'[u] = file[u]
  BY <1>2 DEF IInv, TypeOK
<1>6. StageOK(t, "report")'
  BY <1>0, <1>1, <1>5 DEF StageOK, Complete, HeaderKept, Stored
<1> QED
  BY <1>0, <1>1, <1>2, <1>4, <1>5, <1>6, NextStage

\* The success is reported with the size, and the memory freed.
LEMMA ReportSuccessOK ==
  ASSUME IInv, NEW w \in Workers, ReportSuccess(w)
  PROVE  IInv'
<1>0. UNCHANGED <<boss, queue, ret, reply, read, dirs, file, process>>
  BY DEF ReportSuccess
<1>1. PICK t \in Tasks : worker[w].task = t /\ StageOK(t, "report")
  BY AtWork DEF ReportSuccess
<1>2. /\ Report(t, TRUE)
      /\ req' = [req EXCEPT ![t].memory = "freed"]
      /\ task' = [task EXCEPT ![t] = "freed"]
      /\ worker' = [worker EXCEPT ![w] = Idle]
  BY <1>1 DEF ReportSuccess
<1>3. /\ report' \in [Tasks -> Seq([success : BOOLEAN, expected : Nat, received : Nat])]
      /\ report'[t] = << [success  |-> TRUE,
                          expected |-> req[t].fileLen,
                          received |-> req[t].bytesReceived] >>
      /\ \A u \in Tasks \ {t} : report'[u] = report[u]
  BY <1>1, <1>2, ReportAppends DEF IInv, StageOK
<1>4. req' \in [Tasks -> [memory : Memory, status : Statuses, fileLen : Nat, bytesReceived : Nat]]
  <2>1. [req[t] EXCEPT !.memory = "freed"]
          \in [memory : Memory, status : Statuses, fileLen : Nat, bytesReceived : Nat]
    <3>1. req[t] \in [memory : Memory, status : Statuses, fileLen : Nat, bytesReceived : Nat]
      BY DEF IInv, TypeOK
    <3> QED
      BY <3>1 DEF Memory
  <2> QED
    BY <1>2, <2>1 DEF IInv, TypeOK
<1>5. TypeOK'
  BY <1>0, <1>2, <1>3, <1>4 DEF IInv, TypeOK, Idle, Memory
<1>6. /\ task'[t] = "freed"
      /\ req'[t].status = req[t].status /\ req'[t].fileLen = req[t].fileLen
      /\ req'[t].bytesReceived = req[t].bytesReceived
      /\ \A u \in Tasks \ {t} : task'[u] = task[u] /\ req'[u] = req[u]
  BY <1>2 DEF IInv, TypeOK
<1>7. Settled(t)'
  <2>1. Complete(t) /\ file[t].state = "closed"
    BY <1>1 DEF StageOK
  <2>2. Complete(t)' /\ file'[t].state = "closed"
    BY <1>0, <1>6, <2>1 DEF Complete, HeaderKept, Stored
  <2>3. req[t].fileLen = reply'[t].size /\ req[t].bytesReceived = reply'[t].size
    BY <1>0, <2>1 DEF Complete, HeaderKept
  <2>4. report'[t] = << [success |-> TRUE, expected |-> reply'[t].size, received |-> reply'[t].size] >>
    BY <1>3, <2>3, Zenon
  <2> QED
    BY <2>2, <2>4 DEF Settled
<1> QED
  BY <1>0, <1>1, <1>2, <1>3, <1>5, <1>6, <1>7, RequestLeft

-----------------------------------------------------------------------------
(* The theorems.                                                           *)

\* The invariant holds: whatever the servers send and however the workers take
\* turns, each request is where mtc_do_request_ has brought it.
THEOREM ClientInvariant == Spec => []IInv
<1>1. ASSUME IInv, [Next]_vars
      PROVE  IInv'
  <2>1. CASE UNCHANGED vars
    <3>1. TypeOK' /\ process' = "runs"
      BY <1>1, <2>1 DEF vars, IInv, TypeOK
    <3>2. HandsOK' /\ ExitOK' /\ QueueOK'
      BY <1>1, <2>1 DEF vars, IInv, HandsOK, ExitOK, QueueOK, Queued, Held, Fresh
    <3>3. TasksOK'
      BY <1>1, <2>1 DEF vars, IInv, TasksOK, Queued, Held, Fresh, Settled, Complete, HeaderKept, Stored
    <3>4. StagesOK'
      <4>1. ASSUME NEW v \in Workers, worker'[v].task \in Tasks
            PROVE  StageOK(worker[v].task, worker[v].at)'
        BY <1>1, <2>1, <4>1, StageStays DEF vars, IInv
      <4> QED
        BY <4>1 DEF StagesOK
    <3> QED
      BY <3>1, <3>2, <3>3, <3>4 DEF IInv
  <2>2. CASE \E t \in Tasks : Post(t)
    BY <1>1, <2>2, PostOK
  <2>3. CASE CallFinish \/ Finish
    BY <1>1, <2>3, CallFinishOK, FinishOK
  <2>4. CASE \E w \in Workers : WorkerStep(w)
    <3>1. PICK w \in Workers : WorkerStep(w)
      BY <2>4
    <3> QED
      BY <1>1, <3>1, TakeOK, TakePillOK, MakeDirectoryOK, OpenFileOK, ConnectOK, ReadResponseOK,
         ReceiveOK, CheckOK, CancelOK, FinishSinkOK, ReportSuccessOK DEF WorkerStep
  <2> QED
    BY <1>1, <2>1, <2>2, <2>3, <2>4 DEF Next
<1> QED
  BY <1>1, InitOK, PTL DEF Spec

\* The assert of write_ never fails: no header and no body, of whatever size and
\* in whatever pieces, makes gfc_perform count more than the size announced.
THEOREM ClientNoAssertFails == Spec => []NoAssertFails
<1>1. IInv => NoAssertFails
  BY DEF IInv, NoAssertFails
<1> QED
  BY <1>1, ClientInvariant, PTL

\* What is reported as a success is the whole file, as far as fwrite does not fail.
THEOREM ClientSuccessMeansWholeFile ==
  ASSUME "disk" \notin Faults
  PROVE  Spec => []SuccessMeansWholeFile
<1>1. ASSUME IInv
      PROVE  SuccessMeansWholeFile
  <2> SUFFICES ASSUME NEW t \in Tasks, Succeeded(t)
               PROVE  /\ reply[t].status = "ok"
                      /\ file[t] = [state |-> "closed", data |-> [i \in 1..reply[t].size |-> i]]
                      /\ report[t] = << [success |-> TRUE, expected |-> reply[t].size,
                                         received |-> reply[t].size] >>
    BY DEF SuccessMeansWholeFile
  <2>1. PICK i \in DOMAIN report[t] : report[t][i].success
    BY DEF Succeeded
  <2>2. report[t] # <<>> /\ ~(Len(report[t]) = 1 /\ ~report[t][1].success)
    BY <1>1, <2>1 DEF IInv, TypeOK
  <2>3. ~Fresh(t) /\ ~Queued(t)
    BY <1>1, <2>2 DEF Fresh, IInv, QueueOK
  <2>4. ~Held(t)
    BY <1>1, <2>2 DEF Held, IInv, StagesOK, StageOK
  <2>5. Settled(t)
    BY <1>1, <2>3, <2>4 DEF IInv, TasksOK
  <2>6. /\ file[t].state = "closed" /\ Complete(t)
        /\ report[t] = << [success |-> TRUE, expected |-> reply[t].size,
                           received |-> reply[t].size] >>
    BY <2>2, <2>5 DEF Settled
  <2>7. reply[t].status = "ok" /\ file[t].data = FirstUnits(reply[t].size)
    BY <2>6 DEF Complete, HeaderKept, Stored
  <2>8. file[t] = [state |-> "closed", data |-> FirstUnits(reply[t].size)]
    BY <1>1, <2>6, <2>7 DEF IInv, TypeOK
  <2> QED
    BY <2>6, <2>7, <2>8 DEF FirstUnits
<1> QED
  BY <1>1, ClientInvariant, PTL

\* When mtc_finish has returned no file of a failed download is left, and every
\* file is closed.
THEOREM ClientNoPartialFileLeft == Spec => []NoPartialFileLeft
<1>1. ASSUME IInv
      PROVE  NoPartialFileLeft
  <2> SUFFICES ASSUME boss = "done", NEW t \in Tasks
               PROVE  file[t].state # "open" /\ (file[t].state = "closed" => Succeeded(t))
    BY DEF NoPartialFileLeft
  <2>1. ~Held(t)
    BY <1>1, ClientAssumption DEF Held, IInv, HandsOK, ExitOK
  <2>2. Fresh(t) \/ Settled(t)
    BY <1>1, <2>1 DEF IInv, TasksOK, QueueOK
  <2>3. CASE Fresh(t)
    BY <2>3 DEF Fresh
  <2>4. CASE Settled(t)
    <3>1. CASE report[t] = << [success |-> TRUE, expected |-> reply[t].size,
                               received |-> reply[t].size] >>
      <4>1. 1 \in DOMAIN report[t] /\ report[t][1].success
        BY <3>1
      <4> QED
        BY <2>4, <4>1 DEF Settled, Succeeded
    <3>2. CASE file[t].state \in {"refused", "removed"}
      BY <3>2
    <3> QED
      BY <2>4, <3>1, <3>2 DEF Settled
  <2> QED
    BY <2>2, <2>3, <2>4
<1> QED
  BY <1>1, ClientInvariant, PTL

\* With a worker in the pool, every request that was posted has been reported
\* once when mtc_finish has returned, but those whose file could not be opened.
THEOREM ClientEveryRequestReported ==
  ASSUME Workers # {}
  PROVE  Spec => []EveryRequestReported
<1>1. ASSUME IInv
      PROVE  EveryRequestReported
  <2> SUFFICES ASSUME boss = "done", NEW t \in Tasks, task[t] # "none"
               PROVE  Len(report[t]) = (IF file[t].state = "refused" THEN 0 ELSE 1)
    BY DEF EveryRequestReported
  <2>1. PICK w \in Workers : worker[w].at = "exited"
    BY <1>1 DEF IInv, ExitOK
  <2>2. queue = <<>>
    BY <1>1, <2>1 DEF IInv, ExitOK
  <2>3. ~Queued(t)
    BY <2>2 DEF Queued
  <2>4. ~Held(t)
    BY <1>1, ClientAssumption DEF Held, IInv, HandsOK, ExitOK
  <2>5. Settled(t)
    BY <1>1, <2>3, <2>4 DEF IInv, TasksOK
  <2>6. Len(<< [success |-> TRUE, expected |-> reply[t].size, received |-> reply[t].size] >>) = 1
    OBVIOUS
  <2>7. Len(<<>>) = 0
    OBVIOUS
  <2> QED
    BY <2>5, <2>6, <2>7 DEF Settled
<1> QED
  BY <1>1, ClientInvariant, PTL
=============================================================================
