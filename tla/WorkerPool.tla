----------------------------- MODULE WorkerPool -----------------------------
(***************************************************************************)
(* The worker pool of mtgf/gf-student.c over its queue: the boss thread    *)
(* calls wp_start, adds tasks and calls wp_finish; every worker thread     *)
(* runs worker_work_.  The queue is that of ConcQueue, step by step.       *)
(***************************************************************************)
EXTENDS ConcQueue

CONSTANTS
  Boss,         \* the thread that owns the pool
  NumWorkers,   \* numWorkers of wp_start, which asserts it is not 0
  Tasks,        \* the tasks the boss may add, each of them once
  Pill          \* worker_pill_

Workers == 1..NumWorkers

ASSUME PoolAssumption ==
  /\ NumWorkers \in Nat \ {0}
  /\ Boss \notin Workers
  /\ Threads = Workers \cup {Boss}
  /\ Pill \notin Tasks
  /\ Items = Tasks \cup {Pill}

VARIABLES
  boss,      \* where the boss is in its use of the pool
  created,   \* i of the loop of wp_start: the workers created so far
  joined,    \* i of the loop of wp_finish: the workers joined so far
  at,        \* at[w]: where worker w is in worker_work_
  data,      \* data[w]: the worker data of w
  added,     \* history: the tasks in the order they were added
  taken,     \* history: the tasks in the order they were popped
  started,   \* history: the tasks in the order work was called on them
  done       \* history: the tasks work returned from

poolVars == <<boss, created, joined, at, data, added, taken, started, done>>
vars == <<queueVars, poolVars>>

BossAt == {"starting", "adding", "joining", "releasing", "finished"}
WorkerAt == {"none", "loop", "dequeue", "holding", "working", "exited"}

\* The members of a sequence.
Members(s) == {s[i] : i \in DOMAIN s}

PoolTypeOK ==
  /\ TypeOK
  /\ boss \in BossAt
  /\ created \in 0..NumWorkers
  /\ joined \in 0..NumWorkers
  /\ at \in [Workers -> WorkerAt]
  /\ data \in [Workers -> {"none", "live", "destroyed"}]
  /\ added \in Seq(Tasks)
  /\ taken \in Seq(Tasks)
  /\ started \in Seq(Tasks)
  /\ done \subseteq Tasks

Init ==
  /\ QueueInit
  /\ boss = "starting"
  /\ created = 0
  /\ joined = 0
  /\ at = [w \in Workers |-> "none"]
  /\ data = [w \in Workers |-> "none"]
  /\ added = <<>>
  /\ taken = <<>>
  /\ started = <<>>
  /\ done = {}

-----------------------------------------------------------------------------
(* The boss.                                                               *)

\* Variant: the loop runs once too often.
StartWorkerTooMany ==
  /\ boss = "starting"
  /\ created <= NumWorkers
  /\ data' = [data EXCEPT ![created + 1] = "live"]
  /\ at' = [at EXCEPT ![created + 1] = "loop"]
  /\ created' = created + 1
  /\ boss' = IF created = NumWorkers THEN "adding" ELSE "starting"
  /\ UNCHANGED <<queueVars, joined, added, taken, started, done>>

\* One turn of the loop of wp_start: createWorkerData, worker_init_ and
\* pthread_create.  Workers created before run already.
StartWorker ==
  /\ boss = "starting"
  /\ created < NumWorkers
  /\ data' = [data EXCEPT ![created + 1] = "live"]
  /\ at' = [at EXCEPT ![created + 1] = "loop"]
  /\ created' = created + 1
  /\ boss' = IF created + 1 = NumWorkers THEN "adding" ELSE "starting"
  /\ UNCHANGED <<queueVars, joined, added, taken, started, done>>

\* wp_add_tasks, and wp_add_task with a batch of one.
AddTasks ==
  /\ boss = "adding"
  /\ \E tasks \in Batches \cap Seq(Tasks) :
       /\ Members(tasks) \cap Members(added) = {}
       /\ \A i, j \in DOMAIN tasks : tasks[i] = tasks[j] => i = j
       /\ BeginEnqueue(Boss, tasks)
       /\ added' = added \o tasks
  /\ UNCHANGED <<boss, created, joined, at, data, taken, started, done>>

Pills == [i \in 1..NumWorkers |-> Pill]

ASSUME PillsAssumption == Pills \in Batches

\* wp_finish adds a pill for every worker, behind all the tasks.
Finish ==
  /\ boss = "adding"
  /\ BeginEnqueue(Boss, Pills)
  /\ boss' = "joining"
  /\ UNCHANGED <<created, joined, at, data, added, taken, started, done>>

\* Variant: worker data is destroyed without a join.
JoinWithoutWaiting ==
  /\ boss = "joining"
  /\ pc[Boss] = "idle"
  /\ data' = [data EXCEPT ![joined + 1] = "destroyed"]
  /\ joined' = joined + 1
  /\ boss' = IF joined + 1 = NumWorkers THEN "releasing" ELSE "joining"
  /\ UNCHANGED <<queueVars, created, at, added, taken, started, done>>

\* One turn of the loop of wp_finish: pthread_join and destroyWorkerData, once
\* the pills are in.
Join ==
  /\ boss = "joining"
  /\ pc[Boss] = "idle"
  /\ at[joined + 1] = "exited"
  /\ data' = [data EXCEPT ![joined + 1] = "destroyed"]
  /\ joined' = joined + 1
  /\ boss' = IF joined + 1 = NumWorkers THEN "releasing" ELSE "joining"
  /\ UNCHANGED <<queueVars, created, at, added, taken, started, done>>

\* The arrays of the workers are freed, then queue_destroy is called.
Release ==
  /\ boss = "releasing"
  /\ BeginDestroy(Boss)
  /\ UNCHANGED poolVars

\* wp_finish returns.
Finished ==
  /\ boss = "releasing"
  /\ pc[Boss] = "freed"
  /\ boss' = "finished"
  /\ UNCHANGED <<queueVars, created, joined, at, data, added, taken, started, done>>

-----------------------------------------------------------------------------
(* The workers.                                                            *)

WorkerAsk(w) ==
  /\ at[w] = "loop"
  /\ BeginDequeue(w)
  /\ at' = [at EXCEPT ![w] = "dequeue"]
  /\ UNCHANGED <<boss, created, joined, data, added, taken, started, done>>

\* queue_dequeue returned a pill: the thread ends.
WorkerExit(w) ==
  /\ at[w] = "dequeue"
  /\ pc[w] = "idle"
  /\ ret[w] = Pill
  /\ at' = [at EXCEPT ![w] = "exited"]
  /\ UNCHANGED <<queueVars, boss, created, joined, data, added, taken, started, done>>

\* It returned a task, which work is called on later.
WorkerGot(w) ==
  /\ at[w] = "dequeue"
  /\ pc[w] = "idle"
  /\ ret[w] # Pill
  /\ at' = [at EXCEPT ![w] = "holding"]
  /\ UNCHANGED <<queueVars, boss, created, joined, data, added, taken, started, done>>

WorkBegins(w) ==
  /\ at[w] = "holding"
  /\ at' = [at EXCEPT ![w] = "working"]
  /\ started' = Append(started, ret[w])
  /\ UNCHANGED <<queueVars, boss, created, joined, data, added, taken, done>>

WorkEnds(w) ==
  /\ at[w] = "working"
  /\ at' = [at EXCEPT ![w] = "loop"]
  /\ done' = done \cup {ret[w]}
  /\ UNCHANGED <<queueVars, boss, created, joined, data, added, taken, started>>

-----------------------------------------------------------------------------
\* A thread's own steps inside a call of the queue.  A pop is recorded.
InQueue(t) ==
  /\ QueueStep(t)
  /\ taken' = IF pc[t] = "deq_pop" /\ Head(base) # Pill
                THEN Append(taken, Head(base)) ELSE taken
  /\ UNCHANGED <<boss, created, joined, at, data, added, started, done>>

BossStep ==
  StartWorker \/ AddTasks \/ Finish \/ Join \/ Release \/ Finished \/ InQueue(Boss)

WorkerStep(w) ==
  \/ WorkerAsk(w) \/ WorkerExit(w) \/ WorkerGot(w)
  \/ WorkBegins(w) \/ WorkEnds(w) \/ InQueue(w)

Wakeup(w) == SpuriousWakeup(w) /\ UNCHANGED poolVars

Next == BossStep \/ \E w \in Workers : WorkerStep(w) \/ Wakeup(w)

Spec == Init /\ [][Next]_vars

\* Every thread that can run is run; work returns; a thread that waits is not
\* woken for nothing forever.  The owner of the pool calls wp_finish sooner or
\* later: Finish stays enabled between two calls of wp_add_tasks.
FairSpec ==
  /\ Spec
  /\ WF_vars(BossStep)
  /\ \A w \in Workers : WF_vars(WorkerStep(w))
  /\ <>[][~ \E w \in Workers : Wakeup(w)]_vars

-----------------------------------------------------------------------------
(* Properties.                                                             *)

\* The part of the batch in the hands of the boss that is not pushed yet.
Unpushed ==
  IF pc[Boss] \in {"enq_lock", "enq_push"}
    THEN SubSeq(batch[Boss], pushed[Boss] + 1, Len(batch[Boss])) ELSE <<>>

\* What no worker has popped yet, in the order in which it will be popped.
Pending == base \o Unpushed

\* Worker w popped this task and its work has not returned.
Has(w, task) ==
  /\ ret[w] = task
  /\ \/ at[w] \in {"holding", "working"}
     \/ at[w] = "dequeue" /\ pc[w] \in {"deq_unlock", "idle"}

\* gf-student.h:62-64: no task is lost, duplicated or overtaken on its way to a worker,
\* and work is called on each once.  The tasks popped and those pending are, in this
\* order, the tasks that were added, and nothing but pills is behind them; a popped task
\* is in the hands of exactly one worker until it is done; and work has been called on
\* it by that worker only.
EveryTaskOnce ==
  LET Count(holds) == IF holds THEN 1 ELSE 0 IN
  /\ \E n \in 0..Len(Pending) :
       /\ added = taken \o SubSeq(Pending, 1, n)
       /\ \A i \in n+1..Len(Pending) : Pending[i] = Pill
  /\ \A task \in Tasks :
       /\ Cardinality({w \in Workers : Has(w, task)}) + Count(task \in done)
            = Count(task \in Members(taken))
       /\ Cardinality({i \in DOMAIN started : started[i] = task})
            = Cardinality({w \in Workers : at[w] = "working" /\ ret[w] = task})
              + Count(task \in done)

\* No task is behind a pill, where no worker would come for it.
PillsLast ==
  \A i, j \in DOMAIN base : i < j /\ base[i] = Pill => base[j] = Pill

\* The data of a worker is there as long as the worker may use it, and
\* destroyWorkerData runs only for workers whose thread has ended.
DataOutlivesWorker ==
  \A w \in Workers : /\ data[w] = "live" <=> (w <= created /\ w > joined)
                     /\ at[w] \notin {"none", "exited"} => data[w] = "live"

\* When wp_finish starts to free the pool, and when it returns, every task that
\* was added is done and every worker's thread has ended.
FinishedMeansDone ==
  boss \in {"releasing", "finished"} =>
    /\ done = Members(added)
    /\ \A w \in Workers : at[w] = "exited" /\ pc[w] = "idle"

\* The pool keeps to the contract of the queue: queue_destroy is called when
\* no thread is in the queue, and nobody calls the queue after that.
KeepsQueueContract == QueueSpec

\* wp_finish returns: no worker is left asleep for a pill that never comes,
\* and the boss does not wait for ever to join one.
FinishReturns == boss = "joining" ~> boss = "finished"
=============================================================================
