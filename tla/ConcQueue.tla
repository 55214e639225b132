------------------------------ MODULE ConcQueue ------------------------------
(***************************************************************************)
(* The concurrent queue of mtgf/gf-student.c: a steque guarded by a mutex, *)
(* with a condition variable notEmpty.  Every action is one step of one    *)
(* thread between two points where another thread may run: a lock, the     *)
(* work under it, an unlock, a notification, a wait.                       *)
(*                                                                         *)
(* A call is begun by one of the Begin operators, which the modules that   *)
(* use the queue take as the steps of their threads; every later step of   *)
(* the call is a disjunct of QueueStep.                                    *)
(***************************************************************************)
EXTENDS Sequences, Naturals, FiniteSets

CONSTANTS
  Threads,    \* the threads that use the queue
  Items,      \* what they store in it (void*)
  Batches,    \* the arguments queue_enqueue_n is given
  NoThread,   \* the owner of a free mutex
  NoItem      \* what a thread holds before its first dequeue

ASSUME ThreadsAssumption == IsFiniteSet(Threads) /\ NoThread \notin Threads
ASSUME ItemsAssumption ==
  /\ NoItem \notin Items
  /\ {"empty", "nonempty"} \cap Items = {}
  /\ Batches \subseteq Seq(Items)

VARIABLES
  base,     \* q->base, as the sequence of the items it holds
  holder,   \* the owner of q->mutex
  pc,       \* pc[t]: where thread t is in the call it is in
  batch,    \* batch[t]: items and n, the arguments of queue_enqueue_n
  pushed,   \* pushed[t]: i, the number of items pushed so far
  ret       \* ret[t]: the value the last dequeue or queue_empty returns

queueVars == <<base, holder, pc, batch, pushed, ret>>

EnqueueAt == {"enq_lock", "enq_push", "enq_unlock", "enq_notify"}
DequeueAt == {"deq_lock", "deq_test", "deq_asleep", "deq_woken", "deq_pop", "deq_unlock"}
EmptyAt == {"emp_lock", "emp_test", "emp_unlock"}
DestroyAt == {"des_lock", "des_drain", "des_unlock", "des_free", "freed"}

\* The points between a lock (or the return of a wait) and the unlock.
Locked == {"enq_push", "enq_unlock", "deq_test", "deq_pop", "deq_unlock",
           "emp_test", "emp_unlock", "des_drain", "des_unlock"}

Points == {"idle"} \cup EnqueueAt \cup DequeueAt \cup EmptyAt \cup DestroyAt

TypeOK ==
  /\ base \in Seq(Items)
  /\ holder \in Threads \cup {NoThread}
  /\ pc \in [Threads -> Points]
  /\ batch \in [Threads -> Seq(Items)]
  /\ pushed \in [Threads -> Nat]
  /\ \A t \in Threads : pushed[t] <= Len(batch[t])
  /\ ret \in [Threads -> Items \cup {NoItem, "empty", "nonempty"}]

\* queue_create: an empty steque, a free mutex and nobody waiting.
QueueInit ==
  /\ base = <<>>
  /\ holder = NoThread
  /\ pc = [t \in Threads |-> "idle"]
  /\ batch = [t \in Threads |-> <<>>]
  /\ pushed = [t \in Threads |-> 0]
  /\ ret = [t \in Threads |-> NoItem]

Goto(t, at) == pc' = [pc EXCEPT ![t] = at]

\* pthread_mutex_lock returns, and the thread goes on at point "at".
Lock(t, at) ==
  /\ holder = NoThread
  /\ holder' = t
  /\ Goto(t, at)

\* pthread_mutex_unlock.
Unlock(t, at) ==
  /\ holder' = NoThread
  /\ Goto(t, at)

-----------------------------------------------------------------------------
(* queue_enqueue_n, and queue_enqueue, which is a batch of one.            *)

\* An empty batch returns at once.
BeginEnqueue(t, items) ==
  /\ pc[t] = "idle"
  /\ IF items = <<>>
       THEN UNCHANGED <<pc, batch, pushed>>
       ELSE /\ Goto(t, "enq_lock")
            /\ batch' = [batch EXCEPT ![t] = items]
            /\ pushed' = [pushed EXCEPT ![t] = 0]
  /\ UNCHANGED <<base, holder, ret>>

EnqueueLock(t) ==
  /\ pc[t] = "enq_lock"
  /\ Lock(t, "enq_push")
  /\ UNCHANGED <<base, batch, pushed, ret>>

\* Variant: steque_push, at the front, for steque_enqueue.
EnqueuePushFront(t) ==
  /\ pc[t] = "enq_push"
  /\ base' = <<batch[t][pushed[t] + 1]>> \o base
  /\ pushed' = [pushed EXCEPT ![t] = @ + 1]
  /\ Goto(t, IF pushed[t] + 1 < Len(batch[t]) THEN "enq_push" ELSE "enq_unlock")
  /\ UNCHANGED <<holder, batch, ret>>

EnqueuePush(t) ==
  /\ pc[t] = "enq_push"
  /\ base' = Append(base, batch[t][pushed[t] + 1])
  /\ pushed' = [pushed EXCEPT ![t] = @ + 1]
  /\ Goto(t, IF pushed[t] + 1 < Len(batch[t]) THEN "enq_push" ELSE "enq_unlock")
  /\ UNCHANGED <<holder, batch, ret>>

EnqueueUnlock(t) ==
  /\ pc[t] = "enq_unlock"
  /\ Unlock(t, "enq_notify")
  /\ UNCHANGED <<base, batch, pushed, ret>>

Asleep == {t \in Threads : pc[t] = "deq_asleep"}

\* pthread_cond_signal: one of the waiting threads, if any, is woken.
Signal(t) ==
  /\ UNCHANGED <<base, holder, batch, pushed, ret>>
  /\ \/ Asleep = {} /\ Goto(t, "idle")
     \/ \E u \in Asleep : pc' = [pc EXCEPT ![t] = "idle", ![u] = "deq_woken"]

\* pthread_cond_broadcast: every waiting thread is woken.
Broadcast(t) ==
  /\ pc' = [u \in Threads |-> IF u = t THEN "idle"
                              ELSE IF u \in Asleep THEN "deq_woken" ELSE pc[u]]
  /\ UNCHANGED <<base, holder, batch, pushed, ret>>

\* Variant: one signal for a batch.
EnqueueNotifyOne(t) == pc[t] = "enq_notify" /\ Signal(t)

\* The notification comes after the unlock: others run between the two.
EnqueueNotify(t) ==
  /\ pc[t] = "enq_notify"
  /\ IF Len(batch[t]) = 1 THEN Signal(t) ELSE Broadcast(t)

-----------------------------------------------------------------------------
(* queue_dequeue.                                                          *)

BeginDequeue(t) ==
  /\ pc[t] = "idle"
  /\ Goto(t, "deq_lock")
  /\ UNCHANGED <<base, holder, batch, pushed, ret>>

DequeueLock(t) ==
  /\ pc[t] = "deq_lock"
  /\ Lock(t, "deq_test")
  /\ UNCHANGED <<base, batch, pushed, ret>>

\* The condition of the while loop.  pthread_cond_wait releases the mutex
\* and goes to sleep in one step.
DequeueTest(t) ==
  /\ pc[t] = "deq_test"
  /\ \/ base # <<>> /\ Goto(t, "deq_pop") /\ UNCHANGED holder
     \/ base = <<>> /\ Unlock(t, "deq_asleep")
  /\ UNCHANGED <<base, batch, pushed, ret>>

\* POSIX allows a wait to end without any notification.
SpuriousWakeup(t) ==
  /\ pc[t] = "deq_asleep"
  /\ Goto(t, "deq_woken")
  /\ UNCHANGED <<base, holder, batch, pushed, ret>>

\* Variant: "if" in place of "while".
DequeueRelockIf(t) ==
  /\ pc[t] = "deq_woken"
  /\ Lock(t, "deq_pop")
  /\ UNCHANGED <<base, batch, pushed, ret>>

\* Variant: the wait returns without the mutex.
DequeueRelockWithout(t) ==
  /\ pc[t] = "deq_woken"
  /\ Goto(t, "deq_test")
  /\ UNCHANGED <<base, holder, batch, pushed, ret>>

\* A woken thread owns the mutex again before pthread_cond_wait returns, and
\* goes back to the condition of the loop.
DequeueRelock(t) ==
  /\ pc[t] = "deq_woken"
  /\ Lock(t, "deq_test")
  /\ UNCHANGED <<base, batch, pushed, ret>>

\* Variant: steque_front for steque_pop.
DequeuePopKeeps(t) ==
  /\ pc[t] = "deq_pop"
  /\ base # <<>>
  /\ ret' = [ret EXCEPT ![t] = Head(base)]
  /\ Goto(t, "deq_unlock")
  /\ UNCHANGED <<base, holder, batch, pushed>>

\* steque_pop.  On an empty steque it ends the process: no step.
DequeuePop(t) ==
  /\ pc[t] = "deq_pop"
  /\ base # <<>>
  /\ ret' = [ret EXCEPT ![t] = Head(base)]
  /\ base' = Tail(base)
  /\ Goto(t, "deq_unlock")
  /\ UNCHANGED <<holder, batch, pushed>>

DequeueUnlock(t) ==
  /\ pc[t] = "deq_unlock"
  /\ Unlock(t, "idle")
  /\ UNCHANGED <<base, batch, pushed, ret>>

-----------------------------------------------------------------------------
(* queue_empty.                                                            *)

BeginEmpty(t) ==
  /\ pc[t] = "idle"
  /\ Goto(t, "emp_lock")
  /\ UNCHANGED <<base, holder, batch, pushed, ret>>

EmptyLock(t) ==
  /\ pc[t] = "emp_lock"
  /\ Lock(t, "emp_test")
  /\ UNCHANGED <<base, batch, pushed, ret>>

EmptyTest(t) ==
  /\ pc[t] = "emp_test"
  /\ ret' = [ret EXCEPT ![t] = IF base = <<>> THEN "empty" ELSE "nonempty"]
  /\ Goto(t, "emp_unlock")
  /\ UNCHANGED <<base, holder, batch, pushed>>

EmptyUnlock(t) ==
  /\ pc[t] = "emp_unlock"
  /\ Unlock(t, "idle")
  /\ UNCHANGED <<base, batch, pushed, ret>>

-----------------------------------------------------------------------------
(* queue_destroy.  Its contract (gf-student.h:36) is that nobody else is in *)
(* a call or begins one; Alone says so, and it is for the caller to see to  *)
(* it.                                                                      *)

Alone(t) == \A u \in Threads \ {t} : pc[u] = "idle"

Usable == \A t \in Threads : pc[t] \notin DestroyAt

BeginDestroy(t) ==
  /\ pc[t] = "idle"
  /\ Goto(t, "des_lock")
  /\ UNCHANGED <<base, holder, batch, pushed, ret>>

DestroyLock(t) ==
  /\ pc[t] = "des_lock"
  /\ Lock(t, "des_drain")
  /\ UNCHANGED <<base, batch, pushed, ret>>

\* steque_destroy pops what is left; the condition variable goes with it.
DestroyDrain(t) ==
  /\ pc[t] = "des_drain"
  /\ base' = <<>>
  /\ Goto(t, "des_unlock")
  /\ UNCHANGED <<holder, batch, pushed, ret>>

DestroyUnlock(t) ==
  /\ pc[t] = "des_unlock"
  /\ Unlock(t, "des_free")
  /\ UNCHANGED <<base, batch, pushed, ret>>

\* pthread_mutex_destroy and free: the queue is gone.
DestroyFree(t) ==
  /\ pc[t] = "des_free"
  /\ Goto(t, "freed")
  /\ UNCHANGED <<base, holder, batch, pushed, ret>>

-----------------------------------------------------------------------------
EnqueueStep(t) ==
  EnqueueLock(t) \/ EnqueuePush(t) \/ EnqueueUnlock(t) \/ EnqueueNotify(t)

DequeueStep(t) ==
  DequeueLock(t) \/ DequeueTest(t) \/ DequeueRelock(t) \/ DequeuePop(t) \/ DequeueUnlock(t)

EmptyStep(t) == EmptyLock(t) \/ EmptyTest(t) \/ EmptyUnlock(t)

DestroyStep(t) == DestroyLock(t) \/ DestroyDrain(t) \/ DestroyUnlock(t) \/ DestroyFree(t)

\* The steps thread t takes by itself inside a call.
QueueStep(t) == EnqueueStep(t) \/ DequeueStep(t) \/ EmptyStep(t) \/ DestroyStep(t)

\* A call that a thread which keeps to the contract of gf-student.h may begin.
Call(t) ==
  /\ Usable
  /\ \/ \E items \in Batches : BeginEnqueue(t, items)
     \/ BeginDequeue(t)
     \/ BeginEmpty(t)
     \/ Alone(t) /\ BeginDestroy(t)

QueueNext == \E t \in Threads : Call(t) \/ QueueStep(t) \/ SpuriousWakeup(t)

\* The queue under any clients that keep to the contract, without a bound.
QueueSpec == QueueInit /\ [][QueueNext]_queueVars

-----------------------------------------------------------------------------
(* Properties.                                                             *)

\* Mutual exclusion: a thread is between a lock and its unlock exactly when it
\* owns q->mutex, the return of pthread_cond_wait included.
MutexOwned == \A t \in Threads : pc[t] \in Locked <=> holder = t

\* A thread about to pop finds an item, even if another dequeue took the one
\* it was notified of: steque_pop never ends the process with an underflow.
PopFindsItem == \A t \in Threads : pc[t] = "deq_pop" => base # <<>>

\* Threads in a dequeue that will test the queue again without a notification.
Awake == {t \in Threads : pc[t] \in {"deq_lock", "deq_test", "deq_woken", "deq_pop"}}

\* Threads that inserted something and have not yet notified anybody of it.
Unnotified ==
  {t \in Threads : pc[t] \in {"enq_push", "enq_unlock", "enq_notify"} /\ pushed[t] > 0}

Signalling == {t \in Unnotified : Len(batch[t]) = 1}

Broadcasting == {t \in Unnotified : Len(batch[t]) > 1}

\* No lost wakeup: when a dequeue sleeps, either a broadcast is coming, or
\* every item in the queue has a thread that is awake or a signal coming for
\* it.  The notification is sent outside the mutex, a spurious wakeup may take
\* the item of another thread, and one signal wakes one thread only.
NoLostWakeup ==
  \/ Asleep = {}
  \/ Broadcasting # {}
  \/ Len(base) <= Cardinality(Awake) + Cardinality(Signalling)

\* The index of the loop of queue_enqueue_n: a thread at the push has an item
\* left, and one that has left the loop has pushed the whole batch.
IndexInRange ==
  \A t \in Threads :
    /\ pc[t] = "enq_lock" => pushed[t] = 0 /\ batch[t] # <<>>
    /\ pc[t] = "enq_push" => pushed[t] < Len(batch[t])
    /\ pc[t] \in {"enq_unlock", "enq_notify"} =>
         pushed[t] = Len(batch[t]) /\ batch[t] # <<>>

\* The inductive invariant of the queue.
QueueInv ==
  /\ TypeOK
  /\ IndexInRange
  /\ MutexOwned
  /\ PopFindsItem
  /\ NoLostWakeup

-----------------------------------------------------------------------------
(* The queue implements FifoQueue.  What the owner of the mutex has pushed *)
(* of an unfinished batch is not there yet for anybody else.               *)

HalfPushed ==
  IF holder \in Threads /\ pc[holder] = "enq_push" THEN pushed[holder] ELSE 0

Phase(t) ==
  CASE pc[t] \in {"enq_lock", "enq_push"} -> "enqueue"
    [] pc[t] \in DequeueAt \ {"deq_unlock"} -> "dequeue"
    [] pc[t] \in {"emp_lock", "emp_test"} -> "empty"
    [] pc[t] \in {"des_lock", "des_drain"} -> "destroy"
    [] pc[t] \in {"enq_unlock", "enq_notify", "deq_unlock", "emp_unlock"} -> "done"
    [] pc[t] \in {"des_unlock", "des_free", "freed"} -> "destroyed"
    [] pc[t] = "idle" -> "idle"

Fifo == INSTANCE FifoQueue WITH
          fifo <- SubSeq(base, 1, Len(base) - HalfPushed),
          phase <- [t \in Threads |-> Phase(t)],
          arg <- batch,
          res <- ret

\* Every step of the queue is a step of FifoQueue or changes nothing there:
\* batches are atomic, the order is first in first out, and nothing is lost
\* or returned twice.
ImplementsFifo == Fifo!FSpec
=============================================================================
