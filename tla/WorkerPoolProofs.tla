-------------------------- MODULE WorkerPoolProofs --------------------------
(***************************************************************************)
(* Proofs about the queue and the pool built on it.  The first part is     *)
(* about the queue under any clients that keep to its contract: its        *)
(* invariant, and that it implements FifoQueue.  The second is about the   *)
(* pool: it keeps to that contract, so that what is proved of the queue    *)
(* holds in the pool; when wp_finish returns, every task is done and every *)
(* thread has ended; and every task is done once, in the order of the      *)
(* queue.  The last is about the linked list below the queue: it is the    *)
(* sequence that the queue takes it for.                                   *)
(***************************************************************************)
EXTENDS WorkerPool, Steque, SequenceTheorems, FiniteSetTheorems, TLAPS

-----------------------------------------------------------------------------
(* Types, and the index of the loop of queue_enqueue_n.                    *)

\* queue_create makes a queue whose fields have their types.
LEMMA TypeInit == QueueInit => TypeOK /\ IndexInRange
BY DEF QueueInit, TypeOK, IndexInRange, Points

\* Every step keeps the types, and the index of the loop of queue_enqueue_n
\* within its batch.
LEMMA TypeStep ==
  TypeOK /\ IndexInRange /\ [QueueNext]_queueVars => TypeOK' /\ IndexInRange'
<1> SUFFICES ASSUME TypeOK, IndexInRange, [QueueNext]_queueVars
             PROVE  TypeOK' /\ IndexInRange'
  OBVIOUS
<1> DEFINE Good == TypeOK' /\ IndexInRange'
<1> USE DEF TypeOK, IndexInRange, Goto, Lock, Unlock
<1> /\ EnqueueAt \subseteq Points /\ DequeueAt \subseteq Points
    /\ EmptyAt \subseteq Points /\ DestroyAt \subseteq Points
    /\ "idle" \in Points
  BY DEF Points
<1>1. ASSUME NEW t \in Threads, NEW items \in Batches, BeginEnqueue(t, items)
      PROVE  Good
  <2>1. CASE items = <<>>
    BY <1>1, <2>1 DEF BeginEnqueue
  <2>2. CASE items # <<>>
    <3>1. items \in Seq(Items)
      BY ItemsAssumption
    <3>2. /\ pc' = [pc EXCEPT ![t] = "enq_lock"]
          /\ batch' = [batch EXCEPT ![t] = items]
          /\ pushed' = [pushed EXCEPT ![t] = 0]
          /\ UNCHANGED <<base, holder, ret>>
      BY <1>1, <2>2 DEF BeginEnqueue
    <3>3. \A u \in Threads : pushed'[u] <= Len(batch'[u])
      BY <3>1, <3>2
    <3>4. "enq_lock" \in Points
      BY DEF EnqueueAt
    <3>5. TypeOK'
      BY <3>1, <3>2, <3>3, <3>4
    <3>6. IndexInRange'
      BY <2>2, <3>1, <3>2
    <3>7. QED
      BY <3>5, <3>6
  <2>3. QED
    BY <2>1, <2>2
<1>2. ASSUME NEW t \in Threads, EnqueueLock(t) PROVE Good
  <2>1. pushed[t] < Len(batch[t])
    BY <1>2 DEF EnqueueLock
  <2>2. QED
    BY <1>2, <2>1 DEF EnqueueLock, EnqueueAt
<1>3. ASSUME NEW t \in Threads, EnqueuePush(t) PROVE Good
  <2>1. pushed[t] + 1 \in 1..Len(batch[t])
    BY <1>3 DEF EnqueuePush
  <2>2. batch[t][pushed[t] + 1] \in Items
    BY <2>1, ElementOfSeq
  <2>3. base' \in Seq(Items)
    BY <1>3, <2>2 DEF EnqueuePush
  <2>4. /\ pushed' = [pushed EXCEPT ![t] = pushed[t] + 1]
        /\ UNCHANGED <<holder, batch, ret>>
        /\ \/ pushed[t] + 1 < Len(batch[t]) /\ pc' = [pc EXCEPT ![t] = "enq_push"]
           \/ pushed[t] + 1 = Len(batch[t]) /\ pc' = [pc EXCEPT ![t] = "enq_unlock"]
    <3>1. \/ pushed[t] + 1 < Len(batch[t])
          \/ ~(pushed[t] + 1 < Len(batch[t])) /\ pushed[t] + 1 = Len(batch[t])
      BY <2>1
    <3>2. QED
      BY <1>3, <3>1, Zenon DEF EnqueuePush
  <2>5. /\ \A u \in Threads : pushed'[u] <= Len(batch'[u])
        /\ pushed' \in [Threads -> Nat]
    BY <2>1, <2>4
  <2>6. \A u \in Threads \ {t} : pc'[u] = pc[u] /\ pushed'[u] = pushed[u]
    BY <2>4
  <2>7. CASE pc' = [pc EXCEPT ![t] = "enq_push"] /\ pushed[t] + 1 < Len(batch[t])
    <3>1. TypeOK'
      BY <2>3, <2>4, <2>5, <2>7 DEF EnqueueAt
    <3>2. pc'[t] = "enq_push" /\ pushed'[t] < Len(batch'[t])
      BY <2>4, <2>7
    <3>3. QED
      BY <2>4, <2>6, <3>1, <3>2
  <2>8. CASE pc' = [pc EXCEPT ![t] = "enq_unlock"] /\ pushed[t] + 1 = Len(batch[t])
    <3>1. TypeOK'
      BY <2>3, <2>4, <2>5, <2>8 DEF EnqueueAt
    <3>2. pc'[t] = "enq_unlock" /\ pushed'[t] = Len(batch'[t]) /\ batch'[t] # <<>>
      BY <2>1, <2>4, <2>8
    <3>3. QED
      BY <2>4, <2>6, <3>1, <3>2
  <2>9. QED
    BY <2>4, <2>7, <2>8
<1>4. ASSUME NEW t \in Threads, EnqueueUnlock(t) PROVE Good
  BY <1>4 DEF EnqueueUnlock, EnqueueAt
<1>5. ASSUME NEW t \in Threads, EnqueueNotify(t) PROVE Good
  <2>1. UNCHANGED <<base, holder, batch, pushed, ret>>
    BY <1>5 DEF EnqueueNotify, Signal, Broadcast
  <2>2. \A u \in Threads : pc'[u] \in {pc[u], "idle", "deq_woken"}
    <3>1. CASE Signal(t)
      BY <3>1 DEF Signal, Asleep
    <3>2. CASE Broadcast(t)
      BY <3>2 DEF Broadcast, Asleep
    <3>3. QED
      BY <1>5, <3>1, <3>2 DEF EnqueueNotify
  <2>3. pc' \in [Threads -> Points]
    <3>1. "deq_woken" \in Points
      BY DEF DequeueAt
    <3>2. pc' = [u \in Threads |-> pc'[u]]
      BY <1>5 DEF EnqueueNotify, Signal, Broadcast
    <3>3. QED
      BY <2>2, <3>1, <3>2
  <2>4. TypeOK'
    BY <2>1, <2>3
  <2>5. IndexInRange'
    BY <2>1, <2>2
  <2>6. QED
    BY <2>4, <2>5
<1>6. ASSUME NEW t \in Threads, BeginDequeue(t) PROVE Good
  BY <1>6 DEF BeginDequeue, DequeueAt
<1>7. ASSUME NEW t \in Threads, DequeueStep(t) PROVE Good
  <2> USE DEF DequeueAt
  <2>1. CASE DequeueLock(t)
    BY <2>1 DEF DequeueLock
  <2>2. CASE DequeueTest(t)
    BY <2>2 DEF DequeueTest
  <2>3. CASE DequeueRelock(t)
    BY <2>3 DEF DequeueRelock
  <2>4. CASE DequeuePop(t)
    <3>1. Head(base) \in Items /\ Tail(base) \in Seq(Items)
      BY <2>4, HeadTailProperties DEF DequeuePop
    <3>2. QED
      BY <2>4, <3>1 DEF DequeuePop
  <2>5. CASE DequeueUnlock(t)
    BY <2>5 DEF DequeueUnlock
  <2>6. QED
    BY <1>7, <2>1, <2>2, <2>3, <2>4, <2>5 DEF DequeueStep
<1>8. ASSUME NEW t \in Threads, SpuriousWakeup(t) PROVE Good
  BY <1>8 DEF SpuriousWakeup, DequeueAt
<1>9. ASSUME NEW t \in Threads, BeginEmpty(t) PROVE Good
  BY <1>9 DEF BeginEmpty, EmptyAt
<1>10. ASSUME NEW t \in Threads, EmptyStep(t) PROVE Good
  <2> USE DEF EmptyAt
  <2>1. CASE EmptyLock(t)
    BY <2>1 DEF EmptyLock
  <2>2. CASE EmptyTest(t)
    BY <2>2 DEF EmptyTest
  <2>3. CASE EmptyUnlock(t)
    BY <2>3 DEF EmptyUnlock
  <2>4. QED
    BY <1>10, <2>1, <2>2, <2>3 DEF EmptyStep
<1>11. ASSUME NEW t \in Threads, BeginDestroy(t) PROVE Good
  BY <1>11 DEF BeginDestroy, DestroyAt
<1>12. ASSUME NEW t \in Threads, DestroyStep(t) PROVE Good
  <2> USE DEF DestroyAt
  <2>1. CASE DestroyLock(t)
    BY <2>1 DEF DestroyLock
  <2>2. CASE DestroyDrain(t)
    BY <2>2 DEF DestroyDrain
  <2>3. CASE DestroyUnlock(t)
    BY <2>3 DEF DestroyUnlock
  <2>4. CASE DestroyFree(t)
    BY <2>4 DEF DestroyFree
  <2>5. QED
    BY <1>12, <2>1, <2>2, <2>3, <2>4 DEF DestroyStep
<1>13. CASE UNCHANGED queueVars
  BY <1>13 DEF queueVars
<1>14. QED
  BY <1>1, <1>2, <1>3, <1>4, <1>5, <1>6, <1>7, <1>8, <1>9, <1>10, <1>11, <1>12, <1>13
     DEF QueueNext, Call, QueueStep, EnqueueStep

-----------------------------------------------------------------------------
(* Mutual exclusion.                                                       *)

\* After queue_create nobody owns the mutex and nobody is in a critical section.
LEMMA MutexInit == QueueInit => MutexOwned
BY ThreadsAssumption DEF QueueInit, MutexOwned, Locked

\* Every lock, unlock and wait hands the mutex on with the critical section.
LEMMA MutexStep ==
  TypeOK /\ MutexOwned /\ [QueueNext]_queueVars => MutexOwned'
<1> SUFFICES ASSUME TypeOK, MutexOwned, [QueueNext]_queueVars
             PROVE  MutexOwned'
  OBVIOUS
<1> USE ThreadsAssumption DEF TypeOK, MutexOwned, Locked, Goto, Lock, Unlock
<1>1. ASSUME NEW t \in Threads, NEW items \in Batches, BeginEnqueue(t, items)
      PROVE  MutexOwned'
  BY <1>1 DEF BeginEnqueue
<1>2. ASSUME NEW t \in Threads, EnqueueLock(t) PROVE MutexOwned'
  BY <1>2 DEF EnqueueLock
<1>3. ASSUME NEW t \in Threads, EnqueuePush(t) PROVE MutexOwned'
  <2>1. pc'[t] \in {"enq_push", "enq_unlock"} /\ holder = t /\ holder' = t
    BY <1>3 DEF EnqueuePush
  <2>2. \A u \in Threads \ {t} : pc'[u] = pc[u]
    BY <1>3 DEF EnqueuePush
  <2>3. QED
    BY <2>1, <2>2
<1>4. ASSUME NEW t \in Threads, EnqueueUnlock(t) PROVE MutexOwned'
  BY <1>4 DEF EnqueueUnlock
<1>5. ASSUME NEW t \in Threads, EnqueueNotify(t) PROVE MutexOwned'
  <2>1. pc[t] \notin Locked /\ pc'[t] \notin Locked /\ holder' = holder
    BY <1>5 DEF EnqueueNotify, Signal, Broadcast, Asleep
  <2>2. ASSUME NEW u \in Threads \ {t} PROVE pc'[u] \in Locked <=> pc[u] \in Locked
    <3>1. CASE Signal(t)
      BY <3>1 DEF Signal, Asleep
    <3>2. CASE Broadcast(t)
      BY <3>2 DEF Broadcast, Asleep
    <3>3. QED
      BY <1>5, <3>1, <3>2 DEF EnqueueNotify
  <2>3. QED
    BY <2>1, <2>2
<1>6. ASSUME NEW t \in Threads, BeginDequeue(t) PROVE MutexOwned'
  BY <1>6 DEF BeginDequeue
<1>7. ASSUME NEW t \in Threads, DequeueStep(t) PROVE MutexOwned'
  <2>1. CASE DequeueLock(t)
    BY <2>1 DEF DequeueLock
  <2>2. CASE DequeueTest(t)
    BY <2>2 DEF DequeueTest
  <2>3. CASE DequeueRelock(t)
    BY <2>3 DEF DequeueRelock
  <2>4. CASE DequeuePop(t)
    BY <2>4 DEF DequeuePop
  <2>5. CASE DequeueUnlock(t)
    BY <2>5 DEF DequeueUnlock
  <2>6. QED
    BY <1>7, <2>1, <2>2, <2>3, <2>4, <2>5 DEF DequeueStep
<1>8. ASSUME NEW t \in Threads, SpuriousWakeup(t) PROVE MutexOwned'
  BY <1>8 DEF SpuriousWakeup
<1>9. ASSUME NEW t \in Threads, BeginEmpty(t) PROVE MutexOwned'
  BY <1>9 DEF BeginEmpty
<1>10. ASSUME NEW t \in Threads, EmptyStep(t) PROVE MutexOwned'
  <2>1. CASE EmptyLock(t)
    BY <2>1 DEF EmptyLock
  <2>2. CASE EmptyTest(t)
    BY <2>2 DEF EmptyTest
  <2>3. CASE EmptyUnlock(t)
    BY <2>3 DEF EmptyUnlock
  <2>4. QED
    BY <1>10, <2>1, <2>2, <2>3 DEF EmptyStep
<1>11. ASSUME NEW t \in Threads, BeginDestroy(t) PROVE MutexOwned'
  BY <1>11 DEF BeginDestroy
<1>12. ASSUME NEW t \in Threads, DestroyStep(t) PROVE MutexOwned'
  <2>1. CASE DestroyLock(t)
    BY <2>1 DEF DestroyLock
  <2>2. CASE DestroyDrain(t)
    BY <2>2 DEF DestroyDrain
  <2>3. CASE DestroyUnlock(t)
    BY <2>3 DEF DestroyUnlock
  <2>4. CASE DestroyFree(t)
    BY <2>4 DEF DestroyFree
  <2>5. QED
    BY <1>12, <2>1, <2>2, <2>3, <2>4 DEF DestroyStep
<1>13. CASE UNCHANGED queueVars
  BY <1>13 DEF queueVars
<1>14. QED
  BY <1>1, <1>2, <1>3, <1>4, <1>5, <1>6, <1>7, <1>8, <1>9, <1>10, <1>11, <1>12, <1>13
     DEF QueueNext, Call, QueueStep, EnqueueStep

-----------------------------------------------------------------------------
(* No underflow.                                                           *)

\* After queue_create no thread is at the pop of queue_dequeue.
LEMMA PopInit == QueueInit => PopFindsItem
BY DEF QueueInit, PopFindsItem

\* The thread at the pop owns the mutex, so that the queue it tested is the
\* queue it pops from.
LEMMA PopStep ==
  TypeOK /\ MutexOwned /\ PopFindsItem /\ [QueueNext]_queueVars => PopFindsItem'
<1> SUFFICES ASSUME TypeOK, MutexOwned, PopFindsItem, [QueueNext]_queueVars,
                    NEW u \in Threads, pc'[u] = "deq_pop"
             PROVE  base' # <<>>
  BY DEF PopFindsItem
<1> USE DEF TypeOK, PopFindsItem, Goto, Lock, Unlock
<1>1. ASSUME pc[u] = "deq_pop", base' = base PROVE base' # <<>>
  BY <1>1
<1>2. ASSUME NEW t \in Threads, pc[t] \in Locked, t # u PROVE pc[u] # "deq_pop"
  BY <1>2 DEF MutexOwned, Locked
<1>3. ASSUME NEW t \in Threads, NEW items \in Batches, BeginEnqueue(t, items)
      PROVE  base' # <<>>
  BY <1>3, <1>1 DEF BeginEnqueue
<1>4. ASSUME NEW t \in Threads, EnqueueLock(t) PROVE base' # <<>>
  BY <1>4, <1>1 DEF EnqueueLock
<1>5. ASSUME NEW t \in Threads, EnqueuePush(t) PROVE base' # <<>>
  <2>1. pc[t] = "enq_push" /\ pc'[t] # "deq_pop" /\ (t # u => pc[u] = "deq_pop")
    BY <1>5 DEF EnqueuePush
  <2>2. QED
    BY <2>1, <1>2 DEF Locked
<1>6. ASSUME NEW t \in Threads, EnqueueUnlock(t) PROVE base' # <<>>
  BY <1>6, <1>1 DEF EnqueueUnlock
<1>7. ASSUME NEW t \in Threads, EnqueueNotify(t) PROVE base' # <<>>
  BY <1>7, <1>1 DEF EnqueueNotify, Signal, Broadcast, Asleep
<1>8. ASSUME NEW t \in Threads, BeginDequeue(t) PROVE base' # <<>>
  BY <1>8, <1>1 DEF BeginDequeue
<1>9. ASSUME NEW t \in Threads, DequeueStep(t) PROVE base' # <<>>
  <2>1. CASE DequeueLock(t)
    BY <2>1, <1>1 DEF DequeueLock
  <2>2. CASE DequeueTest(t)
    BY <2>2, <1>1 DEF DequeueTest
  <2>3. CASE DequeueRelock(t)
    BY <2>3, <1>1 DEF DequeueRelock
  <2>4. CASE DequeuePop(t)
    <3>1. pc[t] = "deq_pop" /\ pc'[t] # "deq_pop" /\ (t # u => pc[u] = "deq_pop")
      BY <2>4 DEF DequeuePop
    <3>2. QED
      BY <3>1, <1>2 DEF Locked
  <2>5. CASE DequeueUnlock(t)
    BY <2>5, <1>1 DEF DequeueUnlock
  <2>6. QED
    BY <1>9, <2>1, <2>2, <2>3, <2>4, <2>5 DEF DequeueStep
<1>10. ASSUME NEW t \in Threads, SpuriousWakeup(t) PROVE base' # <<>>
  BY <1>10, <1>1 DEF SpuriousWakeup
<1>11. ASSUME NEW t \in Threads, BeginEmpty(t) PROVE base' # <<>>
  BY <1>11, <1>1 DEF BeginEmpty
<1>12. ASSUME NEW t \in Threads, EmptyStep(t) PROVE base' # <<>>
  BY <1>12, <1>1 DEF EmptyStep, EmptyLock, EmptyTest, EmptyUnlock
<1>13. ASSUME NEW t \in Threads, BeginDestroy(t) PROVE base' # <<>>
  BY <1>13, <1>1 DEF BeginDestroy
<1>14. ASSUME NEW t \in Threads, DestroyStep(t) PROVE base' # <<>>
  <2>1. CASE DestroyDrain(t)
    <3>1. pc[t] = "des_drain" /\ pc'[t] # "deq_pop" /\ (t # u => pc[u] = "deq_pop")
      BY <2>1 DEF DestroyDrain
    <3>2. QED
      BY <3>1, <1>2 DEF Locked
  <2>2. CASE DestroyLock(t) \/ DestroyUnlock(t) \/ DestroyFree(t)
    BY <2>2, <1>1 DEF DestroyLock, DestroyUnlock, DestroyFree
  <2>3. QED
    BY <1>14, <2>1, <2>2 DEF DestroyStep
<1>15. CASE UNCHANGED queueVars
  BY <1>15, <1>1 DEF queueVars
<1>16. QED
  BY <1>3, <1>4, <1>5, <1>6, <1>7, <1>8, <1>9, <1>10, <1>11, <1>12, <1>13, <1>14, <1>15
     DEF QueueNext, Call, QueueStep, EnqueueStep

-----------------------------------------------------------------------------
(* No lost wakeup.  What is counted are the threads awake in a dequeue and *)
(* the signals on their way.                                               *)

\* The sets of threads that NoLostWakeup counts are finite.
LEMMA Counts ==
  /\ IsFiniteSet(Awake) /\ Cardinality(Awake) \in Nat
  /\ IsFiniteSet(Signalling) /\ Cardinality(Signalling) \in Nat
<1>1. ASSUME NEW S \in SUBSET Threads
      PROVE  IsFiniteSet(S) /\ Cardinality(S) \in Nat
  BY ThreadsAssumption, FS_Subset, FS_CardinalityType
<1>2. Awake \in SUBSET Threads /\ Signalling \in SUBSET Threads
  BY DEF Awake, Signalling, Unnotified
<1>3. QED
  BY <1>1, <1>2

\* They are finite after a step, too.
LEMMA CountsNext ==
  /\ IsFiniteSet(Awake') /\ Cardinality(Awake') \in Nat
  /\ IsFiniteSet(Signalling') /\ Cardinality(Signalling') \in Nat
<1>1. ASSUME NEW S \in SUBSET Threads
      PROVE  IsFiniteSet(S) /\ Cardinality(S) \in Nat
  BY ThreadsAssumption, FS_Subset, FS_CardinalityType
<1>2. Awake' \in SUBSET Threads /\ Signalling' \in SUBSET Threads
  BY DEF Awake, Signalling, Unnotified
<1>3. QED
  BY <1>1, <1>2

\* A step that takes no item in, puts nobody to sleep and takes nobody out of
\* the count keeps the balance.
LEMMA BalanceKept ==
  /\ TypeOK /\ NoLostWakeup
  /\ base' = base
  /\ Asleep' \subseteq Asleep
  /\ Awake \subseteq Awake'
  /\ Signalling \subseteq Signalling'
  /\ Broadcasting \subseteq Broadcasting'
  => NoLostWakeup'
<1> SUFFICES ASSUME TypeOK, NoLostWakeup, base' = base, Asleep' \subseteq Asleep,
                    Awake \subseteq Awake', Signalling \subseteq Signalling',
                    Broadcasting \subseteq Broadcasting'
             PROVE  NoLostWakeup'
  OBVIOUS
<1>1. Cardinality(Awake) <= Cardinality(Awake')
  BY CountsNext, FS_Subset
<1>2. Cardinality(Signalling) <= Cardinality(Signalling')
  BY CountsNext, FS_Subset
<1>3. Len(base) \in Nat
  BY DEF TypeOK
<1>4. QED
  BY <1>1, <1>2, <1>3, Counts, CountsNext DEF NoLostWakeup

\* After queue_create no thread is asleep in queue_dequeue.
LEMMA WakeupInit == QueueInit => NoLostWakeup
BY DEF QueueInit, NoLostWakeup, Asleep

\* No step of queue_enqueue_n, queue_dequeue or a spurious wakeup leaves an item
\* next to a sleeping thread with no notification on its way.
LEMMA WakeupStep ==
  TypeOK /\ IndexInRange /\ NoLostWakeup /\ [QueueNext]_queueVars => NoLostWakeup'
<1> SUFFICES ASSUME TypeOK, IndexInRange, NoLostWakeup, [QueueNext]_queueVars
             PROVE  NoLostWakeup'
  OBVIOUS
<1> DEFINE Kept == /\ base' = base
                   /\ Asleep' \subseteq Asleep
                   /\ Awake \subseteq Awake'
                   /\ Signalling \subseteq Signalling'
                   /\ Broadcasting \subseteq Broadcasting'
<1> USE DEF TypeOK, Goto, Lock, Unlock
<1>1. Kept => NoLostWakeup'
  BY BalanceKept
<1>2. ASSUME NEW t \in Threads, NEW items \in Batches, BeginEnqueue(t, items)
      PROVE  Kept
  BY <1>2 DEF BeginEnqueue, Asleep, Awake, Signalling, Broadcasting, Unnotified
<1>3. ASSUME NEW t \in Threads, EnqueueLock(t) PROVE Kept
  BY <1>3 DEF EnqueueLock, Asleep, Awake, Signalling, Broadcasting, Unnotified
<1>4. ASSUME NEW t \in Threads, EnqueuePush(t) PROVE NoLostWakeup'
  <2>1. /\ pc[t] = "enq_push"
        /\ pc'[t] \in {"enq_push", "enq_unlock"}
        /\ pushed'[t] = pushed[t] + 1
        /\ pushed[t] < Len(batch[t])
        /\ batch' = batch
        /\ \A u \in Threads \ {t} : pc'[u] = pc[u] /\ pushed'[u] = pushed[u]
    BY <1>4 DEF EnqueuePush, IndexInRange
  <2>2. CASE Len(batch[t]) > 1
    <3>1. t \in Broadcasting'
      BY <2>1, <2>2 DEF Broadcasting, Unnotified
    <3>2. QED
      BY <3>1 DEF NoLostWakeup
  <2>3. CASE Len(batch[t]) = 1
    <3>1. pushed[t] = 0
      BY <2>1, <2>3
    <3>2. t \notin Signalling /\ Signalling' = Signalling \cup {t}
      BY <2>1, <2>3, <3>1 DEF Signalling, Broadcasting, Unnotified
    <3>3. Cardinality(Signalling') = Cardinality(Signalling) + 1
      BY <3>2, Counts, FS_AddElement
    <3>4. Asleep' = Asleep /\ Awake' = Awake /\ Broadcasting \subseteq Broadcasting'
      BY <2>1, <2>3 DEF Asleep, Awake, Signalling, Broadcasting, Unnotified
    <3>5. Len(base') = Len(base) + 1 /\ Len(base) \in Nat
      <4>1. pushed[t] + 1 \in 1..Len(batch[t])
        BY <2>1
      <4>2. batch[t][pushed[t] + 1] \in Items
        BY <4>1, ElementOfSeq
      <4>3. QED
        BY <4>2, <1>4, AppendProperties DEF EnqueuePush
    <3>6. QED
      BY <3>3, <3>4, <3>5, Counts DEF NoLostWakeup
  <2>4. Len(batch[t]) > 1 \/ Len(batch[t]) = 1
    <3>1. \A n, i \in Nat : i < n => n > 1 \/ n = 1
      OBVIOUS
    <3>2. Len(batch[t]) \in Nat /\ pushed[t] \in Nat
      OBVIOUS
    <3>3. QED
      BY <2>1, <3>1, <3>2
  <2>5. QED
    BY <2>2, <2>3, <2>4
<1>5. ASSUME NEW t \in Threads, EnqueueUnlock(t) PROVE Kept
  BY <1>5 DEF EnqueueUnlock, Asleep, Awake, Signalling, Broadcasting, Unnotified
<1>6. ASSUME NEW t \in Threads, EnqueueNotify(t) PROVE NoLostWakeup'
  <2>1. pc[t] = "enq_notify" /\ batch[t] # <<>> /\ pushed[t] = Len(batch[t])
    BY <1>6 DEF EnqueueNotify, IndexInRange
  <2>2. CASE Len(batch[t]) # 1
    <3>1. Broadcast(t)
      BY <1>6, <2>2 DEF EnqueueNotify
    <3>2. Asleep' = {}
      BY <3>1 DEF Broadcast, Asleep
    <3>3. QED
      BY <3>2 DEF NoLostWakeup
  <2>3. CASE Len(batch[t]) = 1 /\ Asleep = {}
    <3>1. Signal(t)
      BY <1>6, <2>3 DEF EnqueueNotify
    <3>2. Asleep' = {}
      BY <3>1, <2>3 DEF Signal, Asleep
    <3>3. QED
      BY <3>2 DEF NoLostWakeup
  <2>4. CASE Len(batch[t]) = 1 /\ Asleep # {}
    <3>1. PICK u \in Asleep :
            /\ pc' = [pc EXCEPT ![t] = "idle", ![u] = "deq_woken"]
            /\ UNCHANGED <<base, holder, batch, pushed, ret>>
      BY <1>6, <2>4 DEF EnqueueNotify, Signal
    <3>2. u \in Threads /\ pc[u] = "deq_asleep" /\ u # t
      BY <2>1 DEF Asleep
    <3>3. Asleep' \subseteq Asleep
      BY <3>1, <3>2 DEF Asleep
    <3>4. u \notin Awake /\ Awake' = Awake \cup {u}
      BY <2>1, <3>1, <3>2 DEF Awake
    <3>5. t \in Signalling /\ Signalling' = Signalling \ {t}
      BY <2>1, <2>4, <3>1, <3>2 DEF Signalling, Broadcasting, Unnotified
    <3>6. Broadcasting \subseteq Broadcasting'
      <4>1. t \notin Broadcasting
        <5>1. ~(1 > 1)
          OBVIOUS
        <5>2. ~(Len(batch[t]) > 1)
          BY <2>4, <5>1, Zenon
        <5>3. QED
          BY <5>2, Zenon DEF Broadcasting
      <4>2. ASSUME NEW v \in Broadcasting PROVE v \in Broadcasting'
        <5>1. v \in Threads /\ v # t /\ v # u /\ v \in Unnotified
          BY <4>1, <3>2 DEF Broadcasting, Unnotified
        <5>2. pc'[v] = pc[v]
          BY <5>1, <3>1, <3>2
        <5>3. v \in Unnotified'
          BY <5>1, <5>2, <3>1 DEF Unnotified
        <5>4. Len(batch'[v]) > 1
          BY <3>1 DEF Broadcasting
        <5>5. QED
          BY <5>3, <5>4 DEF Broadcasting
      <4>3. QED
        BY <4>2
    <3>7. Cardinality(Awake') = Cardinality(Awake) + 1
      BY <3>4, Counts, FS_AddElement
    <3>8. Cardinality(Signalling') = Cardinality(Signalling) - 1
      BY <3>5, Counts, FS_RemoveElement
    <3>9. Len(base) \in Nat
      OBVIOUS
    <3>10. QED
      BY <2>4, <3>1, <3>3, <3>6, <3>7, <3>8, <3>9, Counts DEF NoLostWakeup
  <2>5. QED
    BY <2>2, <2>3, <2>4
<1>7. ASSUME NEW t \in Threads, BeginDequeue(t) PROVE Kept
  BY <1>7 DEF BeginDequeue, Asleep, Awake, Signalling, Broadcasting, Unnotified
<1>8. ASSUME NEW t \in Threads, DequeueStep(t) PROVE NoLostWakeup'
  <2>1. CASE DequeueLock(t)
    BY <2>1, <1>1 DEF DequeueLock, Asleep, Awake, Signalling, Broadcasting, Unnotified
  <2>2. CASE DequeueTest(t)
    <3>1. CASE base # <<>>
      BY <2>2, <3>1, <1>1 DEF DequeueTest, Asleep, Awake, Signalling, Broadcasting, Unnotified
    <3>2. CASE base = <<>>
      <4>1. Len(base') = 0
        BY <2>2, <3>2 DEF DequeueTest
      <4>2. QED
        BY <4>1, CountsNext DEF NoLostWakeup
    <3>3. QED
      BY <3>1, <3>2
  <2>3. CASE DequeueRelock(t)
    BY <2>3, <1>1 DEF DequeueRelock, Asleep, Awake, Signalling, Broadcasting, Unnotified
  <2>4. CASE DequeuePop(t)
    <3>1. Asleep' = Asleep /\ Signalling' = Signalling /\ Broadcasting' = Broadcasting
      BY <2>4 DEF DequeuePop, Asleep, Signalling, Broadcasting, Unnotified
    <3>2. t \in Awake /\ Awake' = Awake \ {t}
      BY <2>4 DEF DequeuePop, Awake
    <3>3. Cardinality(Awake') = Cardinality(Awake) - 1
      BY <3>2, Counts, FS_RemoveElement
    <3>4. Len(base') = Len(base) - 1 /\ Len(base) \in Nat
      BY <2>4, HeadTailProperties DEF DequeuePop
    <3>5. QED
      BY <3>1, <3>3, <3>4, Counts DEF NoLostWakeup
  <2>5. CASE DequeueUnlock(t)
    BY <2>5, <1>1 DEF DequeueUnlock, Asleep, Awake, Signalling, Broadcasting, Unnotified
  <2>6. QED
    BY <1>8, <2>1, <2>2, <2>3, <2>4, <2>5 DEF DequeueStep
<1>9. ASSUME NEW t \in Threads, SpuriousWakeup(t) PROVE Kept
  BY <1>9 DEF SpuriousWakeup, Asleep, Awake, Signalling, Broadcasting, Unnotified
<1>10. ASSUME NEW t \in Threads, BeginEmpty(t) PROVE Kept
  BY <1>10 DEF BeginEmpty, Asleep, Awake, Signalling, Broadcasting, Unnotified
<1>11. ASSUME NEW t \in Threads, EmptyStep(t) PROVE Kept
  <2>1. CASE EmptyLock(t)
    BY <2>1 DEF EmptyLock, Asleep, Awake, Signalling, Broadcasting, Unnotified
  <2>2. CASE EmptyTest(t)
    BY <2>2 DEF EmptyTest, Asleep, Awake, Signalling, Broadcasting, Unnotified
  <2>3. CASE EmptyUnlock(t)
    BY <2>3 DEF EmptyUnlock, Asleep, Awake, Signalling, Broadcasting, Unnotified
  <2>4. QED
    BY <1>11, <2>1, <2>2, <2>3 DEF EmptyStep
<1>12. ASSUME NEW t \in Threads, BeginDestroy(t) PROVE Kept
  BY <1>12 DEF BeginDestroy, Asleep, Awake, Signalling, Broadcasting, Unnotified
<1>13. ASSUME NEW t \in Threads, DestroyStep(t) PROVE NoLostWakeup'
  <2>1. CASE DestroyLock(t)
    BY <2>1, <1>1 DEF DestroyLock, Asleep, Awake, Signalling, Broadcasting, Unnotified
  <2>2. CASE DestroyDrain(t)
    <3>1. Len(base') = 0
      BY <2>2 DEF DestroyDrain
    <3>2. QED
      BY <3>1, CountsNext DEF NoLostWakeup
  <2>3. CASE DestroyUnlock(t)
    BY <2>3, <1>1 DEF DestroyUnlock, Asleep, Awake, Signalling, Broadcasting, Unnotified
  <2>4. CASE DestroyFree(t)
    BY <2>4, <1>1 DEF DestroyFree, Asleep, Awake, Signalling, Broadcasting, Unnotified
  <2>5. QED
    BY <1>13, <2>1, <2>2, <2>3, <2>4 DEF DestroyStep
<1>14. CASE UNCHANGED queueVars
  BY <1>14, <1>1 DEF queueVars, Asleep, Awake, Signalling, Broadcasting, Unnotified
<1>15. QED
  BY <1>1, <1>2, <1>3, <1>4, <1>5, <1>6, <1>7, <1>8, <1>9, <1>10, <1>11, <1>12, <1>13, <1>14
     DEF QueueNext, Call, QueueStep, EnqueueStep

-----------------------------------------------------------------------------
(* The invariant.                                                          *)

\* The inductive invariant of the queue: the conjunction of the properties
\* below, each of which the others help to preserve.
THEOREM QueueInvariant == QueueSpec => []QueueInv
<1>1. QueueInit => QueueInv
  BY TypeInit, MutexInit, PopInit, WakeupInit DEF QueueInv
<1>2. QueueInv /\ [QueueNext]_queueVars => QueueInv'
  BY TypeStep, MutexStep, PopStep, WakeupStep DEF QueueInv
<1>3. QED
  BY <1>1, <1>2, PTL DEF QueueSpec

\* Every value of the queue and of its callers has its type.
THEOREM QueueTypes == QueueSpec => []TypeOK
BY QueueInvariant, PTL DEF QueueInv

\* The mutex of the queue is owned by the thread in the critical section, and
\* by nobody else.
THEOREM QueueMutex == QueueSpec => []MutexOwned
BY QueueInvariant, PTL DEF QueueInv

\* queue_dequeue never pops from an empty steque, in spite of spurious wakeups
\* and of other dequeues taking the item a thread was woken for.
THEOREM QueueNoUnderflow == QueueSpec => []PopFindsItem
BY QueueInvariant, PTL DEF QueueInv

\* No wakeup is lost, for any number of threads, items and batches.
THEOREM QueueNoLostWakeup == QueueSpec => []NoLostWakeup
BY QueueInvariant, PTL DEF QueueInv

-----------------------------------------------------------------------------
(* A batch under way.                                                      *)

\* What a thread in the loop of queue_enqueue_n has pushed is at the back of
\* the queue, in the order of the batch.
BatchAtBack ==
  \A t \in Threads : pc[t] = "enq_push" =>
    /\ pushed[t] <= Len(base)
    /\ \A i \in 1..pushed[t] : base[Len(base) - pushed[t] + i] = batch[t][i]

\* A step that leaves the queue alone, or whose thread is the only one that can
\* be in the loop and is not, leaves a batch where it was.
LEMMA BatchStays ==
  ASSUME TypeOK, BatchAtBack,
         \A u \in Threads : pc'[u] = "enq_push" =>
           /\ pc[u] = "enq_push" /\ UNCHANGED base
           /\ pushed'[u] = pushed[u] /\ batch'[u] = batch[u]
  PROVE  BatchAtBack'
BY DEF BatchAtBack

\* Every step keeps the batch under way at the back.
LEMMA BatchStep ==
  ASSUME QueueInv, BatchAtBack, [QueueNext]_queueVars
  PROVE  BatchAtBack'
<1> USE DEF Goto, Lock, Unlock
<1>1. TypeOK /\ MutexOwned /\ IndexInRange
  BY DEF QueueInv
<1> USE DEF TypeOK
\* The owner of the mutex is the only thread that can be in the loop.
<1>2. ASSUME NEW t \in Threads, holder = t, NEW u \in Threads, u # t
      PROVE  pc[u] # "enq_push"
  BY <1>1, <1>2 DEF MutexOwned, Locked
<1>3. ASSUME NEW t \in Threads, NEW items \in Batches, BeginEnqueue(t, items)
      PROVE  BatchAtBack'
  BY <1>1, <1>3, BatchStays DEF BeginEnqueue
<1>4. ASSUME NEW t \in Threads, EnqueueLock(t)
      PROVE  BatchAtBack'
  <2>1. /\ pushed'[t] = 0
        /\ UNCHANGED <<base, pushed, batch>>
        /\ \A u \in Threads \ {t} : pc'[u] = pc[u]
    BY <1>1, <1>4 DEF EnqueueLock, IndexInRange
  <2>2. Len(base) \in Nat
    BY <1>1, LenProperties
  <2> QED
    BY <1>1, <2>1, <2>2 DEF BatchAtBack
<1>5. ASSUME NEW t \in Threads, EnqueuePush(t)
      PROVE  BatchAtBack'
  <2> DEFINE n == pushed[t]
             x == batch[t][n + 1]
  <2>1. n \in Nat /\ n < Len(batch[t]) /\ x \in Items /\ Len(base) \in Nat
    <3>1. n + 1 \in 1..Len(batch[t]) /\ n \in Nat
      BY <1>1, <1>5 DEF EnqueuePush, IndexInRange
    <3> QED
      BY <1>1, <3>1, ElementOfSeq, LenProperties
  <2>2. /\ base' = Append(base, x) /\ pushed'[t] = n + 1 /\ batch' = batch
        /\ \A u \in Threads \ {t} : pc'[u] = pc[u] /\ pushed'[u] = pushed[u]
    BY <1>1, <1>5 DEF EnqueuePush
  <2>3. /\ Len(base') = Len(base) + 1
        /\ \A i \in 1..Len(base) : base'[i] = base[i]
        /\ base'[Len(base) + 1] = x
    BY <1>1, <2>1, <2>2, AppendProperties
  <2>4. /\ n <= Len(base)
        /\ \A i \in 1..n : base[Len(base) - n + i] = batch[t][i]
    BY <1>5 DEF EnqueuePush, BatchAtBack
  <2>5. ASSUME NEW i \in 1..n + 1
        PROVE  base'[Len(base') - (n + 1) + i] = batch[t][i]
    <3> i \in Nat
      BY <2>1
    <3> HIDE DEF n, x
    <3>1. Len(base') - (n + 1) + i = Len(base) - n + i
      BY <2>1, <2>3
    <3>2. CASE i = n + 1
      <4>1. Len(base) - n + i = Len(base) + 1
        BY <2>1, <3>2
      <4> QED
        BY <2>3, <3>1, <3>2, <4>1 DEF x
    <3>3. CASE i \in 1..n
      <4>1. Len(base) - n + i \in 1..Len(base)
        BY <2>1, <2>4, <3>3
      <4> QED
        BY <2>3, <2>4, <3>1, <3>3, <4>1
    <3> QED
      BY <2>1, <3>2, <3>3
  <2>6. holder = t
    BY <1>1, <1>5 DEF EnqueuePush, MutexOwned, Locked
  <2>7. \A u \in Threads \ {t} : pc'[u] # "enq_push"
    BY <1>2, <2>2, <2>6
  <2>8. pushed'[t] <= Len(base')
    BY <2>1, <2>2, <2>3, <2>4
  <2> HIDE DEF n, x
  <2>9. ASSUME NEW u \in Threads, pc'[u] = "enq_push"
        PROVE  /\ pushed'[u] <= Len(base')
               /\ \A i \in 1..pushed'[u] : base'[Len(base') - pushed'[u] + i] = batch'[u][i]
    <3>1. u = t
      BY <2>7, <2>9
    <3> QED
      BY <2>2, <2>5, <2>8, <3>1
  <2> QED
    BY <2>9 DEF BatchAtBack
<1>6. ASSUME NEW t \in Threads, EnqueueUnlock(t) PROVE BatchAtBack'
  BY <1>1, <1>6, BatchStays DEF EnqueueUnlock
<1>7. ASSUME NEW t \in Threads, EnqueueNotify(t) PROVE BatchAtBack'
  <2>1. UNCHANGED <<base, pushed, batch>>
    BY <1>7 DEF EnqueueNotify, Signal, Broadcast
  <2>2. \A u \in Threads : pc'[u] \in {pc[u], "idle", "deq_woken"}
    <3>1. CASE Signal(t)
      BY <1>1, <3>1 DEF Signal, Asleep
    <3>2. CASE Broadcast(t)
      BY <1>1, <3>2 DEF Broadcast, Asleep
    <3> QED
      BY <1>7, <3>1, <3>2 DEF EnqueueNotify
  <2> QED
    BY <1>1, <2>1, <2>2, BatchStays
<1>8. ASSUME NEW t \in Threads,
             BeginDequeue(t) \/ BeginEmpty(t) \/ BeginDestroy(t) \/ SpuriousWakeup(t)
      PROVE  BatchAtBack'
  BY <1>1, <1>8, BatchStays DEF BeginDequeue, BeginEmpty, BeginDestroy, SpuriousWakeup
<1>9. ASSUME NEW t \in Threads, DequeuePop(t) \/ DestroyDrain(t)
      PROVE  BatchAtBack'
  <2>1. holder = t
    BY <1>1, <1>9 DEF DequeuePop, DestroyDrain, MutexOwned, Locked
  <2>2. /\ pc'[t] # "enq_push"
        /\ \A u \in Threads \ {t} : pc'[u] = pc[u]
    BY <1>1, <1>9 DEF DequeuePop, DestroyDrain
  <2>3. \A u \in Threads : pc'[u] # "enq_push"
    BY <1>2, <2>1, <2>2
  <2> QED
    BY <2>3 DEF BatchAtBack
<1>10. ASSUME NEW t \in Threads,
              \/ DequeueLock(t) \/ DequeueTest(t) \/ DequeueRelock(t) \/ DequeueUnlock(t)
              \/ EmptyStep(t)
              \/ DestroyLock(t) \/ DestroyUnlock(t) \/ DestroyFree(t)
       PROVE  BatchAtBack'
  <2>1. /\ UNCHANGED <<base, pushed, batch>>
        /\ pc'[t] # "enq_push"
        /\ \A u \in Threads \ {t} : pc'[u] = pc[u]
    BY <1>1, <1>10 DEF DequeueLock, DequeueTest, DequeueRelock, DequeueUnlock, EmptyStep,
         EmptyLock, EmptyTest, EmptyUnlock, DestroyLock, DestroyUnlock, DestroyFree
  <2> QED
    BY <1>1, <2>1, BatchStays
<1>11. CASE UNCHANGED queueVars
  BY <1>11 DEF queueVars, BatchAtBack
<1> QED
  BY <1>3, <1>4, <1>5, <1>6, <1>7, <1>8, <1>9, <1>10, <1>11
     DEF QueueNext, Call, QueueStep, EnqueueStep, DequeueStep, DestroyStep

-----------------------------------------------------------------------------
(* What the refinement mapping does in a step.                             *)

Visible == SubSeq(base, 1, Len(base) - HalfPushed)

Phases == [t \in Threads |-> Phase(t)]

\* The phase of a thread at each point of the queue.
LEMMA PhaseOfPoint ==
  ASSUME NEW t \in Threads
  PROVE  /\ pc[t] \in {"enq_lock", "enq_push"} => Phase(t) = "enqueue"
         /\ pc[t] \in {"deq_lock", "deq_test", "deq_asleep", "deq_woken", "deq_pop"}
              => Phase(t) = "dequeue"
         /\ pc[t] \in {"emp_lock", "emp_test"} => Phase(t) = "empty"
         /\ pc[t] \in {"des_lock", "des_drain"} => Phase(t) = "destroy"
         /\ pc[t] \in {"enq_unlock", "enq_notify", "deq_unlock", "emp_unlock"}
              => Phase(t) = "done"
         /\ pc[t] \in {"des_unlock", "des_free", "freed"} => Phase(t) = "destroyed"
         /\ pc[t] = "idle" => Phase(t) = "idle"
BY DEF Phase, DequeueAt

\* The same after a step.
LEMMA PhaseOfPointNext ==
  ASSUME NEW t \in Threads
  PROVE  /\ pc'[t] \in {"enq_lock", "enq_push"} => Phase(t)' = "enqueue"
         /\ pc'[t] \in {"deq_lock", "deq_test", "deq_asleep", "deq_woken", "deq_pop"}
              => Phase(t)' = "dequeue"
         /\ pc'[t] \in {"emp_lock", "emp_test"} => Phase(t)' = "empty"
         /\ pc'[t] \in {"des_lock", "des_drain"} => Phase(t)' = "destroy"
         /\ pc'[t] \in {"enq_unlock", "enq_notify", "deq_unlock", "emp_unlock"}
              => Phase(t)' = "done"
         /\ pc'[t] \in {"des_unlock", "des_free", "freed"} => Phase(t)' = "destroyed"
         /\ pc'[t] = "idle" => Phase(t)' = "idle"
BY DEF Phase, DequeueAt

\* A step of one thread changes the phase of that thread only.
LEMMA PhasesStep ==
  ASSUME NEW t \in Threads, NEW point, pc \in [Threads -> Points], Goto(t, point)
  PROVE  /\ pc'[t] = point
         /\ Phases' = [Phases EXCEPT ![t] = Phase(t)']
<1>1. pc'[t] = point /\ \A u \in Threads \ {t} : pc'[u] = pc[u]
  BY DEF Goto
<1>2. \A u \in Threads \ {t} : Phase(u)' = Phase(u)
  BY <1>1 DEF Phase
<1> QED
  BY <1>1, <1>2 DEF Phases

\* All of the queue is visible when no thread is in the loop.
LEMMA AllVisible ==
  ASSUME TypeOK, \A t \in Threads : pc[t] # "enq_push"
  PROVE  HalfPushed = 0 /\ Visible = base
<1>1. HalfPushed = 0
  BY DEF HalfPushed
<1>2. Len(base) - 0 = Len(base)
  BY LenProperties DEF TypeOK
<1> QED
  BY <1>1, <1>2, SubSeqFull DEF Visible, TypeOK

\* The same after a step.
LEMMA AllVisibleNext ==
  ASSUME TypeOK', \A t \in Threads : pc'[t] # "enq_push"
  PROVE  HalfPushed' = 0 /\ Visible' = base'
<1>1. HalfPushed' = 0
  BY DEF HalfPushed
<1>2. Len(base') - 0 = Len(base')
  BY LenProperties DEF TypeOK
<1> QED
  BY <1>1, <1>2, SubSeqFull DEF Visible, TypeOK

\* A step that leaves the queue alone and lets nobody into the loop or out of it
\* shows nothing.
LEMMA SameVisible ==
  ASSUME TypeOK, TypeOK', MutexOwned, MutexOwned', UNCHANGED base,
         \A u \in Threads :
           \/ pc'[u] # "enq_push" /\ pc[u] # "enq_push"
           \/ pc'[u] = "enq_push" /\ pc[u] = "enq_push" /\ pushed'[u] = pushed[u]
  PROVE  Visible' = Visible
<1>1. CASE \E u \in Threads : pc[u] = "enq_push"
  <2>1. PICK u \in Threads : pc[u] = "enq_push"
    BY <1>1
  <2>2. pc'[u] = "enq_push" /\ pushed'[u] = pushed[u]
    BY <2>1
  <2>3. holder = u /\ holder' = u
    BY <2>1, <2>2 DEF MutexOwned, Locked
  <2>4. HalfPushed' = HalfPushed
    BY <2>1, <2>2, <2>3 DEF HalfPushed
  <2> QED
    BY <2>4 DEF Visible
<1>2. CASE \A u \in Threads : pc[u] # "enq_push"
  <2>1. \A u \in Threads : pc'[u] # "enq_push"
    BY <1>2
  <2> QED
    BY <1>2, <2>1, AllVisible, AllVisibleNext
<1> QED
  BY <1>1, <1>2

\* A push of the loop shows nothing, but for the last one, which shows the batch.
LEMMA PushShowsBatch ==
  ASSUME QueueInv, QueueInv', BatchAtBack, NEW t \in Threads, EnqueuePush(t)
  PROVE  \/ pc'[t] = "enq_push" /\ Visible' = Visible
         \/ pc'[t] = "enq_unlock" /\ Visible' = Visible \o batch[t]
<1> DEFINE n == pushed[t]
           L == Len(base)
           x == batch[t][n + 1]
<1>1. /\ base \in Seq(Items) /\ base' \in Seq(Items) /\ batch[t] \in Seq(Items)
      /\ n \in Nat /\ L \in Nat /\ n <= L /\ n < Len(batch[t]) /\ x \in Items
  <2>1. /\ base \in Seq(Items) /\ base' \in Seq(Items) /\ batch[t] \in Seq(Items)
        /\ n \in Nat
    BY DEF QueueInv, TypeOK
  <2>2. n <= L /\ n < Len(batch[t])
    BY DEF EnqueuePush, BatchAtBack, QueueInv, IndexInRange
  <2>3. n + 1 \in 1..Len(batch[t])
    BY <2>1, <2>2, LenProperties
  <2> QED
    BY <2>1, <2>2, <2>3, ElementOfSeq, LenProperties
<1>2. /\ holder = t /\ holder' = t /\ pushed'[t] = n + 1 /\ base' = Append(base, x)
      /\ pc[t] = "enq_push"
      /\ \/ pc'[t] = "enq_push" /\ n + 1 < Len(batch[t])
         \/ pc'[t] = "enq_unlock" /\ n + 1 >= Len(batch[t])
  BY DEF EnqueuePush, QueueInv, MutexOwned, Locked, TypeOK, Goto
<1>3. /\ Len(base') = L + 1
      /\ \A i \in 1..L : base'[i] = base[i]
      /\ base'[L + 1] = x
  BY <1>1, <1>2, AppendProperties
<1>4. /\ HalfPushed = n /\ Visible = SubSeq(base, 1, L - n)
  BY <1>2 DEF HalfPushed, Visible
<1>5. \A i \in 1..n : base[L - n + i] = batch[t][i]
  BY <1>2 DEF BatchAtBack
<1> HIDE DEF n, L, x
<1>6. /\ Visible \in Seq(Items) /\ Len(Visible) = L - n
      /\ \A i \in 1..L - n : Visible[i] = base[i]
  <2>1. \A i \in 1..L - n : base[i] \in Items
    BY <1>1, ElementOfSeq DEF L
  <2>2. L - n \in Nat
    BY <1>1
  <2> QED
    BY <1>1, <1>4, <2>1, <2>2, SubSeqProperties
<1>7. CASE pc'[t] = "enq_push"
  <2>1. HalfPushed' = n + 1 /\ Visible' = SubSeq(base', 1, (L + 1) - (n + 1))
    BY <1>2, <1>3, <1>7 DEF HalfPushed, Visible
  <2>2. (L + 1) - (n + 1) = L - n /\ L - n \in Nat /\ L - n <= L
    BY <1>1
  <2>3. \A i \in 1..L - n : base'[i] = base[i] /\ base'[i] \in Items
    BY <1>1, <1>3, <2>2, ElementOfSeq DEF L
  <2>4. /\ Visible' \in Seq(Items) /\ Len(Visible') = L - n
        /\ \A i \in 1..L - n : Visible'[i] = base[i]
    BY <2>1, <2>2, <2>3, SubSeqProperties
  <2> QED
    BY <1>6, <1>7, <2>4, SeqEqual
<1>8. CASE pc'[t] = "enq_unlock"
  <2>1. Len(batch[t]) = n + 1
    BY <1>1, <1>2, <1>8, LenProperties
  <2>2. Visible' = base'
    <3>1. \A u \in Threads : pc'[u] # "enq_push"
      BY <1>2, <1>8 DEF QueueInv, MutexOwned, Locked
    <3> QED
      BY <3>1, AllVisibleNext DEF QueueInv
  <2>3. /\ Visible \o batch[t] \in Seq(Items) /\ Len(Visible \o batch[t]) = L + 1
        /\ \A i \in 1..L - n : (Visible \o batch[t])[i] = base[i]
        /\ \A i \in L - n + 1..L + 1 : (Visible \o batch[t])[i] = batch[t][i - (L - n)]
    <3>1. (L - n) + (n + 1) = L + 1 /\ L - n \in Nat
      BY <1>1
    <3>2. /\ Visible \o batch[t] \in Seq(Items)
          /\ Len(Visible \o batch[t]) = Len(Visible) + Len(batch[t])
          /\ \A i \in 1..Len(Visible) + Len(batch[t]) :
               (Visible \o batch[t])[i] = IF i <= Len(Visible) THEN Visible[i]
                                          ELSE batch[t][i - Len(Visible)]
      BY <1>1, <1>6, ConcatProperties
    <3>3. ASSUME NEW i \in 1..L - n PROVE (Visible \o batch[t])[i] = base[i]
      BY <1>1, <1>6, <2>1, <3>1, <3>2
    <3>4. ASSUME NEW i \in L - n + 1..L + 1
          PROVE  (Visible \o batch[t])[i] = batch[t][i - (L - n)]
      <4>1. i \in 1..Len(Visible) + Len(batch[t]) /\ ~(i <= Len(Visible))
        BY <1>1, <1>6, <2>1, <3>1
      <4> QED
        BY <1>6, <3>2, <4>1
    <3> QED
      BY <1>6, <2>1, <3>1, <3>2, <3>3, <3>4
  <2>4. ASSUME NEW i \in 1..L + 1 PROVE base'[i] = (Visible \o batch[t])[i]
    <3>1. CASE i \in 1..L - n
      BY <1>1, <1>3, <2>3, <3>1
    <3>2. CASE i \in L - n + 1..L
      <4>1. i - (L - n) \in 1..n /\ L - n + (i - (L - n)) = i /\ i \in 1..L
            /\ i \in L - n + 1..L + 1
        BY <1>1, <3>2
      <4>2. base[L - n + (i - (L - n))] = batch[t][i - (L - n)]
        BY <1>5, <4>1
      <4> QED
        BY <1>3, <2>3, <4>1, <4>2, Zenon
    <3>3. CASE i = L + 1
      <4>1. i - (L - n) = n + 1 /\ i \in L - n + 1..L + 1
        BY <1>1, <3>3
      <4>2. (Visible \o batch[t])[i] = batch[t][n + 1]
        BY <2>3, <4>1
      <4> QED
        BY <1>3, <3>3, <4>2 DEF x
    <3>4. i \in 1..L - n \/ i \in L - n + 1..L \/ i = L + 1
      BY <1>1
    <3> QED
      BY <3>1, <3>2, <3>3, <3>4
  <2> QED
    BY <1>1, <1>3, <1>8, <2>2, <2>3, <2>4, SeqEqual
<1> QED
  BY <1>2, <1>7, <1>8

-----------------------------------------------------------------------------
(* The refinement.                                                         *)

\* Every step of the queue is a step of FifoQueue, or shows nothing.
LEMMA StepRefines ==
  ASSUME QueueInv, QueueInv', BatchAtBack, [QueueNext]_queueVars
  PROVE  [Fifo!FNext]_(Fifo!fvars)
<1> DEFINE Good == [Fifo!FNext]_(Fifo!fvars)
<1>1. /\ TypeOK /\ TypeOK' /\ MutexOwned /\ MutexOwned'
      /\ pc \in [Threads -> Points]
  BY DEF QueueInv, TypeOK
<1>2. ASSUME Visible' = Visible, Phases' = Phases, UNCHANGED <<batch, ret>>
      PROVE  Good
  BY <1>2 DEF Fifo!fvars, Visible, Phases
\* A thread that has locked the mutex is the only one that can be in the loop.
<1>3. ASSUME NEW t \in Threads, holder = t, pc[t] # "enq_push"
      PROVE  Visible = base
  BY <1>1, <1>3, AllVisible DEF MutexOwned, Locked
<1>4. ASSUME NEW t \in Threads, holder' = t, pc'[t] # "enq_push"
      PROVE  Visible' = base'
  BY <1>1, <1>4, AllVisibleNext DEF MutexOwned, Locked
\* A step of t that leaves the queue, the batches and the results alone and does not
\* have to do with the loop shows a change of phase at most.
<1>5. ASSUME NEW t \in Threads, NEW point, Goto(t, point), point # "enq_push", pc[t] # "enq_push",
             base' = base, pushed' = pushed
      PROVE  Visible' = Visible /\ pc'[t] = point /\ Phases' = [Phases EXCEPT ![t] = Phase(t)']
  <2>1. pc'[t] = point /\ Phases' = [Phases EXCEPT ![t] = Phase(t)']
    BY <1>1, <1>5, PhasesStep
  <2>2. \A u \in Threads \ {t} : pc'[u] = pc[u]
    BY <1>1, <1>5 DEF Goto
  <2>3. \A u \in Threads :
          \/ pc'[u] # "enq_push" /\ pc[u] # "enq_push"
          \/ pc'[u] = "enq_push" /\ pc[u] = "enq_push" /\ pushed'[u] = pushed[u]
    BY <1>5, <2>1, <2>2
  <2>4. Visible' = Visible
    BY <1>1, <1>5, <2>3, SameVisible
  <2> QED
    BY <2>1, <2>4
<1>6. ASSUME NEW t \in Threads PROVE Phases[t] = Phase(t)
  BY <1>6 DEF Phases
<1>7. ASSUME NEW t \in Threads, Phases' = [Phases EXCEPT ![t] = Phase(t)'],
             Phase(t)' = Phase(t)
      PROVE  Phases' = Phases
  BY <1>7 DEF Phases
<1>8. ASSUME NEW t \in Threads, NEW items \in Batches, BeginEnqueue(t, items) PROVE Good
  <2>1. CASE items = <<>>
    <3>1. UNCHANGED <<base, holder, pc, batch, pushed, ret>>
      BY <1>8, <2>1 DEF BeginEnqueue
    <3> QED
      BY <1>2, <3>1 DEF Visible, HalfPushed, Phases, Phase
  <2>2. CASE items # <<>>
    <3>1. /\ pc[t] = "idle" /\ Goto(t, "enq_lock") /\ batch' = [batch EXCEPT ![t] = items]
          /\ pushed' = [pushed EXCEPT ![t] = 0] /\ UNCHANGED <<base, ret>>
      BY <1>8, <2>2 DEF BeginEnqueue
    <3>2. pc'[t] = "enq_lock" /\ Phases' = [Phases EXCEPT ![t] = Phase(t)']
      BY <1>1, <3>1, PhasesStep
    <3>3. Visible' = Visible
      <4>1. \A u \in Threads \ {t} : pc'[u] = pc[u] /\ pushed'[u] = pushed[u]
        BY <1>1, <3>1 DEF Goto, TypeOK
      <4>2. \A u \in Threads :
              \/ pc'[u] # "enq_push" /\ pc[u] # "enq_push"
              \/ pc'[u] = "enq_push" /\ pc[u] = "enq_push" /\ pushed'[u] = pushed[u]
        BY <3>1, <3>2, <4>1
      <4> QED
        BY <1>1, <3>1, <4>2, SameVisible
    <3>4. Phase(t) = "idle" /\ Phase(t)' = "enqueue"
      BY <3>1, <3>2, PhaseOfPoint, PhaseOfPointNext
    <3>5. batch'[t] = items /\ items \in Seq(Items) \ {<<>>}
      BY <1>1, <2>2, <3>1, ItemsAssumption DEF TypeOK
    <3>6. Fifo!BeginEnqueue(t)
      BY <1>6, <3>1, <3>2, <3>3, <3>4, <3>5 DEF Fifo!BeginEnqueue, Visible, Phases
    <3> QED
      BY <3>6 DEF Fifo!FNext
  <2> QED
    BY <2>1, <2>2
<1>9. ASSUME NEW t \in Threads, EnqueueLock(t) PROVE Good
  <2>1. /\ pc[t] = "enq_lock" /\ Goto(t, "enq_push") /\ holder = NoThread /\ holder' = t
        /\ UNCHANGED <<base, batch, pushed, ret>>
    BY <1>9 DEF EnqueueLock, Lock
  <2>2. pc'[t] = "enq_push" /\ Phases' = [Phases EXCEPT ![t] = Phase(t)']
    BY <1>1, <2>1, PhasesStep
  <2>3. Visible' = Visible
    <3>1. pushed'[t] = 0
      BY <2>1 DEF QueueInv, IndexInRange
    <3>2. HalfPushed = 0 /\ HalfPushed' = 0
      BY <2>1, <2>2, <3>1, ThreadsAssumption DEF HalfPushed
    <3> QED
      BY <2>1, <3>2 DEF Visible
  <2>4. Phase(t)' = Phase(t)
    BY <2>1, <2>2, PhaseOfPoint, PhaseOfPointNext
  <2> QED
    BY <1>2, <1>7, <2>1, <2>2, <2>3, <2>4
<1>10. ASSUME NEW t \in Threads, EnqueuePush(t) PROVE Good
  <2>1. /\ pc[t] = "enq_push" /\ UNCHANGED <<batch, ret>>
        /\ Goto(t, IF pushed[t] + 1 < Len(batch[t]) THEN "enq_push" ELSE "enq_unlock")
    BY <1>10 DEF EnqueuePush
  <2>2. Phases' = [Phases EXCEPT ![t] = Phase(t)']
    BY <1>1, <2>1, PhasesStep
  <2>3. Phase(t) = "enqueue"
    BY <2>1, PhaseOfPoint
  <2>4. CASE pc'[t] = "enq_push" /\ Visible' = Visible
    <3>1. Phase(t)' = Phase(t)
      BY <2>3, <2>4, PhaseOfPointNext
    <3> QED
      BY <1>2, <1>7, <2>1, <2>2, <2>4, <3>1
  <2>5. CASE pc'[t] = "enq_unlock" /\ Visible' = Visible \o batch[t]
    <3>1. Phase(t)' = "done"
      BY <2>5, PhaseOfPointNext
    <3>2. Fifo!TakeEnqueue(t)
      BY <1>6, <2>1, <2>2, <2>3, <2>5, <3>1 DEF Fifo!TakeEnqueue, Visible, Phases
    <3> QED
      BY <3>2 DEF Fifo!FNext
  <2> QED
    BY <1>10, <2>4, <2>5, PushShowsBatch
<1>11. ASSUME NEW t \in Threads, EnqueueUnlock(t) PROVE Good
  <2>1. /\ pc[t] = "enq_unlock" /\ Goto(t, "enq_notify")
        /\ UNCHANGED <<base, batch, pushed, ret>>
    BY <1>11 DEF EnqueueUnlock, Unlock
  <2>2. Visible' = Visible /\ pc'[t] = "enq_notify"
        /\ Phases' = [Phases EXCEPT ![t] = Phase(t)']
    BY <1>5, <2>1
  <2>3. Phase(t)' = Phase(t)
    BY <2>1, <2>2, PhaseOfPoint, PhaseOfPointNext
  <2> QED
    BY <1>2, <1>7, <2>1, <2>2, <2>3
<1>12. ASSUME NEW t \in Threads, EnqueueNotify(t) PROVE Good
  <2>1. pc[t] = "enq_notify" /\ UNCHANGED <<base, holder, batch, pushed, ret>>
    BY <1>12 DEF EnqueueNotify, Signal, Broadcast
  <2>2. /\ pc'[t] = "idle"
        /\ \A u \in Threads \ {t} :
             pc'[u] = pc[u] \/ (pc[u] = "deq_asleep" /\ pc'[u] = "deq_woken")
    <3>1. CASE Signal(t)
      BY <1>1, <2>1, <3>1 DEF Signal, Asleep, Goto
    <3>2. CASE Broadcast(t)
      BY <1>1, <2>1, <3>2 DEF Broadcast, Asleep
    <3> QED
      BY <1>12, <3>1, <3>2 DEF EnqueueNotify
  <2>3. \A u \in Threads \ {t} : Phase(u)' = Phase(u)
    <3>1. ASSUME NEW u \in Threads \ {t} PROVE Phase(u)' = Phase(u)
      <4>1. CASE pc'[u] = pc[u]
        BY <4>1 DEF Phase
      <4>2. CASE pc[u] = "deq_asleep" /\ pc'[u] = "deq_woken"
        BY <4>2, PhaseOfPoint, PhaseOfPointNext
      <4> QED
        BY <2>2, <4>1, <4>2
    <3> QED
      BY <3>1
  <2>4. Phase(t) = "done" /\ Phase(t)' = "idle"
    BY <2>1, <2>2, PhaseOfPoint, PhaseOfPointNext
  <2>5. Phases' = [Phases EXCEPT ![t] = "idle"]
    BY <2>3, <2>4 DEF Phases
  <2>6. Visible' = Visible
    <3>1. \A u \in Threads :
            \/ pc'[u] # "enq_push" /\ pc[u] # "enq_push"
            \/ pc'[u] = "enq_push" /\ pc[u] = "enq_push" /\ pushed'[u] = pushed[u]
      BY <2>1, <2>2
    <3> QED
      BY <1>1, <2>1, <3>1, SameVisible
  <2>7. Fifo!Return(t)
    BY <1>6, <2>1, <2>4, <2>5, <2>6 DEF Fifo!Return, Visible, Phases
  <2> QED
    BY <2>7 DEF Fifo!FNext
\* The steps that only begin a call.
<1>13. ASSUME NEW t \in Threads, NEW point, NEW kind, <<point, kind>> \in
                {<<"deq_lock", "dequeue">>, <<"emp_lock", "empty">>, <<"des_lock", "destroy">>},
              pc[t] = "idle", Goto(t, point), UNCHANGED <<base, holder, batch, pushed, ret>>
       PROVE  Good
  <2>1. point \in {"deq_lock", "emp_lock", "des_lock"} /\ point # "enq_push"
    BY <1>13
  <2>2. Visible' = Visible /\ pc'[t] = point /\ Phases' = [Phases EXCEPT ![t] = Phase(t)']
    BY <1>5, <1>13, <2>1
  <2>3. Phase(t) = "idle" /\ Phase(t)' = kind /\ kind \in {"dequeue", "empty", "destroy"}
    BY <1>13, <2>2, PhaseOfPoint, PhaseOfPointNext
  <2>4. Fifo!BeginRead(t, kind)
    BY <1>6, <1>13, <2>2, <2>3 DEF Fifo!BeginRead, Visible, Phases
  <2> QED
    BY <2>3, <2>4 DEF Fifo!FNext
\* The steps inside a call that show nothing.
<1>14. ASSUME NEW t \in Threads, NEW point, Goto(t, point), UNCHANGED <<base, batch, pushed, ret>>,
              \/ /\ pc[t] \in {"deq_lock", "deq_test", "deq_asleep", "deq_woken"}
                 /\ point \in {"deq_test", "deq_asleep", "deq_woken", "deq_pop"}
              \/ pc[t] = "emp_lock" /\ point = "emp_test"
              \/ pc[t] = "des_lock" /\ point = "des_drain"
              \/ pc[t] \in {"des_unlock", "des_free"} /\ point \in {"des_free", "freed"}
       PROVE  Good
  <2>1. pc[t] # "enq_push" /\ point # "enq_push"
    BY <1>14
  <2>2. Visible' = Visible /\ pc'[t] = point /\ Phases' = [Phases EXCEPT ![t] = Phase(t)']
    BY <1>5, <1>14, <2>1
  <2>3. Phase(t)' = Phase(t)
    BY <1>14, <2>2, PhaseOfPoint, PhaseOfPointNext
  <2> QED
    BY <1>2, <1>7, <1>14, <2>2, <2>3
\* The unlock that a dequeue or a queue_empty returns with.
<1>15. ASSUME NEW t \in Threads, Goto(t, "idle"), UNCHANGED <<base, batch, pushed, ret>>,
              pc[t] \in {"deq_unlock", "emp_unlock"}
       PROVE  Good
  <2>1. Visible' = Visible /\ pc'[t] = "idle" /\ Phases' = [Phases EXCEPT ![t] = Phase(t)']
    BY <1>5, <1>15
  <2>2. Phase(t) = "done" /\ Phase(t)' = "idle"
    BY <1>15, <2>1, PhaseOfPoint, PhaseOfPointNext
  <2>3. Fifo!Return(t)
    BY <1>6, <1>15, <2>1, <2>2 DEF Fifo!Return, Visible, Phases
  <2> QED
    BY <2>3 DEF Fifo!FNext
\* The steps that take effect under the mutex.
<1>16. ASSUME NEW t \in Threads, NEW point, Goto(t, point), holder' = holder,
              pc[t] \in {"deq_pop", "emp_test", "des_drain"},
              point \in {"deq_unlock", "emp_unlock", "des_unlock"}
       PROVE  /\ Visible = base /\ Visible' = base' /\ pc'[t] = point
              /\ Phases' = [Phases EXCEPT ![t] = Phase(t)']
  <2>1. holder = t /\ holder' = t
    BY <1>1, <1>16 DEF MutexOwned, Locked
  <2>2. pc'[t] = point /\ Phases' = [Phases EXCEPT ![t] = Phase(t)']
    BY <1>1, <1>16, PhasesStep
  <2>3. pc[t] # "enq_push" /\ pc'[t] # "enq_push"
    BY <1>16, <2>2
  <2> QED
    BY <1>3, <1>4, <2>1, <2>2, <2>3
<1>17. ASSUME NEW t \in Threads, DequeuePop(t) PROVE Good
  <2>1. /\ pc[t] = "deq_pop" /\ Goto(t, "deq_unlock") /\ holder' = holder
        /\ base # <<>> /\ base' = Tail(base) /\ ret' = [ret EXCEPT ![t] = Head(base)]
        /\ UNCHANGED batch
    BY <1>17 DEF DequeuePop
  <2>2. /\ Visible = base /\ Visible' = base' /\ pc'[t] = "deq_unlock"
        /\ Phases' = [Phases EXCEPT ![t] = Phase(t)']
    BY <1>16, <2>1
  <2>3. Phase(t) = "dequeue" /\ Phase(t)' = "done"
    BY <2>1, <2>2, PhaseOfPoint, PhaseOfPointNext
  <2>4. Fifo!TakeDequeue(t)
    BY <1>6, <2>1, <2>2, <2>3 DEF Fifo!TakeDequeue, Visible, Phases
  <2> QED
    BY <2>4 DEF Fifo!FNext
<1>18. ASSUME NEW t \in Threads, EmptyTest(t) PROVE Good
  <2>1. /\ pc[t] = "emp_test" /\ Goto(t, "emp_unlock") /\ holder' = holder
        /\ ret' = [ret EXCEPT ![t] = IF base = <<>> THEN "empty" ELSE "nonempty"]
        /\ UNCHANGED <<base, batch>>
    BY <1>18 DEF EmptyTest
  <2>2. /\ Visible = base /\ Visible' = base' /\ pc'[t] = "emp_unlock"
        /\ Phases' = [Phases EXCEPT ![t] = Phase(t)']
    BY <1>16, <2>1
  <2>3. Phase(t) = "empty" /\ Phase(t)' = "done"
    BY <2>1, <2>2, PhaseOfPoint, PhaseOfPointNext
  <2>4. Fifo!TakeEmpty(t)
    BY <1>6, <2>1, <2>2, <2>3 DEF Fifo!TakeEmpty, Visible, Phases
  <2> QED
    BY <2>4 DEF Fifo!FNext
<1>19. ASSUME NEW t \in Threads, DestroyDrain(t) PROVE Good
  <2>1. /\ pc[t] = "des_drain" /\ Goto(t, "des_unlock") /\ holder' = holder
        /\ base' = <<>> /\ UNCHANGED <<batch, ret>>
    BY <1>19 DEF DestroyDrain
  <2>2. /\ Visible = base /\ Visible' = base' /\ pc'[t] = "des_unlock"
        /\ Phases' = [Phases EXCEPT ![t] = Phase(t)']
    BY <1>16, <2>1
  <2>3. Phase(t) = "destroy" /\ Phase(t)' = "destroyed"
    BY <2>1, <2>2, PhaseOfPoint, PhaseOfPointNext
  <2>4. Fifo!TakeDestroy(t)
    BY <1>6, <2>1, <2>2, <2>3 DEF Fifo!TakeDestroy, Visible, Phases
  <2> QED
    BY <2>4 DEF Fifo!FNext
<1>20. ASSUME NEW t \in Threads, BeginDequeue(t) \/ BeginEmpty(t) \/ BeginDestroy(t)
       PROVE  Good
  BY <1>13, <1>20 DEF BeginDequeue, BeginEmpty, BeginDestroy
<1>21. ASSUME NEW t \in Threads, DequeueStep(t) \/ SpuriousWakeup(t) PROVE Good
  BY <1>14, <1>15, <1>17, <1>21 DEF DequeueStep, DequeueLock, DequeueTest, DequeueRelock,
     DequeueUnlock, SpuriousWakeup, Lock, Unlock
<1>22. ASSUME NEW t \in Threads, EmptyStep(t) PROVE Good
  BY <1>14, <1>15, <1>18, <1>22 DEF EmptyStep, EmptyLock, EmptyUnlock, Lock, Unlock
<1>23. ASSUME NEW t \in Threads, DestroyStep(t) PROVE Good
  BY <1>14, <1>19, <1>23 DEF DestroyStep, DestroyLock, DestroyUnlock, DestroyFree, Lock, Unlock
<1>24. CASE UNCHANGED queueVars
  <2>1. UNCHANGED <<base, holder, pc, batch, pushed, ret>>
    BY <1>24 DEF queueVars
  <2>2. Visible' = Visible
    BY <2>1 DEF Visible, HalfPushed
  <2>3. Phases' = Phases
    BY <2>1 DEF Phases, Phase
  <2> QED
    BY <1>2, <2>1, <2>2, <2>3
<1>25. CASE QueueNext
  <2>1. PICK t \in Threads : Call(t) \/ QueueStep(t) \/ SpuriousWakeup(t)
    BY <1>25 DEF QueueNext
  <2>2. CASE Call(t)
    BY <1>8, <1>20, <2>2 DEF Call
  <2>3. CASE EnqueueStep(t)
    BY <1>9, <1>10, <1>11, <1>12, <2>3 DEF EnqueueStep
  <2>4. CASE DequeueStep(t) \/ EmptyStep(t) \/ DestroyStep(t) \/ SpuriousWakeup(t)
    BY <1>21, <1>22, <1>23, <2>4
  <2> QED
    BY <2>1, <2>2, <2>3, <2>4 DEF QueueStep
<1> QED
  BY <1>24, <1>25

\* The queue is what gf-student.h promises, for any number of threads, items and batches: every
\* call takes effect at one instant between its call and its return, a batch as a
\* whole, first in first out, although it is made of steps of many threads.
THEOREM QueueRefines == QueueSpec => ImplementsFifo
<1>1. QueueInit => BatchAtBack /\ Fifo!FInit
  <2> SUFFICES ASSUME QueueInit PROVE BatchAtBack /\ Fifo!FInit
    OBVIOUS
  <2>1. TypeOK /\ \A t \in Threads : pc[t] = "idle"
    BY TypeInit DEF QueueInit
  <2>2. Visible = <<>>
    BY <2>1, AllVisible DEF QueueInit
  <2>3. Phases = [t \in Threads |-> "idle"]
    BY <2>1, PhaseOfPoint DEF Phases
  <2>4. BatchAtBack
    BY <2>1 DEF BatchAtBack
  <2> QED
    BY <2>2, <2>3, <2>4 DEF QueueInit, Fifo!FInit, Visible, Phases
<1>2. QueueInv /\ BatchAtBack /\ [QueueNext]_queueVars => BatchAtBack'
  BY BatchStep
<1>3. QueueInv /\ QueueInv' /\ BatchAtBack /\ [QueueNext]_queueVars
        => [Fifo!FNext]_(Fifo!fvars)
  BY StepRefines
<1> QED
  BY <1>1, <1>2, <1>3, QueueInvariant, PTL DEF QueueSpec, ImplementsFifo, Fifo!FSpec

-----------------------------------------------------------------------------
(* Who may be where: the boss never dequeues, workers do nothing else, and *)
(* a worker that has been joined has ended.                                *)

BossPlace ==
  /\ pc[Boss] \in {"idle"} \cup EnqueueAt \cup DestroyAt
  /\ boss \notin {"releasing", "finished"} => pc[Boss] \notin DestroyAt

WorkerPlace ==
  \A w \in Workers :
    /\ pc[w] \in {"idle"} \cup DequeueAt
    /\ at[w] # "dequeue" => pc[w] = "idle"

JoinedPlace ==
  /\ boss \in {"starting", "adding"} => joined = 0
  /\ boss = "joining" => joined < NumWorkers
  /\ boss \in {"releasing", "finished"} => joined = NumWorkers
  /\ \A w \in Workers : w <= joined => at[w] = "exited"

CreatedPlace ==
  /\ boss = "starting" <=> created < NumWorkers
  /\ \A w \in Workers : at[w] = "none" <=> w > created

Control ==
  /\ boss \in BossAt
  /\ created \in 0..NumWorkers
  /\ joined \in 0..NumWorkers
  /\ at \in [Workers -> WorkerAt]

Places ==
  /\ TypeOK /\ IndexInRange /\ Control
  /\ BossPlace /\ WorkerPlace /\ CreatedPlace /\ JoinedPlace

\* A step inside a call stays in that call or ends it, and moves no other
\* thread but a sleeping dequeue.
LEMMA CallPlace ==
  ASSUME TypeOK, NEW t \in Threads, QueueStep(t) \/ SpuriousWakeup(t)
  PROVE  /\ pc[t] # "idle"
         /\ \/ pc[t] \in EnqueueAt /\ pc'[t] \in {"idle"} \cup EnqueueAt
            \/ pc[t] \in DequeueAt /\ pc'[t] \in {"idle"} \cup DequeueAt
            \/ pc[t] \in EmptyAt
            \/ pc[t] \in DestroyAt /\ pc'[t] \in DestroyAt
         /\ \A u \in Threads \ {t} :
              \/ pc'[u] = pc[u]
              \/ pc[u] \in DequeueAt /\ pc'[u] \in DequeueAt
<1> USE DEF TypeOK, Goto, Lock, Unlock, EnqueueAt, DequeueAt, EmptyAt, DestroyAt
<1>1. CASE EnqueueStep(t)
  <2>1. CASE EnqueueLock(t) \/ EnqueueUnlock(t)
    BY <2>1 DEF EnqueueLock, EnqueueUnlock
  <2>2. CASE EnqueuePush(t)
    BY <2>2 DEF EnqueuePush
  <2>3. CASE EnqueueNotify(t)
    BY <2>3 DEF EnqueueNotify, Signal, Broadcast, Asleep
  <2>4. QED
    BY <1>1, <2>1, <2>2, <2>3 DEF EnqueueStep
<1>2. CASE DequeueStep(t)
  BY <1>2 DEF DequeueStep, DequeueLock, DequeueTest, DequeueRelock, DequeuePop, DequeueUnlock
<1>3. CASE EmptyStep(t)
  BY <1>3 DEF EmptyStep, EmptyLock, EmptyTest, EmptyUnlock
<1>4. CASE DestroyStep(t)
  BY <1>4 DEF DestroyStep, DestroyLock, DestroyDrain, DestroyUnlock, DestroyFree
<1>5. CASE SpuriousWakeup(t)
  BY <1>5 DEF SpuriousWakeup
<1>6. QED
  BY <1>1, <1>2, <1>3, <1>4, <1>5 DEF QueueStep

\* The pool begins a call only when the contract of the queue allows it:
\* queue_destroy when no other thread is in a call, and no call after that.
LEMMA PoolKeepsContract == Places /\ [Next]_vars => [QueueNext]_queueVars
<1> SUFFICES ASSUME Places, [Next]_vars PROVE [QueueNext]_queueVars
  OBVIOUS
<1> USE DEF Places, Control
<1>1. Boss \in Threads /\ Workers \subseteq Threads /\ Threads = Workers \cup {Boss}
  BY PoolAssumption
<1>2. ASSUME pc[Boss] \notin DestroyAt PROVE Usable
  BY <1>1, <1>2 DEF WorkerPlace, Usable, DequeueAt, DestroyAt
<1>3. ASSUME boss \in {"releasing", "finished"}, NEW w \in Workers
      PROVE  at[w] = "exited" /\ pc[w] = "idle"
  <2>1. joined = NumWorkers
    BY <1>3 DEF JoinedPlace
  <2>2. w <= joined
    BY <2>1, PoolAssumption DEF Workers
  <2>3. QED
    BY <2>2 DEF JoinedPlace, WorkerPlace
<1>4. CASE AddTasks
  <2>1. PICK tasks \in Batches : BeginEnqueue(Boss, tasks)
    BY <1>4 DEF AddTasks
  <2>2. Usable
    BY <1>2, <1>4 DEF AddTasks, BossPlace
  <2>3. QED
    BY <1>1, <2>1, <2>2 DEF QueueNext, Call
<1>5. CASE Finish
  <2>1. Usable
    BY <1>2, <1>5 DEF Finish, BossPlace
  <2>2. QED
    BY <1>1, <1>5, <2>1, PillsAssumption DEF Finish, QueueNext, Call
<1>6. CASE Release
  <2>1. BeginDestroy(Boss) /\ pc[Boss] = "idle" /\ boss = "releasing"
    BY <1>6 DEF Release, BeginDestroy
  <2>2. Usable
    BY <1>2, <2>1 DEF DestroyAt
  <2>3. Alone(Boss)
    BY <1>1, <1>3, <2>1 DEF Alone
  <2>4. QED
    BY <1>1, <2>1, <2>2, <2>3 DEF QueueNext, Call
<1>7. ASSUME NEW w \in Workers, WorkerAsk(w) PROVE QueueNext
  <2>1. at[w] = "loop" /\ BeginDequeue(w)
    BY <1>7 DEF WorkerAsk
  <2>2. boss \notin {"releasing", "finished"}
    BY <1>3, <2>1
  <2>3. Usable
    BY <1>2, <2>2 DEF BossPlace
  <2>4. QED
    BY <1>1, <2>1, <2>3 DEF QueueNext, Call
<1>8. ASSUME NEW t \in Threads, InQueue(t) PROVE QueueNext
  BY <1>8 DEF InQueue, QueueNext
<1>9. ASSUME NEW w \in Workers, Wakeup(w) PROVE QueueNext
  BY <1>1, <1>9 DEF Wakeup, QueueNext
<1>10. CASE StartWorker \/ Join \/ Finished
  BY <1>10 DEF StartWorker, Join, Finished
<1>11. ASSUME NEW w \in Workers,
              WorkerExit(w) \/ WorkerGot(w) \/ WorkBegins(w) \/ WorkEnds(w)
       PROVE  UNCHANGED queueVars
  BY <1>11 DEF WorkerExit, WorkerGot, WorkBegins, WorkEnds
<1>12. CASE UNCHANGED vars
  BY <1>12 DEF vars
<1>13. QED
  BY <1>1, <1>4, <1>5, <1>6, <1>7, <1>8, <1>9, <1>10, <1>11, <1>12
     DEF Next, BossStep, WorkerStep

\* wp_start is called before any thread uses the pool.
LEMMA PlacesInit == Init => Places
<1> SUFFICES ASSUME Init PROVE Places
  OBVIOUS
<1>1. TypeOK /\ IndexInRange
  BY TypeInit DEF Init
<1>2. pc = [t \in Threads |-> "idle"] /\ boss = "starting" /\ created = 0 /\ joined = 0
      /\ at = [w \in Workers |-> "none"]
  BY DEF Init, QueueInit
<1>3. Boss \in Threads /\ Workers \subseteq Threads /\ NumWorkers \in Nat
      /\ \A w \in Workers : w \in Nat /\ w > 0
  BY PoolAssumption DEF Workers
<1>4. Control
  BY <1>2, <1>3 DEF Control, BossAt, WorkerAt
<1>5. BossPlace /\ WorkerPlace /\ CreatedPlace /\ JoinedPlace
  BY <1>2, <1>3, PoolAssumption DEF BossPlace, WorkerPlace, CreatedPlace, JoinedPlace, DestroyAt
<1>6. QED
  BY <1>1, <1>4, <1>5 DEF Places

\* Every step of the pool leaves its threads where they may be.
LEMMA PlacesStep == Places /\ [Next]_vars => Places'
<1> SUFFICES ASSUME Places, [Next]_vars PROVE Places'
  OBVIOUS
<1>1. TypeOK' /\ IndexInRange'
  BY PoolKeepsContract, TypeStep DEF Places
<1> USE DEF Places
<1> DEFINE Good == Control' /\ BossPlace' /\ WorkerPlace' /\ CreatedPlace' /\ JoinedPlace'
<1> SUFFICES Good
  BY <1>1
<1>2. /\ Boss \in Threads /\ Workers \subseteq Threads /\ Boss \notin Workers
      /\ NumWorkers \in Nat \ {0} /\ Workers = 1..NumWorkers
  BY PoolAssumption DEF Workers
<1>3. pc \in [Threads -> Points]
  BY DEF TypeOK
<1>4. CASE StartWorker
  <2>1. /\ boss = "starting" /\ created < NumWorkers /\ created' = created + 1
        /\ at' = [at EXCEPT ![created + 1] = "loop"]
        /\ boss' = IF created + 1 = NumWorkers THEN "adding" ELSE "starting"
        /\ joined' = joined /\ pc' = pc /\ joined = 0
    BY <1>4 DEF StartWorker, queueVars, JoinedPlace
  <2>2. Control'
    BY <1>2, <2>1 DEF Control, BossAt, WorkerAt
  <2>3. CreatedPlace'
    BY <1>2, <2>1 DEF Control, CreatedPlace
  <2>4. BossPlace' /\ JoinedPlace'
    BY <1>2, <1>3, <2>1 DEF Control, BossPlace, JoinedPlace
  <2>5. WorkerPlace'
    BY <1>2, <1>3, <2>1 DEF Control, WorkerPlace, CreatedPlace
  <2>6. QED
    BY <2>2, <2>3, <2>4, <2>5
<1>5. CASE AddTasks \/ Finish
  <2>1. /\ boss = "adding" /\ boss' \in {"adding", "joining"}
        /\ joined = 0 /\ UNCHANGED <<created, joined, at>>
    BY <1>5 DEF AddTasks, Finish, JoinedPlace
  <2>2. pc' = pc \/ pc' = [pc EXCEPT ![Boss] = "enq_lock"]
    BY <1>5 DEF AddTasks, Finish, BeginEnqueue, Goto
  <2>3. QED
    BY <1>2, <1>3, <2>1, <2>2 DEF Control, BossPlace, WorkerPlace, CreatedPlace, JoinedPlace,
       BossAt, EnqueueAt, DestroyAt
<1>6. CASE Join
  <2>1. /\ boss = "joining" /\ at[joined + 1] = "exited" /\ joined' = joined + 1
        /\ boss' = IF joined + 1 = NumWorkers THEN "releasing" ELSE "joining"
        /\ UNCHANGED <<pc, created, at>>
        /\ pc[Boss] = "idle"
    BY <1>6 DEF Join, queueVars
  <2>2. joined < NumWorkers /\ joined \in Nat
    BY <1>2, <2>1 DEF JoinedPlace, Control
  <2>3. \A w \in Workers : w <= joined' => at'[w] = "exited"
    BY <1>2, <2>1, <2>2 DEF JoinedPlace
  <2>4. Control' /\ JoinedPlace' /\ CreatedPlace'
    BY <1>2, <2>1, <2>2, <2>3 DEF Control, BossAt, JoinedPlace, CreatedPlace
  <2>5. BossPlace' /\ WorkerPlace'
    BY <2>1 DEF BossPlace, WorkerPlace, DestroyAt
  <2>6. QED
    BY <2>4, <2>5
<1>7. CASE Release \/ Finished
  <2>1. /\ boss = "releasing" /\ boss' \in {"releasing", "finished"}
        /\ UNCHANGED <<created, joined, at>>
    BY <1>7 DEF Release, Finished, poolVars
  <2>2. pc' = pc \/ pc' = [pc EXCEPT ![Boss] = "des_lock"]
    BY <1>7 DEF Release, Finished, BeginDestroy, Goto, queueVars
  <2>3. QED
    BY <1>2, <1>3, <2>1, <2>2 DEF Control, BossPlace, WorkerPlace, CreatedPlace, JoinedPlace,
       BossAt, DestroyAt
<1>8. ASSUME NEW w \in Workers, WorkerAsk(w) PROVE Good
  <2>1. /\ at[w] = "loop" /\ at' = [at EXCEPT ![w] = "dequeue"]
        /\ pc' = [pc EXCEPT ![w] = "deq_lock"]
        /\ UNCHANGED <<boss, created, joined>>
    BY <1>8 DEF WorkerAsk, BeginDequeue, Goto
  <2>2. QED
    BY <1>2, <1>3, <2>1 DEF Control, BossPlace, WorkerPlace, CreatedPlace, JoinedPlace,
       WorkerAt, DequeueAt
<1>9. ASSUME NEW w \in Workers, WorkerExit(w) \/ WorkerGot(w) \/ WorkBegins(w) \/ WorkEnds(w)
      PROVE  Good
  <2>1. /\ at[w] \in {"dequeue", "holding", "working"} /\ pc[w] = "idle"
        /\ UNCHANGED <<pc, boss, created, joined>>
    BY <1>9 DEF WorkerExit, WorkerGot, WorkBegins, WorkEnds, queueVars, WorkerPlace
  <2>2. PICK a \in {"exited", "holding", "working", "loop"} : at' = [at EXCEPT ![w] = a]
    BY <1>9, Zenon DEF WorkerExit, WorkerGot, WorkBegins, WorkEnds
  <2>3. QED
    BY <1>2, <2>1, <2>2 DEF Control, BossPlace, WorkerPlace, CreatedPlace, JoinedPlace, WorkerAt
<1>10. ASSUME NEW t \in Threads, InQueue(t) \/ (t \in Workers /\ Wakeup(t)) PROVE Good
  <2>1. (QueueStep(t) \/ SpuriousWakeup(t)) /\ UNCHANGED <<boss, created, joined, at>>
    BY <1>10 DEF InQueue, Wakeup, poolVars
  <2>2. Control' /\ CreatedPlace' /\ JoinedPlace'
    BY <2>1 DEF Control, CreatedPlace, JoinedPlace
  <2>3. /\ EnqueueAt \cap DestroyAt = {} /\ EnqueueAt \cap DequeueAt = {}
        /\ EmptyAt \cap DequeueAt = {} /\ EmptyAt \cap EnqueueAt = {}
        /\ EmptyAt \cap DestroyAt = {} /\ DequeueAt \cap DestroyAt = {}
        /\ "idle" \notin EnqueueAt \cup DequeueAt \cup EmptyAt \cup DestroyAt
    BY DEF EnqueueAt, DequeueAt, EmptyAt, DestroyAt
  <2>4. BossPlace'
    BY <1>2, <2>1, <2>3, CallPlace DEF BossPlace
  <2>5. WorkerPlace'
    BY <1>2, <2>1, <2>3, CallPlace DEF WorkerPlace
  <2>6. QED
    BY <2>2, <2>4, <2>5
<1>11. CASE UNCHANGED vars
  BY <1>11 DEF vars, queueVars, poolVars, Control, BossPlace, WorkerPlace, CreatedPlace, JoinedPlace
<1>12. QED
  BY <1>1, <1>2, <1>4, <1>5, <1>6, <1>7, <1>8, <1>9, <1>10, <1>11
     DEF Next, BossStep, WorkerStep

DataPlace ==
  /\ data \in [Workers -> {"none", "live", "destroyed"}]
  /\ DataOutlivesWorker

\* No worker has data before it is created.
LEMMA DataInit == Init => DataPlace
BY PoolAssumption DEF Init, DataPlace, DataOutlivesWorker, Workers

\* A worker's data is made before its thread and destroyed after its join.
LEMMA DataStep == Places /\ DataPlace /\ [Next]_vars => DataPlace'
<1> SUFFICES ASSUME Places, DataPlace, [Next]_vars PROVE DataPlace'
  OBVIOUS
<1> USE DEF DataPlace
<1>1. /\ NumWorkers \in Nat /\ Workers = 1..NumWorkers
      /\ created \in 0..NumWorkers /\ joined \in 0..NumWorkers
  BY PoolAssumption DEF Workers, Places, Control
<1>2. \A w \in Workers :
        at'[w] \notin {"none", "exited"} => w <= created' /\ w > joined'
  BY <1>1, PlacesStep DEF Places, Control, CreatedPlace, JoinedPlace
<1> SUFFICES /\ data' \in [Workers -> {"none", "live", "destroyed"}]
             /\ \A w \in Workers : data'[w] = "live" <=> (w <= created' /\ w > joined')
  BY <1>2 DEF DataOutlivesWorker
<1>3. CASE StartWorker
  <2>1. /\ created < NumWorkers /\ created' = created + 1 /\ joined' = joined /\ joined = 0
        /\ data' = [data EXCEPT ![created + 1] = "live"]
    BY <1>3 DEF StartWorker, Places, JoinedPlace
  <2>2. QED
    BY <1>1, <2>1 DEF DataOutlivesWorker
<1>4. CASE Join
  <2>1. /\ joined < NumWorkers /\ joined' = joined + 1 /\ created' = created
        /\ data' = [data EXCEPT ![joined + 1] = "destroyed"]
    BY <1>4 DEF Join, Places, JoinedPlace
  <2>2. QED
    BY <1>1, <2>1 DEF DataOutlivesWorker
<1>5. CASE UNCHANGED <<data, created, joined>>
  BY <1>5 DEF DataOutlivesWorker
<1>6. [StartWorker \/ Join]_<<data, created, joined>>
  BY DEF Next, BossStep, WorkerStep, AddTasks, Finish, Release, Finished, WorkerAsk, WorkerExit,
         WorkerGot, WorkBegins, WorkEnds, InQueue, Wakeup, vars, poolVars
<1>7. QED
  BY <1>3, <1>4, <1>5, <1>6

-----------------------------------------------------------------------------
(* The contract of the queue, and the data of the workers.                 *)

\* wp_start, wp_add_tasks, wp_finish and worker_work_ keep every thread where
\* the queue's contract needs it.
THEOREM PoolPlaces == Spec => []Places
<1>1. Places /\ [Next]_vars => Places'
  BY PlacesStep
<1>2. QED
  BY PlacesInit, <1>1, PTL DEF Spec

\* queue_destroy is called when no other thread is in a call of the queue, and
\* nobody calls the queue after that, for any number of workers and tasks.
THEOREM PoolKeepsQueueContract == Spec => KeepsQueueContract
<1>1. Init => QueueInit
  BY DEF Init
<1>2. Places /\ [Next]_vars => [QueueNext]_queueVars
  BY PoolKeepsContract
<1>3. QED
  BY <1>1, <1>2, PoolPlaces, PTL DEF Spec, KeepsQueueContract, QueueSpec

\* So the queue's invariant holds in the pool: no worker pops from an empty
\* steque, and no worker sleeps next to a task or a pill nobody comes for.
THEOREM PoolQueueInvariant == Spec => []QueueInv
BY PoolKeepsQueueContract, QueueInvariant DEF KeepsQueueContract

\* destroyWorkerData is called for workers whose thread has ended only, and the
\* data is there as long as its worker may use it.
THEOREM PoolData == Spec => []DataOutlivesWorker
<1>1. Places /\ DataPlace /\ [Next]_vars => DataPlace'
  BY DataStep
<1>2. DataPlace => DataOutlivesWorker
  BY DEF DataPlace
<1>3. QED
  BY DataInit, PoolPlaces, <1>1, <1>2, PTL DEF Spec

-----------------------------------------------------------------------------
(* Sequences and their members.                                            *)

\* Appending adds one member.
LEMMA MembersAppend ==
  ASSUME NEW S, NEW s \in Seq(S), NEW x \in S
  PROVE  Members(Append(s, x)) = Members(s) \cup {x}
<1>1. /\ Append(s, x) \in Seq(S) /\ Len(Append(s, x)) = Len(s) + 1
      /\ \A i \in 1..Len(s) : Append(s, x)[i] = s[i]
      /\ Append(s, x)[Len(s) + 1] = x
  BY AppendProperties
<1>2. /\ DOMAIN s = 1..Len(s) /\ Len(s) \in Nat
      /\ DOMAIN Append(s, x) = 1..(Len(s) + 1)
  BY <1>1
<1>3. QED
  BY <1>1, <1>2 DEF Members

\* A sequence has its head and the members of its tail, and no others.
LEMMA MembersTail ==
  ASSUME NEW S, NEW s \in Seq(S), s # <<>>
  PROVE  /\ Members(s) = {Head(s)} \cup Members(Tail(s))
         /\ \A i \in DOMAIN Tail(s) : i + 1 \in DOMAIN s /\ Tail(s)[i] = s[i + 1]
<1>1. /\ Tail(s) \in Seq(S) /\ Head(s) = s[1]
      /\ DOMAIN s = 1..Len(s) /\ Len(s) \in Nat \ {0}
      /\ DOMAIN Tail(s) = 1..(Len(s) - 1)
      /\ \A i \in 1..(Len(s) - 1) : Tail(s)[i] = s[i + 1]
  BY HeadTailProperties
<1>2. ASSUME NEW j \in 1..Len(s) PROVE s[j] \in {Head(s)} \cup Members(Tail(s))
  <2>1. CASE j = 1
    BY <1>1, <2>1
  <2>2. CASE j # 1
    <3>1. j - 1 \in 1..(Len(s) - 1) /\ (j - 1) + 1 = j
      BY <1>1, <2>2
    <3>2. Tail(s)[j - 1] = s[j]
      BY <1>1, <3>1
    <3>3. QED
      BY <1>1, <3>1, <3>2 DEF Members
  <2>3. QED
    BY <2>1, <2>2
<1>3. \A i \in DOMAIN Tail(s) : i + 1 \in DOMAIN s /\ Tail(s)[i] = s[i + 1]
  BY <1>1
<1>4. Head(s) \in Members(s) /\ Members(Tail(s)) \subseteq Members(s)
  BY <1>1, <1>3 DEF Members
<1>5. Members(s) \subseteq {Head(s)} \cup Members(Tail(s))
  BY <1>1, <1>2 DEF Members
<1>6. QED
  BY <1>3, <1>4, <1>5

\* Joining two sequences joins their members.
LEMMA MembersConcat ==
  ASSUME NEW S, NEW s \in Seq(S), NEW r \in Seq(S)
  PROVE  Members(s \o r) = Members(s) \cup Members(r)
<1>1. /\ DOMAIN s = 1..Len(s) /\ Len(s) \in Nat
      /\ DOMAIN r = 1..Len(r) /\ Len(r) \in Nat
      /\ DOMAIN (s \o r) = 1..(Len(s) + Len(r))
      /\ \A i \in 1..(Len(s) + Len(r)) :
           (s \o r)[i] = IF i <= Len(s) THEN s[i] ELSE r[i - Len(s)]
  BY ConcatProperties
<1>2. \A i \in 1..Len(s) : i \in 1..(Len(s) + Len(r)) /\ (s \o r)[i] = s[i]
  BY <1>1
<1>3. \A i \in 1..Len(r) :
        Len(s) + i \in 1..(Len(s) + Len(r)) /\ (s \o r)[Len(s) + i] = r[i]
  BY <1>1
<1>4. \A i \in 1..(Len(s) + Len(r)) :
        \/ i \in 1..Len(s) /\ (s \o r)[i] = s[i]
        \/ i - Len(s) \in 1..Len(r) /\ (s \o r)[i] = r[i - Len(s)]
  BY <1>1
<1>5. Members(s \o r) \subseteq Members(s) \cup Members(r)
  BY <1>1, <1>4 DEF Members
<1>6. Members(s) \subseteq Members(s \o r)
  BY <1>1, <1>2 DEF Members
<1>7. Members(r) \subseteq Members(s \o r)
  BY <1>1, <1>3 DEF Members
<1>8. QED
  BY <1>5, <1>6, <1>7

-----------------------------------------------------------------------------
(* Where a task is.                                                        *)

\* What the boss has yet to push of its batch.
Left ==
  IF pc[Boss] \in {"enq_lock", "enq_push"}
    THEN {batch[Boss][i] : i \in {j \in DOMAIN batch[Boss] : j > pushed[Boss]}}
    ELSE {}

Waiting == Members(base) \cup Left

Added == Members(added)

Taken == Members(taken)

\* The workers that have popped something and have not finished with it.
Holders ==
  {w \in Workers :
     \/ at[w] \in {"holding", "working"}
     \/ at[w] = "dequeue" /\ pc[w] \in {"deq_unlock", "idle"}}

\* The workers that have popped a pill.
Enders == {w \in Workers : at[w] = "exited" \/ (w \in Holders /\ ret[w] = Pill)}

History ==
  /\ added \in Seq(Tasks)
  /\ taken \in Seq(Tasks)
  /\ started \in Seq(Tasks)
  /\ done \subseteq Tasks

Accounted ==
  /\ Added \subseteq Taken \cup Waiting
  /\ Taken \subseteq Added /\ done \subseteq Added /\ Waiting \ {Pill} \subseteq Added
  /\ \A w \in Holders : ret[w] \in Added \cup {Pill}
  /\ \A w \in Holders : at[w] \in {"holding", "working"} => ret[w] # Pill
  /\ \A x \in Taken : x \in done \/ \E w \in Holders : ret[w] = x

PillOrder ==
  /\ boss \in {"starting", "adding"} => Pill \notin Waiting /\ Enders = {}
  /\ boss \notin {"starting", "adding"} => Left \subseteq {Pill}
  /\ Enders # {} => Waiting \subseteq {Pill}
  /\ PillsLast

Ledger == History /\ Accounted /\ PillOrder

\* At first there is nothing anywhere.
LEMMA LedgerInit == Init => Ledger
<1> SUFFICES ASSUME Init PROVE Ledger
  OBVIOUS
<1>1. /\ base = <<>> /\ added = <<>> /\ taken = <<>> /\ started = <<>> /\ done = {}
      /\ pc = [t \in Threads |-> "idle"] /\ at = [w \in Workers |-> "none"]
      /\ boss = "starting" /\ Boss \in Threads /\ Workers \subseteq Threads
  BY PoolAssumption DEF Init, QueueInit
<1>2. Added = {} /\ Taken = {} /\ Waiting = {} /\ Left = {}
  BY <1>1 DEF Added, Taken, Waiting, Left, Members
<1>3. Holders = {} /\ Enders = {}
  BY <1>1 DEF Holders, Enders
<1>4. PillsLast
  BY <1>1 DEF PillsLast
<1>5. QED
  BY <1>1, <1>2, <1>3, <1>4 DEF Ledger, History, Accounted, PillOrder

-----------------------------------------------------------------------------
(* What the steps inside a call do to what is waiting.                     *)

\* A push moves one item from the batch of the boss to the end of the queue.
LEMMA PushEffect ==
  ASSUME Places, EnqueuePush(Boss), UNCHANGED at
  PROVE  /\ \E x \in Left : base' = Append(base, x)
         /\ Waiting' = Waiting /\ Left' \subseteq Left
         /\ Holders' = Holders /\ UNCHANGED ret
<1> DEFINE b == batch[Boss]
           n == pushed[Boss]
           x == b[n + 1]
<1>1. /\ Boss \in Threads /\ Boss \notin Workers /\ Workers \subseteq Threads
      /\ b \in Seq(Items) /\ n \in Nat /\ base \in Seq(Items)
      /\ pushed \in [Threads -> Nat] /\ pc \in [Threads -> Points]
  BY PoolAssumption DEF Places, TypeOK
<1>2. /\ pc[Boss] = "enq_push" /\ base' = Append(base, x) /\ ret' = ret /\ batch' = batch
      /\ pushed' = [pushed EXCEPT ![Boss] = n + 1]
      /\ n < Len(b)
  BY <1>1 DEF EnqueuePush, Places, IndexInRange
<1>3. \/ pc' = [pc EXCEPT ![Boss] = "enq_push"]
      \/ pc' = [pc EXCEPT ![Boss] = "enq_unlock"] /\ ~(n + 1 < Len(b))
  BY Zenon DEF EnqueuePush, Goto
<1>4. DOMAIN b = 1..Len(b) /\ Len(b) \in Nat /\ n + 1 \in DOMAIN b
  BY <1>1, <1>2
<1>5. x \in Items
  BY <1>1, <1>4, ElementOfSeq
<1>6. Left = {b[i] : i \in {j \in DOMAIN b : j > n}}
  BY <1>2 DEF Left
<1>7. x \in Left
  BY <1>1, <1>4, <1>6
<1>8. Left' = {b[i] : i \in {j \in DOMAIN b : j > n + 1}}
  <2>1. pushed'[Boss] = n + 1 /\ batch'[Boss] = b
    BY <1>1, <1>2
  <2>2. CASE pc'[Boss] = "enq_push"
    BY <2>1, <2>2 DEF Left
  <2>3. CASE pc'[Boss] = "enq_unlock" /\ ~(n + 1 < Len(b))
    <3>1. {j \in DOMAIN b : j > n + 1} = {}
      BY <1>1, <1>4, <2>3
    <3>2. Left' = {}
      BY <2>3 DEF Left
    <3>3. QED
      BY <3>1, <3>2
  <2>4. QED
    BY <1>1, <1>3, <2>2, <2>3
<1>9. Left = Left' \cup {x}
  BY <1>1, <1>4, <1>6, <1>8
<1>10. Members(base') = Members(base) \cup {x}
  BY <1>1, <1>2, <1>5, MembersAppend
<1>11. Waiting' = Waiting
  BY <1>9, <1>10 DEF Waiting
<1>12. \A w \in Workers : pc'[w] = pc[w]
  BY <1>1, <1>3
<1>13. Holders' = Holders
  BY <1>12 DEF Holders
<1>14. QED
  BY <1>2, <1>7, <1>9, <1>11, <1>13

\* A pop takes the first item, which the worker then holds.
LEMMA PopEffect ==
  ASSUME Places, NEW w \in Workers, DequeuePop(w), at[w] = "dequeue", UNCHANGED at
  PROVE  /\ base \in Seq(Items) /\ base # <<>> /\ base' = Tail(base)
         /\ Waiting = {Head(base)} \cup Waiting' /\ Left' = Left /\ Unpushed' = Unpushed
         /\ w \notin Holders /\ Holders' = Holders \cup {w}
         /\ ret' = [ret EXCEPT ![w] = Head(base)] /\ w \in DOMAIN ret
<1>1. /\ Boss \notin Workers /\ Workers \subseteq Threads /\ w \in Threads
      /\ base \in Seq(Items) /\ pc \in [Threads -> Points] /\ DOMAIN ret = Threads
  BY PoolAssumption DEF Places, TypeOK
<1>2. /\ pc[w] = "deq_pop" /\ base # <<>> /\ base' = Tail(base)
      /\ pc' = [pc EXCEPT ![w] = "deq_unlock"]
      /\ ret' = [ret EXCEPT ![w] = Head(base)]
      /\ UNCHANGED <<batch, pushed>>
  BY DEF DequeuePop, Goto
<1>3. Members(base) = {Head(base)} \cup Members(base')
  BY <1>1, <1>2, MembersTail
<1>4. Left' = Left /\ Unpushed' = Unpushed
  <2>1. Boss \in Threads /\ pc'[Boss] = pc[Boss]
    BY <1>1, <1>2, PoolAssumption
  <2>2. QED
    BY <1>2, <2>1 DEF Left, Unpushed
<1>5. Waiting = {Head(base)} \cup Waiting'
  BY <1>3, <1>4 DEF Waiting
<1>6. w \notin Holders /\ Holders' = Holders \cup {w}
  BY <1>1, <1>2 DEF Holders
<1>7. QED
  BY <1>1, <1>2, <1>4, <1>5, <1>6

\* No other step of a call moves an item, but for queue_destroy.
LEMMA OtherEffect ==
  ASSUME Places, NEW t \in Threads, UNCHANGED at,
         QueueStep(t) \/ (t \in Workers /\ SpuriousWakeup(t)),
         ~ (t = Boss /\ EnqueuePush(t)), ~ (t \in Workers /\ DequeuePop(t))
  PROVE  /\ Left' = Left /\ Unpushed' = Unpushed /\ Holders' = Holders /\ UNCHANGED ret
         /\ UNCHANGED base \/ (DestroyDrain(Boss) /\ base' = <<>>)
<1>1. /\ Boss \in Threads /\ Boss \notin Workers /\ Workers \subseteq Threads
      /\ Threads = Workers \cup {Boss} /\ pc \in [Threads -> Points]
      /\ \A w \in Workers : pc[w] \in {"idle"} \cup DequeueAt
      /\ \A w \in Workers : at[w] # "dequeue" => pc[w] = "idle"
      /\ pc[Boss] \in {"idle"} \cup EnqueueAt \cup DestroyAt
  BY PoolAssumption DEF Places, TypeOK, BossPlace, WorkerPlace
<1> USE DEF Goto, Lock, Unlock
<1>2. CASE t = Boss
  <2>1. \/ EnqueueLock(t) \/ EnqueueUnlock(t) \/ EnqueueNotify(t)
        \/ DestroyLock(t) \/ DestroyUnlock(t) \/ DestroyFree(t)
        \/ DestroyDrain(t)
    BY <1>1, <1>2 DEF QueueStep, EnqueueStep, DequeueStep, EmptyStep, DestroyStep,
       DequeueLock, DequeueTest, DequeueRelock, DequeuePop, DequeueUnlock,
       EmptyLock, EmptyTest, EmptyUnlock, EnqueueAt, DestroyAt
  <2>2. CASE EnqueueLock(t)
    BY <1>1, <1>2, <2>2 DEF EnqueueLock, Left, Unpushed, Holders
  <2>3. CASE EnqueueUnlock(t) \/ DestroyLock(t) \/ DestroyUnlock(t) \/ DestroyFree(t)
    BY <1>1, <1>2, <2>3 DEF EnqueueUnlock, DestroyLock, DestroyUnlock, DestroyFree, Left,
          Unpushed, Holders
  <2>4. CASE EnqueueNotify(t)
    <3>1. UNCHANGED <<base, batch, pushed, ret>> /\ pc'[Boss] = "idle" /\ pc[Boss] = "enq_notify"
      BY <1>1, <1>2, <2>4 DEF EnqueueNotify, Signal, Broadcast, Asleep
    <3>2. \A w \in Workers :
            pc'[w] = pc[w] \/ (pc[w] = "deq_asleep" /\ pc'[w] = "deq_woken")
      BY <1>1, <1>2, <2>4 DEF EnqueueNotify, Signal, Broadcast, Asleep
    <3>3. QED
      BY <3>1, <3>2 DEF Left, Unpushed, Holders
  <2>5. CASE DestroyDrain(t)
    BY <1>1, <1>2, <2>5 DEF DestroyDrain, Left, Unpushed, Holders
  <2>6. QED
    BY <2>1, <2>2, <2>3, <2>4, <2>5
<1>3. CASE t \in Workers
  <2>1. \/ DequeueLock(t) \/ DequeueTest(t) \/ DequeueRelock(t) \/ DequeueUnlock(t)
        \/ SpuriousWakeup(t)
    BY <1>1, <1>3 DEF QueueStep, EnqueueStep, DequeueStep, EmptyStep, DestroyStep,
       EnqueueLock, EnqueuePush, EnqueueUnlock, EnqueueNotify,
       DestroyLock, DestroyDrain, DestroyUnlock, DestroyFree,
       EmptyLock, EmptyTest, EmptyUnlock, DequeueAt
  <2>2. /\ UNCHANGED <<base, batch, pushed, ret>> /\ pc'[Boss] = pc[Boss]
        /\ \A w \in Workers \ {t} : pc'[w] = pc[w]
        /\ pc[t] \in {"deq_unlock", "idle"} <=> pc'[t] \in {"deq_unlock", "idle"}
    BY <1>1, <1>3, <2>1 DEF DequeueLock, DequeueTest, DequeueRelock, DequeueUnlock, SpuriousWakeup
  <2>3. QED
    BY <1>1, <1>3, <2>2 DEF Left, Unpushed, Holders
<1>4. QED
  BY <1>1, <1>2, <1>3

\* Only a pop takes a task.
LEMMA TakenStays ==
  ASSUME Places, NEW t \in Threads, InQueue(t) \/ (t \in Workers /\ Wakeup(t)),
         ~ (t \in Workers /\ DequeuePop(t))
  PROVE  taken' = taken
<1>1. CASE InQueue(t)
  <2>1. pc[t] # "deq_pop"
    <3>1. SUFFICES ASSUME pc[t] = "deq_pop"
                   PROVE  FALSE
      OBVIOUS
    <3>2. t \in Workers
      BY <3>1, PoolAssumption DEF Places, BossPlace, EnqueueAt, DestroyAt
    <3>3. DequeuePop(t)
      BY <1>1, <3>1 DEF InQueue, QueueStep, EnqueueStep, DequeueStep, EmptyStep, DestroyStep,
         EnqueueLock, EnqueuePush, EnqueueUnlock, EnqueueNotify, DequeueLock, DequeueTest,
         DequeueRelock, DequeueUnlock, EmptyLock, EmptyTest, EmptyUnlock, DestroyLock,
         DestroyDrain, DestroyUnlock, DestroyFree
    <3> QED
      BY <3>2, <3>3
  <2> QED
    BY <1>1, <2>1 DEF InQueue
<1>2. CASE Wakeup(t)
  BY <1>2 DEF Wakeup, poolVars
<1> QED
  BY <1>1, <1>2

-----------------------------------------------------------------------------
(* Every step keeps the ledger.                                            *)

\* The boss hands over a batch: it is waiting as soon as the call has begun.
LEMMA HandOver ==
  ASSUME Places, NEW items \in Seq(Items), BeginEnqueue(Boss, items), UNCHANGED at
  PROVE  /\ Left = {} /\ Left' = Members(items) /\ UNCHANGED <<base, ret>>
         /\ Unpushed = <<>> /\ Unpushed' = items
         /\ Holders' = Holders
<1>1. /\ Boss \in Threads /\ Boss \notin Workers /\ Workers \subseteq Threads
      /\ pc \in [Threads -> Points] /\ batch \in [Threads -> Seq(Items)]
      /\ pushed \in [Threads -> Nat]
  BY PoolAssumption DEF Places, TypeOK
<1>2. Left = {} /\ Unpushed = <<>> /\ UNCHANGED <<base, ret>> /\ pc[Boss] = "idle"
  BY DEF BeginEnqueue, Left, Unpushed
<1>3. CASE items = <<>>
  <2>1. pc' = pc
    BY <1>3 DEF BeginEnqueue
  <2>2. QED
    BY <1>2, <1>3, <2>1 DEF Left, Unpushed, Holders, Members
<1>4. CASE items # <<>>
  <2>1. /\ pc' = [pc EXCEPT ![Boss] = "enq_lock"] /\ batch' = [batch EXCEPT ![Boss] = items]
        /\ pushed' = [pushed EXCEPT ![Boss] = 0]
    BY <1>4 DEF BeginEnqueue, Goto
  <2>2. Left' = {items[i] : i \in {j \in DOMAIN items : j > 0}}
    BY <1>1, <2>1 DEF Left
  <2>3. \A j \in DOMAIN items : j > 0
    OBVIOUS
  <2>4. Left' = Members(items)
    BY <2>2, <2>3 DEF Members
  <2>5. Holders' = Holders
    BY <1>1, <2>1 DEF Holders
  <2>6. Unpushed' = items
    <3>1. Unpushed' = SubSeq(items, 1, Len(items))
      BY <1>1, <2>1 DEF Unpushed
    <3>2. QED
      BY <3>1, SubSeqFull
  <2>7. QED
    BY <1>2, <2>4, <2>5, <2>6
<1>5. QED
  BY <1>3, <1>4

\* Every step of the pool moves a task on, and loses or invents none.
LEMMA LedgerStep == Places /\ Ledger /\ [Next]_vars => Ledger'
<1> SUFFICES ASSUME Places, Ledger, [Next]_vars PROVE Ledger'
  OBVIOUS
<1> USE DEF Ledger
<1>1. /\ Boss \in Threads /\ Boss \notin Workers /\ Workers \subseteq Threads
      /\ Threads = Workers \cup {Boss}
      /\ Items = Tasks \cup {Pill} /\ Pill \notin Tasks
      /\ base \in Seq(Items) /\ at \in [Workers -> WorkerAt]
      /\ ret \in [Threads -> Items \cup {NoItem, "empty", "nonempty"}]
  BY PoolAssumption DEF Places, TypeOK, Control
<1>2. Added \subseteq Tasks /\ Pill \notin Added
  BY <1>1 DEF Added, Members, History
<1>3. ASSUME UNCHANGED <<added, taken, started, done>>
      PROVE  History' /\ Added' = Added /\ Taken' = Taken /\ done' = done
  BY <1>3 DEF History, Added, Taken
<1>4. ASSUME UNCHANGED <<pc, base, batch, pushed>>
      PROVE  Left' = Left /\ Waiting' = Waiting /\ PillsLast' = PillsLast
  BY <1>4 DEF Left, Waiting, PillsLast
<1>5. CASE StartWorker
  <2>1. /\ created + 1 \in Workers /\ at[created + 1] = "none"
        /\ at' = [at EXCEPT ![created + 1] = "loop"]
        /\ boss = "starting" /\ boss' \in {"starting", "adding"}
        /\ UNCHANGED <<queueVars, added, taken, started, done>>
    BY <1>5, PoolAssumption DEF StartWorker, Places, Control, CreatedPlace, Workers
  <2>2. UNCHANGED <<pc, base, batch, pushed, ret>>
    BY <2>1 DEF queueVars
  <2>3. Holders' = Holders
    BY <1>1, <2>1, <2>2 DEF Holders
  <2>4. Enders' = Enders
    BY <1>1, <2>1, <2>2, <2>3 DEF Enders
  <2>5. \A w \in Holders : at'[w] = at[w]
    BY <1>1, <2>1 DEF Holders
  <2>6. QED
    BY <1>3, <1>4, <2>1, <2>2, <2>3, <2>4, <2>5 DEF Accounted, PillOrder
<1>6. CASE AddTasks
  <2>1. PICK tasks \in Batches \cap Seq(Tasks) :
          BeginEnqueue(Boss, tasks) /\ added' = added \o tasks
    BY <1>6 DEF AddTasks
  <2>2. boss = "adding" /\ UNCHANGED <<boss, at, taken, started, done>>
    BY <1>6 DEF AddTasks
  <2>3. tasks \in Seq(Items)
    BY ItemsAssumption
  <2>4. /\ Left = {} /\ Left' = Members(tasks) /\ UNCHANGED <<base, ret>>
        /\ Holders' = Holders
    BY <2>1, <2>2, <2>3, HandOver
  <2>5. Members(tasks) \subseteq Tasks
    BY DEF Members
  <2>6. Added' = Added \cup Members(tasks) /\ History'
    BY <2>1, <2>2, MembersConcat DEF Added, History
  <2>7. Waiting' = Waiting \cup Members(tasks) /\ Taken' = Taken /\ PillsLast' = PillsLast
    BY <2>2, <2>4 DEF Waiting, Taken, PillsLast
  <2>8. Enders' = Enders
    BY <2>2, <2>4 DEF Enders
  <2>9. Accounted'
    BY <2>2, <2>4, <2>6, <2>7 DEF Accounted
  <2>10. PillOrder'
    BY <1>1, <2>2, <2>5, <2>7, <2>8 DEF PillOrder
  <2>11. QED
    BY <2>6, <2>9, <2>10
<1>7. CASE Finish
  <2>1. /\ boss = "adding" /\ BeginEnqueue(Boss, Pills) /\ boss' = "joining"
        /\ UNCHANGED <<at, added, taken, started, done>>
    BY <1>7 DEF Finish
  <2>2. Pills \in Seq(Items)
    BY PillsAssumption, ItemsAssumption
  <2>3. /\ Left = {} /\ Left' = Members(Pills) /\ UNCHANGED <<base, ret>>
        /\ Holders' = Holders
    BY <2>1, <2>2, HandOver
  <2>4. Members(Pills) \subseteq {Pill}
    BY DEF Members, Pills
  <2>5. /\ Waiting \subseteq Waiting' /\ Waiting' \subseteq Waiting \cup {Pill}
        /\ PillsLast' = PillsLast
    BY <2>3, <2>4 DEF Waiting, PillsLast
  <2>6. Enders' = Enders /\ Enders = {}
    BY <2>1, <2>3 DEF Enders, PillOrder
  <2>7. Accounted'
    BY <1>3, <2>1, <2>3, <2>5 DEF Accounted
  <2>8. PillOrder'
    BY <2>1, <2>3, <2>4, <2>5, <2>6 DEF PillOrder
  <2>9. QED
    BY <1>3, <2>1, <2>7, <2>8
<1>8. CASE Join \/ Release \/ Finished
  <2>1. /\ boss \in {"joining", "releasing"} /\ boss' \in {"joining", "releasing", "finished"}
        /\ UNCHANGED <<at, added, taken, started, done>>
    BY <1>8 DEF Join, Release, Finished, poolVars
  <2>2. UNCHANGED <<base, batch, pushed, ret>>
    BY <1>8 DEF Join, Release, Finished, BeginDestroy, queueVars
  <2>3. pc' = pc \/ (pc[Boss] = "idle" /\ pc' = [pc EXCEPT ![Boss] = "des_lock"])
    BY <1>8 DEF Join, Release, Finished, BeginDestroy, Goto, queueVars
  <2>4. pc \in [Threads -> Points]
    BY DEF Places, TypeOK
  <2>5. Left' = Left /\ Holders' = Holders
    BY <1>1, <2>1, <2>2, <2>3, <2>4 DEF Left, Holders
  <2>6. Waiting' = Waiting /\ PillsLast' = PillsLast /\ Enders' = Enders
    BY <2>1, <2>2, <2>5 DEF Waiting, PillsLast, Enders
  <2>7. Accounted'
    BY <1>3, <2>1, <2>2, <2>5, <2>6 DEF Accounted
  <2>8. PillOrder'
    BY <1>3, <2>1, <2>5, <2>6 DEF PillOrder
  <2>9. QED
    BY <1>3, <2>1, <2>7, <2>8
<1>9. ASSUME NEW w \in Workers, WorkerAsk(w) PROVE Ledger'
  <2>1. /\ at[w] = "loop" /\ at' = [at EXCEPT ![w] = "dequeue"]
        /\ pc' = [pc EXCEPT ![w] = "deq_lock"]
        /\ UNCHANGED <<boss, base, batch, pushed, ret, added, taken, started, done>>
    BY <1>9 DEF WorkerAsk, BeginDequeue, Goto
  <2>2. pc \in [Threads -> Points]
    BY DEF Places, TypeOK
  <2>3. Left' = Left /\ Holders' = Holders /\ w \notin Holders
    <3>1. pc'[Boss] = pc[Boss]
      BY <1>1, <2>1, <2>2
    <3>2. Left' = Left
      BY <2>1, <3>1 DEF Left
    <3>3. w \notin Holders /\ w \notin Holders'
      BY <1>1, <2>1, <2>2 DEF Holders
    <3>4. \A v \in Workers \ {w} : at'[v] = at[v] /\ pc'[v] = pc[v]
      BY <1>1, <2>1, <2>2
    <3>5. Holders' = Holders
      BY <3>3, <3>4 DEF Holders
    <3>6. QED
      BY <3>2, <3>3, <3>5
  <2>4. Waiting' = Waiting /\ PillsLast' = PillsLast /\ Enders' = Enders
    BY <1>1, <2>1, <2>3 DEF Waiting, PillsLast, Enders
  <2>5. \A v \in Holders : at'[v] = at[v]
    BY <1>1, <2>1, <2>3 DEF Holders
  <2>6. QED
    BY <1>3, <2>1, <2>3, <2>4, <2>5 DEF Accounted, PillOrder
<1>10. ASSUME NEW w \in Workers, WorkerExit(w) PROVE Ledger'
  <2>1. /\ at[w] = "dequeue" /\ pc[w] = "idle" /\ ret[w] = Pill
        /\ at' = [at EXCEPT ![w] = "exited"]
        /\ UNCHANGED <<boss, pc, base, batch, pushed, ret, added, taken, started, done>>
    BY <1>10 DEF WorkerExit, queueVars
  <2>2. w \in Holders /\ Holders' = Holders \ {w}
    BY <1>1, <2>1 DEF Holders
  <2>3. Enders' = Enders
    BY <1>1, <2>1, <2>2 DEF Enders
  <2>4. \A v \in Holders' : at'[v] = at[v]
    BY <1>1, <2>1, <2>2 DEF Holders
  <2>5. \A x \in Taken : x # Pill
    BY <1>2 DEF Accounted
  <2>6. QED
    BY <1>3, <1>4, <2>1, <2>2, <2>3, <2>4, <2>5 DEF Accounted, PillOrder
<1>11. ASSUME NEW w \in Workers, WorkerGot(w) PROVE Ledger'
  <2>1. /\ at[w] = "dequeue" /\ pc[w] = "idle" /\ ret[w] # Pill
        /\ at' = [at EXCEPT ![w] = "holding"]
        /\ UNCHANGED <<boss, pc, base, batch, pushed, ret, added, taken, started, done>>
    BY <1>11 DEF WorkerGot, queueVars
  <2>2. w \in Holders /\ Holders' = Holders
    BY <1>1, <2>1 DEF Holders
  <2>3. Enders' = Enders
    BY <1>1, <2>1, <2>2 DEF Enders
  <2>4. \A v \in Holders \ {w} : at'[v] = at[v]
    BY <1>1, <2>1 DEF Holders
  <2>5. QED
    BY <1>3, <1>4, <2>1, <2>2, <2>3, <2>4 DEF Accounted, PillOrder
<1>12. ASSUME NEW w \in Workers, WorkBegins(w) PROVE Ledger'
  <2>1. /\ at[w] = "holding" /\ at' = [at EXCEPT ![w] = "working"]
        /\ started' = Append(started, ret[w])
        /\ UNCHANGED <<boss, pc, base, batch, pushed, ret, added, taken, done>>
    BY <1>12 DEF WorkBegins, queueVars
  <2>2. w \in Holders /\ Holders' = Holders
    BY <1>1, <2>1 DEF Holders
  <2>3. ret[w] \in Tasks
    BY <1>2, <2>1, <2>2 DEF Accounted
  <2>4. History'
    BY <2>1, <2>3 DEF History
  <2>5. Enders' = Enders
    BY <1>1, <2>1, <2>2 DEF Enders
  <2>6. \A v \in Holders \ {w} : at'[v] = at[v]
    BY <1>1, <2>1 DEF Holders
  <2>7. Added' = Added /\ Taken' = Taken
    BY <2>1 DEF Added, Taken
  <2>8. QED
    BY <1>4, <2>1, <2>2, <2>4, <2>5, <2>6, <2>7 DEF Accounted, PillOrder
<1>13. ASSUME NEW w \in Workers, WorkEnds(w) PROVE Ledger'
  <2>1. /\ at[w] = "working" /\ at' = [at EXCEPT ![w] = "loop"]
        /\ done' = done \cup {ret[w]}
        /\ UNCHANGED <<boss, pc, base, batch, pushed, ret, added, taken, started>>
    BY <1>13 DEF WorkEnds, queueVars
  <2>2. w \in Holders /\ Holders' = Holders \ {w}
    BY <1>1, <2>1 DEF Holders, Places, WorkerPlace
  <2>3. ret[w] \in Added /\ ret[w] # Pill
    BY <1>2, <2>1, <2>2 DEF Accounted
  <2>4. History'
    BY <1>2, <2>1, <2>3 DEF History
  <2>5. Enders' = Enders
    BY <1>1, <2>1, <2>2, <2>3 DEF Enders
  <2>6. \A v \in Holders \ {w} : at'[v] = at[v]
    BY <1>1, <2>1 DEF Holders
  <2>7. Added' = Added /\ Taken' = Taken
    BY <2>1 DEF Added, Taken
  <2>8. QED
    BY <1>4, <2>1, <2>2, <2>3, <2>4, <2>5, <2>6, <2>7 DEF Accounted, PillOrder
<1>14. ASSUME InQueue(Boss), EnqueuePush(Boss) PROVE Ledger'
  <2>1. /\ UNCHANGED <<boss, at, added, started, done>> /\ pc[Boss] = "enq_push"
        /\ taken' = taken
    BY <1>14 DEF InQueue, EnqueuePush
  <2>2. /\ Waiting' = Waiting /\ Left' \subseteq Left /\ Holders' = Holders /\ UNCHANGED ret
    BY <1>14, <2>1, PushEffect
  <2>3. PICK x \in Left : base' = Append(base, x)
    BY <1>14, <2>1, PushEffect
  <2>4. Enders' = Enders
    BY <2>1, <2>2 DEF Enders
  <2>5. x \in Waiting /\ x \in Items
    BY <1>1, <1>2, <2>3 DEF Waiting, Accounted
  <2>6. PillsLast'
    <3>1. /\ DOMAIN base = 1..Len(base) /\ Len(base) \in Nat
          /\ DOMAIN base' = 1..(Len(base) + 1)
          /\ \A i \in 1..Len(base) : base'[i] = base[i]
          /\ base'[Len(base) + 1] = x
      BY <1>1, <2>3, <2>5, AppendProperties
    <3>2. x = Pill \/ \A i \in DOMAIN base : base[i] # Pill
      <4>1. CASE boss \in {"starting", "adding"}
        BY <4>1 DEF PillOrder, Waiting, Members
      <4>2. CASE boss \notin {"starting", "adding"}
        BY <2>3, <4>2 DEF PillOrder
      <4>3. QED
        BY <4>1, <4>2
    <3>3. QED
      BY <3>1, <3>2 DEF PillOrder, PillsLast
  <2>7. QED
    BY <1>3, <2>1, <2>2, <2>4, <2>6 DEF Accounted, PillOrder
<1>15. ASSUME NEW w \in Workers, InQueue(w), DequeuePop(w) PROVE Ledger'
  <2>1. /\ UNCHANGED <<boss, at, added, started, done>> /\ pc[w] = "deq_pop"
        /\ at[w] = "dequeue"
    BY <1>15 DEF InQueue, DequeuePop, Places, WorkerPlace
  <2>2. /\ base # <<>> /\ base' = Tail(base)
        /\ Waiting = {Head(base)} \cup Waiting' /\ Left' = Left
        /\ w \notin Holders /\ Holders' = Holders \cup {w}
        /\ ret' = [ret EXCEPT ![w] = Head(base)] /\ w \in DOMAIN ret
    BY <1>15, <2>1, PopEffect
  <2>3. ret'[w] = Head(base) /\ \A v \in Workers \ {w} : ret'[v] = ret[v]
    BY <1>1, <2>2
  <2>4. Head(base) \in Added \cup {Pill}
    BY <2>2 DEF Accounted
  <2>5. Added' = Added
    BY <2>1 DEF Added
  <2>6. /\ \A i \in DOMAIN Tail(base) : i + 1 \in DOMAIN base /\ Tail(base)[i] = base[i + 1]
        /\ DOMAIN Tail(base) \subseteq Nat /\ DOMAIN base \subseteq Nat
    BY <1>1, <2>2, MembersTail
  <2>7. PillsLast'
    BY <2>2, <2>6 DEF PillOrder, PillsLast
  <2>8. History' /\ Taken' = IF Head(base) = Pill THEN Taken ELSE Taken \cup {Head(base)}
    <3>1. CASE Head(base) = Pill
      BY <1>15, <2>1, <3>1 DEF InQueue, History, Taken
    <3>2. CASE Head(base) # Pill
      <4>1. taken' = Append(taken, Head(base)) /\ Head(base) \in Tasks
        BY <1>2, <1>15, <2>1, <2>4, <3>2 DEF InQueue
      <4>2. Taken' = Taken \cup {Head(base)}
        BY <4>1, MembersAppend DEF Taken, History
      <4>3. QED
        BY <2>1, <3>2, <4>1, <4>2 DEF History
    <3>3. QED
      BY <3>1, <3>2
  <2>9. Accounted'
    <3>1. \A v \in Holders : v \in Workers \ {w} /\ ret'[v] = ret[v] /\ at'[v] = at[v]
      BY <2>1, <2>2, <2>3 DEF Holders
    <3>2. /\ Added' \subseteq Taken' \cup Waiting' /\ Taken' \subseteq Added'
          /\ done' \subseteq Added' /\ Waiting' \ {Pill} \subseteq Added'
      BY <1>2, <2>1, <2>2, <2>4, <2>5, <2>8 DEF Accounted
    <3>3. \A v \in Holders' : ret'[v] \in Added' \cup {Pill}
      BY <2>2, <2>3, <2>4, <2>5, <3>1 DEF Accounted
    <3>4. \A v \in Holders' : at'[v] \in {"holding", "working"} => ret'[v] # Pill
      BY <2>1, <2>2, <3>1 DEF Accounted
    <3>5. \A x \in Taken' : x \in done' \/ \E v \in Holders' : ret'[v] = x
      BY <2>1, <2>2, <2>3, <2>8, <3>1 DEF Accounted
    <3>6. QED
      BY <3>2, <3>3, <3>4, <3>5 DEF Accounted
  <2>10. Enders' = IF Head(base) = Pill THEN Enders \cup {w} ELSE Enders
    BY <2>1, <2>2, <2>3 DEF Enders
  <2>11. Head(base) = Pill => Waiting' \subseteq {Pill}
    <3>1. SUFFICES ASSUME Head(base) = Pill PROVE Waiting' \subseteq {Pill}
      OBVIOUS
    <3>2. Left \subseteq {Pill}
      BY <2>2, <3>1 DEF PillOrder
    <3>3. base[1] = Pill /\ 1 \in DOMAIN base
      BY <1>1, <2>2, <3>1
    <3>4. \A i \in DOMAIN base : base[i] = Pill
      BY <2>6, <3>3 DEF PillOrder, PillsLast
    <3>5. Waiting \subseteq {Pill}
      BY <3>2, <3>4 DEF Waiting, Members
    <3>6. QED
      BY <2>2, <3>5
  <2>12. PillOrder'
    BY <2>1, <2>2, <2>7, <2>10, <2>11 DEF PillOrder
  <2>13. QED
    BY <2>8, <2>9, <2>12
<1>16. ASSUME NEW t \in Threads, InQueue(t) \/ (t \in Workers /\ Wakeup(t)),
              ~ (t = Boss /\ EnqueuePush(t)), ~ (t \in Workers /\ DequeuePop(t))
       PROVE  Ledger'
  <2>1. /\ QueueStep(t) \/ (t \in Workers /\ SpuriousWakeup(t))
        /\ UNCHANGED <<boss, at, added, started, done>>
    BY <1>16 DEF InQueue, Wakeup, poolVars
  <2>2. taken' = taken
    BY <1>16, TakenStays
  <2>3. /\ Left' = Left /\ Holders' = Holders /\ UNCHANGED ret
        /\ UNCHANGED base \/ (DestroyDrain(Boss) /\ base' = <<>>)
    BY <1>16, <2>1, OtherEffect
  <2>4. Enders' = Enders
    BY <2>1, <2>3 DEF Enders
  <2>5. CASE UNCHANGED base
    <3>1. Waiting' = Waiting /\ PillsLast' = PillsLast
      BY <2>3, <2>5 DEF Waiting, PillsLast
    <3>2. QED
      BY <1>3, <2>1, <2>2, <2>3, <2>4, <3>1 DEF Accounted, PillOrder
  <2>6. CASE DestroyDrain(Boss) /\ base' = <<>>
    <3>1. boss \in {"releasing", "finished"}
      BY <2>6 DEF DestroyDrain, Places, BossPlace, DestroyAt
    <3>2. 1 \in Workers /\ at[1] = "exited"
      BY <3>1, PoolAssumption DEF Places, JoinedPlace, Workers
    <3>3. Waiting \subseteq {Pill}
      BY <3>2 DEF PillOrder, Enders
    <3>4. Waiting' \subseteq Waiting /\ PillsLast'
      BY <2>3, <2>6 DEF Waiting, PillsLast, Members
    <3>5. Accounted'
      BY <1>2, <1>3, <2>1, <2>2, <2>3, <3>3, <3>4 DEF Accounted
    <3>6. QED
      BY <1>3, <2>1, <2>2, <2>3, <2>4, <3>1, <3>3, <3>4, <3>5 DEF PillOrder
  <2>7. QED
    BY <2>3, <2>5, <2>6
<1>17. CASE UNCHANGED vars
  <2>1. UNCHANGED <<pc, base, batch, pushed, ret, boss, at, added, taken, started, done>>
    BY <1>17 DEF vars, queueVars, poolVars
  <2>2. Holders' = Holders
    BY <2>1 DEF Holders
  <2>3. Enders' = Enders
    BY <2>1, <2>2 DEF Enders
  <2>4. QED
    BY <1>3, <1>4, <2>1, <2>2, <2>3 DEF Accounted, PillOrder
<1>18. ASSUME NEW t \in Threads, InQueue(t) \/ (t \in Workers /\ Wakeup(t)) PROVE Ledger'
  <2>1. CASE t = Boss /\ EnqueuePush(t)
    BY <1>1, <1>14, <1>18, <2>1
  <2>2. CASE t \in Workers /\ DequeuePop(t)
    <3>1. ~ Wakeup(t)
      BY <2>2 DEF Wakeup, SpuriousWakeup, DequeuePop
    <3>2. QED
      BY <1>15, <1>18, <2>2, <3>1
  <2>3. QED
    BY <1>16, <1>18, <2>1, <2>2
<1>19. QED
  BY <1>1, <1>5, <1>6, <1>7, <1>8, <1>9, <1>10, <1>11, <1>12, <1>13, <1>17, <1>18
     DEF Next, BossStep, WorkerStep

-----------------------------------------------------------------------------
(* Finished means done.                                                    *)

\* Every task that was added is waiting, in the hands of a worker or done.
THEOREM PoolLedger == Spec => []Ledger
<1>1. Places /\ Ledger /\ [Next]_vars => Ledger'
  BY LedgerStep
<1>2. QED
  BY LedgerInit, PoolPlaces, <1>1, PTL DEF Spec

\* Every value of the pool and of its queue has its type.
THEOREM PoolTypes == Spec => []PoolTypeOK
<1>1. Places /\ DataPlace /\ Ledger => PoolTypeOK
  BY DEF Places, Control, DataPlace, Ledger, History, PoolTypeOK
<1>2. Places /\ DataPlace /\ [Next]_vars => DataPlace'
  BY DataStep
<1>3. QED
  BY DataInit, PoolPlaces, PoolLedger, <1>1, <1>2, PTL DEF Spec

\* No task is behind a pill in the queue, where no worker would come for it.
THEOREM PoolPillsLast == Spec => []PillsLast
<1>1. Ledger => PillsLast
  BY DEF Ledger, PillOrder
<1>2. QED
  BY PoolLedger, <1>1, PTL

\* When wp_finish frees the pool and when it returns, every task that was added
\* is done and every worker has ended, for any number of workers and tasks.
THEOREM PoolFinishedMeansDone == Spec => []FinishedMeansDone
<1>1. Places /\ Ledger => FinishedMeansDone
  <2> SUFFICES ASSUME Places, Ledger, boss \in {"releasing", "finished"}
               PROVE  /\ done = Members(added)
                      /\ \A w \in Workers : at[w] = "exited" /\ pc[w] = "idle"
    BY DEF FinishedMeansDone
  <2>1. \A w \in Workers : at[w] = "exited" /\ pc[w] = "idle"
    BY PoolAssumption DEF Places, JoinedPlace, WorkerPlace, Workers
  <2>2. Holders = {}
    BY <2>1 DEF Holders
  <2>3. 1 \in Enders
    BY <2>1, PoolAssumption DEF Enders, Workers
  <2>4. Waiting \subseteq {Pill}
    BY <2>3 DEF Ledger, PillOrder
  <2>5. Pill \notin Added
    BY PoolAssumption DEF Ledger, History, Added, Members
  <2>6. done = Added
    BY <2>2, <2>4, <2>5 DEF Ledger, Accounted
  <2>7. QED
    BY <2>1, <2>6 DEF Added
<1>2. QED
  BY PoolPlaces, PoolLedger, <1>1, PTL

-----------------------------------------------------------------------------
(* In which order the tasks are popped.                                    *)

\* What is left of a sequence without its first n elements.
Rest(b, n) == SubSeq(b, n + 1, Len(b))

\* The rest has the members behind the first n.
LEMMA RestMembers ==
  ASSUME NEW S, NEW b \in Seq(S), NEW n \in Nat
  PROVE  /\ Rest(b, n) \in Seq(S)
         /\ Members(Rest(b, n)) = {b[i] : i \in {j \in DOMAIN b : j > n}}
         /\ n >= Len(b) => Rest(b, n) = <<>>
<1>1. /\ Len(b) \in Nat /\ DOMAIN b = 1..Len(b) /\ \A i \in 1..Len(b) : b[i] \in S
  BY ElementOfSeq
<1>2. PICK l \in Nat : l = Len(b)
  BY <1>1
<1>3. PICK m \in Nat : m = n + 1
  OBVIOUS
<1>4. m = n + 1 /\ l = Len(b) /\ \A i \in m..l : b[i] \in S
  BY <1>1, <1>2, <1>3
<1>5. PICK r : r = SubSeq(b, m, l)
  OBVIOUS
<1>6. /\ r \in Seq(S) /\ Len(r) = IF m <= l THEN l - m + 1 ELSE 0
      /\ \A i \in 1..(l - m + 1) : r[i] = b[m + i - 1]
  BY <1>4, <1>5, SubSeqProperties
<1>7. DOMAIN r = 1..Len(r) /\ \A i \in DOMAIN r : n + i \in DOMAIN b /\ n + i > n /\ r[i] = b[n + i]
  <2>1. DOMAIN r = 1..Len(r)
    BY <1>6
  <2>2. ASSUME NEW i \in DOMAIN r
        PROVE  n + i \in DOMAIN b /\ n + i > n /\ r[i] = b[n + i]
    <3>1. i \in 1..(l - m + 1) /\ m + i - 1 = n + i /\ i > 0
      BY <1>4, <1>6, <2>1
    <3>2. r[i] = b[n + i]
      BY <1>6, <3>1
    <3> QED
      BY <1>1, <1>4, <3>1, <3>2
  <2> QED
    BY <2>1, <2>2
<1>8. ASSUME NEW j \in DOMAIN b, j > n
      PROVE  j - n \in DOMAIN r /\ r[j - n] = b[j]
  <2>1. j - n \in 1..(l - m + 1) /\ m + (j - n) - 1 = j /\ m <= l
    BY <1>1, <1>4, <1>8
  <2> QED
    BY <1>6, <1>7, <2>1
<1>9. Members(r) = {b[i] : i \in {j \in DOMAIN b : j > n}}
  BY <1>7, <1>8 DEF Members
<1>10. n >= Len(b) => r = <<>>
  BY <1>4, <1>5, SubSeqEmpty
<1>11. r = Rest(b, n)
  BY <1>4, <1>5 DEF Rest
<1> QED
  BY <1>6, <1>9, <1>10, <1>11

\* One element less is left of it with one more taken away.
LEMMA RestStep ==
  ASSUME NEW S, NEW b \in Seq(S), NEW n \in Nat, n < Len(b)
  PROVE  /\ Rest(b, n) # <<>> /\ Head(Rest(b, n)) = b[n + 1]
         /\ Tail(Rest(b, n)) = Rest(b, n + 1)
<1>1. Len(b) \in Nat /\ n + 1 \in 1..Len(b) /\ Len(b) \in (n + 1)..Len(b)
  OBVIOUS
<1>2. Head(Rest(b, n)) = b[n + 1] /\ Tail(Rest(b, n)) = Rest(b, n + 1)
  BY <1>1, HeadTailOfSubSeq DEF Rest
<1>3. PICK r : r = Rest(b, n)
  OBVIOUS
<1>4. Members(r) = {b[i] : i \in {j \in DOMAIN b : j > n}}
  BY <1>3, RestMembers
<1>5. Members(r) # {}
  BY <1>1, <1>4
<1>6. r # <<>>
  BY <1>5 DEF Members
<1> QED
  BY <1>2, <1>3, <1>6

\* An item may be at the end of the first sequence or at the head of the second.
LEMMA MoveHead ==
  ASSUME NEW S, NEW s \in Seq(S), NEW r \in Seq(S), r # <<>>
  PROVE  Append(s, Head(r)) \o Tail(r) = s \o r
<1>1. /\ Head(r) \in S /\ Head(r) = r[1] /\ Tail(r) \in Seq(S) /\ Len(Tail(r)) = Len(r) - 1
      /\ \A i \in 1..Len(Tail(r)) : Tail(r)[i] = r[i + 1]
  BY HeadTailProperties
<1>2. PICK u : u = Tail(r)
  OBVIOUS
<1>3. PICK v : v = Append(s, Head(r))
  OBVIOUS
<1>4. /\ v \in Seq(S) /\ Len(v) = Len(s) + 1 /\ v[Len(s) + 1] = r[1]
      /\ \A i \in 1..Len(s) : v[i] = s[i]
  BY <1>1, <1>3, AppendProperties
<1>5. PICK x : x = v \o u
  OBVIOUS
<1>6. PICK y : y = s \o r
  OBVIOUS
<1>7. /\ x \in Seq(S) /\ Len(x) = Len(v) + Len(u)
      /\ \A i \in 1..(Len(v) + Len(u)) : x[i] = IF i <= Len(v) THEN v[i] ELSE u[i - Len(v)]
  BY <1>1, <1>2, <1>4, <1>5, ConcatProperties
<1>8. /\ y \in Seq(S) /\ Len(y) = Len(s) + Len(r)
      /\ \A i \in 1..(Len(s) + Len(r)) : y[i] = IF i <= Len(s) THEN s[i] ELSE r[i - Len(s)]
  BY <1>6, ConcatProperties
<1>9. Len(s) \in Nat /\ Len(r) \in Nat \ {0} /\ Len(u) = Len(r) - 1
  BY <1>1, <1>2
<1>10. Len(x) = Len(y)
  BY <1>4, <1>7, <1>8, <1>9
<1>11. \A i \in 1..Len(x) : x[i] = y[i]
  <2> SUFFICES ASSUME NEW i \in 1..Len(x)
               PROVE  x[i] = y[i]
    OBVIOUS
  <2>1. CASE i <= Len(s)
    <3>1. i \in 1..Len(s) /\ i \in 1..(Len(v) + Len(u)) /\ i \in 1..(Len(s) + Len(r)) /\ i <= Len(v)
      BY <1>4, <1>7, <1>9, <2>1
    <3>2. x[i] = v[i] /\ y[i] = s[i]
      BY <1>7, <1>8, <2>1, <3>1
    <3> QED
      BY <1>4, <3>1, <3>2
  <2>2. CASE i = Len(s) + 1
    BY <1>4, <1>7, <1>8, <1>9, <2>2, SMTT(40)
  <2>3. CASE i > Len(s) + 1
    <3>1. i - Len(v) \in 1..Len(u) /\ i - Len(v) + 1 = i - Len(s)
      BY <1>4, <1>7, <1>9, <2>3
    <3>2. u[i - Len(v)] = r[i - Len(s)]
      BY <1>1, <1>2, <3>1
    <3>3. ~(i <= Len(v)) /\ ~(i <= Len(s)) /\ i \in 1..(Len(s) + Len(r))
      BY <1>4, <1>7, <1>9, <2>3
    <3>4. x[i] = u[i - Len(v)] /\ y[i] = r[i - Len(s)]
      BY <1>7, <1>8, <3>3
    <3> QED
      BY <3>2, <3>4
  <2> QED
    BY <1>4, <1>7, <1>9, <2>1, <2>2, <2>3
<1>12. x = y
  BY <1>7, <1>8, <1>10, <1>11, SeqEqual
<1> QED
  BY <1>2, <1>3, <1>5, <1>6, <1>12

\* The head and the tail of two sequences are those of the first.
LEMMA ConcatTail ==
  ASSUME NEW S, NEW s \in Seq(S), NEW r \in Seq(S), s # <<>>
  PROVE  /\ s \o r # <<>> /\ Head(s \o r) = Head(s)
         /\ Tail(s \o r) = Tail(s) \o r
<1>1. /\ Head(s) = s[1] /\ Tail(s) \in Seq(S) /\ Len(Tail(s)) = Len(s) - 1
      /\ \A i \in 1..Len(Tail(s)) : Tail(s)[i] = s[i + 1]
  BY HeadTailProperties
<1>2. PICK u : u = Tail(s)
  OBVIOUS
<1>3. PICK x : x = u \o r
  OBVIOUS
<1>4. PICK y : y = s \o r
  OBVIOUS
<1>5. /\ x \in Seq(S) /\ Len(x) = Len(u) + Len(r)
      /\ \A i \in 1..(Len(u) + Len(r)) : x[i] = IF i <= Len(u) THEN u[i] ELSE r[i - Len(u)]
  BY <1>1, <1>2, <1>3, ConcatProperties
<1>6. /\ y \in Seq(S) /\ Len(y) = Len(s) + Len(r)
      /\ \A i \in 1..(Len(s) + Len(r)) : y[i] = IF i <= Len(s) THEN s[i] ELSE r[i - Len(s)]
  BY <1>4, ConcatProperties
<1>7. Len(s) \in Nat \ {0} /\ Len(r) \in Nat /\ Len(u) = Len(s) - 1
  BY <1>1, <1>2
<1>8. y # <<>>
  BY <1>6, <1>7
<1>9. Head(y) = s[1] /\ Tail(y) \in Seq(S) /\ Len(Tail(y)) = Len(y) - 1
      /\ \A i \in 1..Len(Tail(y)) : Tail(y)[i] = y[i + 1]
  BY <1>6, <1>7, <1>8, HeadTailProperties
<1>10. Len(Tail(y)) = Len(x)
  BY <1>5, <1>6, <1>7, <1>9
<1>11. \A i \in 1..Len(Tail(y)) : Tail(y)[i] = x[i]
  <2> SUFFICES ASSUME NEW i \in 1..Len(Tail(y))
               PROVE  Tail(y)[i] = x[i]
    OBVIOUS
  <2>1. CASE i <= Len(u)
    BY <1>1, <1>2, <1>5, <1>6, <1>7, <1>9, <2>1
  <2>2. CASE i > Len(u)
    <3>1. /\ (i + 1) - Len(s) = i - Len(u) /\ ~(i + 1 <= Len(s)) /\ ~(i <= Len(u))
          /\ i \in 1..(Len(u) + Len(r)) /\ i + 1 \in 1..(Len(s) + Len(r))
      BY <1>6, <1>7, <1>9, <2>2
    <3>2. x[i] = r[i - Len(u)] /\ y[i + 1] = r[(i + 1) - Len(s)]
      BY <1>5, <1>6, <3>1
    <3> QED
      BY <1>9, <3>1, <3>2
  <2> QED
    BY <1>7, <2>1, <2>2
<1>12. Tail(y) = x
  BY <1>5, <1>9, <1>10, <1>11, SeqEqual
<1> QED
  BY <1>1, <1>2, <1>3, <1>4, <1>8, <1>9, <1>12

\* What is pending, as a sequence and as a set.
LEMMA PendingMembers ==
  ASSUME Places
  PROVE  /\ Unpushed \in Seq(Items) /\ Members(Unpushed) = Left
         /\ Pending \in Seq(Items) /\ Members(Pending) = Waiting
<1>1. /\ base \in Seq(Items) /\ batch[Boss] \in Seq(Items) /\ pushed[Boss] \in Nat
  BY PoolAssumption DEF Places, TypeOK
<1>2. PICK b \in Seq(Items), n \in Nat : b = batch[Boss] /\ n = pushed[Boss]
  BY <1>1
<1>3. CASE pc[Boss] \in {"enq_lock", "enq_push"}
  <2>1. Unpushed = Rest(b, n)
    BY <1>2, <1>3 DEF Unpushed, Rest
  <2>2. Left = {b[i] : i \in {j \in DOMAIN b : j > n}}
    BY <1>2, <1>3 DEF Left
  <2>3. Unpushed \in Seq(Items) /\ Members(Unpushed) = Left
    BY <2>1, <2>2, RestMembers
  <2> QED
    BY <1>1, <2>3, MembersConcat DEF Pending, Waiting
<1>4. CASE pc[Boss] \notin {"enq_lock", "enq_push"}
  <2>1. Unpushed = <<>> /\ Left = {}
    BY <1>4 DEF Unpushed, Left
  <2>2. Unpushed \in Seq(Items) /\ Members(Unpushed) = Left
    BY <2>1 DEF Members
  <2> QED
    BY <1>1, <2>2, MembersConcat DEF Pending, Waiting
<1> QED
  BY <1>3, <1>4

\* A push leaves what is pending, and its order.
LEMMA PushKeepsPending ==
  ASSUME Places, EnqueuePush(Boss)
  PROVE  Pending' = Pending
<1>1. /\ Boss \in Threads /\ base \in Seq(Items) /\ batch \in [Threads -> Seq(Items)]
      /\ pushed \in [Threads -> Nat] /\ pc \in [Threads -> Points]
  BY PoolAssumption DEF Places, TypeOK
<1>2. PICK b \in Seq(Items), n \in Nat : b = batch[Boss] /\ n = pushed[Boss]
  BY <1>1
<1>3. /\ pc[Boss] = "enq_push" /\ base' = Append(base, b[n + 1]) /\ batch' = batch
      /\ pushed' = [pushed EXCEPT ![Boss] = n + 1] /\ n < Len(b)
  BY <1>1, <1>2 DEF EnqueuePush, Places, IndexInRange
<1>4. \/ pc' = [pc EXCEPT ![Boss] = "enq_push"]
      \/ pc' = [pc EXCEPT ![Boss] = "enq_unlock"] /\ ~(n + 1 < Len(b))
  BY <1>2, Zenon DEF EnqueuePush, Goto
<1>5. Unpushed = Rest(b, n)
  BY <1>2, <1>3 DEF Unpushed, Rest
<1>6. batch'[Boss] = b /\ pushed'[Boss] = n + 1
  BY <1>1, <1>2, <1>3
<1>7. Unpushed' = Rest(b, n + 1)
  <2>1. CASE pc'[Boss] = "enq_push"
    BY <1>6, <2>1 DEF Unpushed, Rest
  <2>2. CASE pc'[Boss] = "enq_unlock" /\ ~(n + 1 < Len(b))
    <3>1. n + 1 >= Len(b) /\ n + 1 \in Nat
      BY <2>2
    <3>2. Rest(b, n + 1) = <<>>
      BY <3>1, RestMembers
    <3> QED
      BY <2>2, <3>2 DEF Unpushed
  <2> QED
    BY <1>1, <1>4, <2>1, <2>2
<1>8. PICK r \in Seq(Items) : r = Rest(b, n)
  BY RestMembers
<1>9. r # <<>> /\ Head(r) = b[n + 1] /\ Tail(r) = Unpushed'
  BY <1>3, <1>7, <1>8, RestStep
<1>10. Append(base, Head(r)) \o Tail(r) = base \o r
  BY <1>1, <1>9, MoveHead
<1> QED
  BY <1>3, <1>5, <1>8, <1>9, <1>10 DEF Pending

\* Of the tasks added, a, the first are those popped, t, and the others are the
\* first n pending, of p.  Behind them is nothing but pills.
Handed(n, p, t, a) ==
  /\ n \in 0..Len(p) /\ Len(a) = Len(t) + n
  /\ \A i \in 1..Len(t) : a[i] = t[i]
  /\ \A i \in 1..n : a[Len(t) + i] = p[i]
  /\ \A i \in n+1..Len(p) : p[i] = Pill

\* Handed is about every index what EveryTaskOnce says of the sequences.
LEMMA HandedMeans ==
  ASSUME NEW p \in Seq(Items), NEW t \in Seq(Tasks), NEW a \in Seq(Tasks), NEW n \in Nat,
         Handed(n, p, t, a)
  PROVE  a = t \o SubSeq(p, 1, n)
<1>1. /\ n \in 0..Len(p) /\ Len(a) = Len(t) + n /\ Len(t) \in Nat /\ Len(p) \in Nat
      /\ \A i \in 1..Len(t) : a[i] = t[i]
      /\ \A i \in 1..n : a[Len(t) + i] = p[i]
  BY DEF Handed
<1>2. \A i \in 1..n : p[i] \in Tasks
  <2> SUFFICES ASSUME NEW i \in 1..n
               PROVE  p[i] \in Tasks
    OBVIOUS
  <2>1. Len(t) + i \in 1..Len(a)
    BY <1>1
  <2>2. a[Len(t) + i] \in Tasks
    BY <2>1, ElementOfSeq
  <2> QED
    BY <1>1, <2>2
<1>3. PICK r : r = SubSeq(p, 1, n)
  OBVIOUS
<1>4. /\ r \in Seq(Tasks) /\ Len(r) = IF 1 <= n THEN n - 1 + 1 ELSE 0
      /\ \A i \in 1..(n - 1 + 1) : r[i] = p[1 + i - 1]
  BY <1>2, <1>3, SubSeqProperties
<1>5. Len(r) = n /\ \A i \in 1..n : r[i] = p[i]
  <2>1. n - 1 + 1 = n /\ (~(1 <= n) => n = 0) /\ \A i \in 1..n : 1 + i - 1 = i
    OBVIOUS
  <2>2. Len(r) = n
    BY <1>4, <2>1
  <2> QED
    BY <1>4, <2>1, <2>2
<1>6. PICK y : y = t \o r
  OBVIOUS
<1>7. /\ y \in Seq(Tasks) /\ Len(y) = Len(t) + Len(r)
      /\ \A i \in 1..(Len(t) + Len(r)) : y[i] = IF i <= Len(t) THEN t[i] ELSE r[i - Len(t)]
  BY <1>4, <1>6, ConcatProperties
<1>8. ASSUME NEW i \in 1..Len(a)
      PROVE  a[i] = y[i]
  <2>1. CASE i <= Len(t)
    <3>1. i \in 1..Len(t) /\ i \in 1..(Len(t) + Len(r))
      BY <1>1, <1>5, <2>1
    <3> QED
      BY <1>1, <1>7, <2>1, <3>1
  <2>2. CASE ~(i <= Len(t))
    <3>1. i - Len(t) \in 1..n /\ Len(t) + (i - Len(t)) = i /\ i \in 1..(Len(t) + Len(r))
      BY <1>1, <1>5, <2>2
    <3>2. a[Len(t) + (i - Len(t))] = p[i - Len(t)] /\ y[i] = r[i - Len(t)]
      BY <1>1, <1>7, <2>2, <3>1
    <3> QED
      BY <1>5, <3>1, <3>2
  <2> QED
    BY <2>1, <2>2
<1>9. Len(a) = Len(y)
  BY <1>1, <1>5, <1>7
<1>10. a = y
  BY <1>7, <1>8, <1>9, SeqEqual
<1> QED
  BY <1>3, <1>6, <1>10

\* The first pending are tasks.
LEMMA HandedTasks ==
  ASSUME NEW p \in Seq(Items), NEW t \in Seq(Tasks), NEW a \in Seq(Tasks), NEW n \in Nat,
         Handed(n, p, t, a), n > 0
  PROVE  p # <<>> /\ Head(p) = p[1] /\ p[1] # Pill /\ p[1] = a[Len(t) + 1]
         /\ Len(t) + 1 \in 1..Len(a)
<1>1. /\ n \in 0..Len(p) /\ Len(a) = Len(t) + n /\ Len(t) \in Nat /\ Len(p) \in Nat
      /\ \A i \in 1..n : a[Len(t) + i] = p[i]
  BY DEF Handed
<1>2. 1 \in 1..n /\ Len(t) + 1 \in 1..Len(a)
  BY <1>1
<1>3. a[Len(t) + 1] \in Tasks
  BY <1>2, ElementOfSeq
<1>4. p # <<>>
  BY <1>1, <1>2
<1> QED
  BY <1>1, <1>2, <1>3, <1>4, PoolAssumption

\* A batch of tasks follows the tasks that are pending.
LEMMA HandedMore ==
  ASSUME NEW p \in Seq(Items), NEW t \in Seq(Tasks), NEW a \in Seq(Tasks), NEW n \in Nat,
         NEW b \in Seq(Tasks), Handed(n, p, t, a), Pill \notin Members(p)
  PROVE  Handed(Len(p) + Len(b), p \o b, t, a \o b)
<1>1. /\ n \in 0..Len(p) /\ Len(a) = Len(t) + n /\ Len(t) \in Nat /\ Len(p) \in Nat
      /\ \A i \in 1..Len(t) : a[i] = t[i]
      /\ \A i \in 1..n : a[Len(t) + i] = p[i]
      /\ \A i \in n+1..Len(p) : p[i] = Pill
      /\ Len(b) \in Nat /\ b \in Seq(Items)
  BY PoolAssumption DEF Handed
<1>2. n = Len(p)
  <2>1. SUFFICES ASSUME n # Len(p)
                 PROVE  FALSE
    OBVIOUS
  <2>2. n + 1 \in n+1..Len(p) /\ n + 1 \in DOMAIN p
    BY <1>1, <2>1
  <2> QED
    BY <1>1, <2>2 DEF Members
<1>3. PICK q : q = p \o b
  OBVIOUS
<1>4. PICK c : c = a \o b
  OBVIOUS
<1>5. /\ Len(q) = Len(p) + Len(b)
      /\ \A i \in 1..(Len(p) + Len(b)) : q[i] = IF i <= Len(p) THEN p[i] ELSE b[i - Len(p)]
  BY <1>1, <1>3, ConcatProperties
<1>6. /\ Len(c) = Len(a) + Len(b)
      /\ \A i \in 1..(Len(a) + Len(b)) : c[i] = IF i <= Len(a) THEN a[i] ELSE b[i - Len(a)]
  BY <1>4, ConcatProperties
<1>7. PICK m \in Nat : m = Len(p) + Len(b)
  BY <1>1
<1>8. ASSUME NEW i \in 1..Len(t)
      PROVE  c[i] = t[i]
  <2>1. i \in 1..(Len(a) + Len(b)) /\ i <= Len(a)
    BY <1>1
  <2> QED
    BY <1>1, <1>6, <2>1
<1>9. ASSUME NEW i \in 1..m
      PROVE  c[Len(t) + i] = q[i]
  <2>1. Len(t) + i \in 1..(Len(a) + Len(b)) /\ i \in 1..(Len(p) + Len(b))
    BY <1>1, <1>2, <1>7
  <2>2. CASE i <= Len(p)
    <3>1. i \in 1..n /\ Len(t) + i <= Len(a)
      BY <1>1, <1>2, <2>2
    <3> QED
      BY <1>1, <1>5, <1>6, <2>1, <2>2, <3>1
  <2>3. CASE ~(i <= Len(p))
    <3>1. ~(Len(t) + i <= Len(a)) /\ Len(t) + i - Len(a) = i - Len(p)
      BY <1>1, <1>2, <2>3
    <3>2. c[Len(t) + i] = b[Len(t) + i - Len(a)] /\ q[i] = b[i - Len(p)]
      BY <1>5, <1>6, <2>1, <2>3, <3>1
    <3> QED
      BY <3>1, <3>2
  <2> QED
    BY <2>2, <2>3
<1>10. Handed(m, q, t, c)
  <2>1. m = Len(q) /\ m \in 0..Len(q)
    BY <1>5, <1>7
  <2>2. Len(c) = Len(t) + m
    <3>1. Len(c) = Len(a) + Len(b)
      BY <1>6
    <3>2. Len(a) = Len(t) + Len(p) /\ Len(t) \in Nat /\ Len(p) \in Nat /\ Len(b) \in Nat
      BY <1>1, <1>2
    <3> QED
      BY <1>7, <3>1, <3>2
  <2>3. \A i \in m+1..Len(q) : q[i] = Pill
    BY <2>1
  <2> QED
    BY <1>8, <1>9, <2>1, <2>2, <2>3 DEF Handed
<1> QED
  BY <1>3, <1>4, <1>7, <1>10

\* Pills go behind all tasks.
LEMMA HandedPills ==
  ASSUME NEW p \in Seq(Items), NEW t \in Seq(Tasks), NEW a \in Seq(Tasks), NEW n \in Nat,
         NEW b \in Seq(Items), Handed(n, p, t, a), Members(b) \subseteq {Pill}
  PROVE  Handed(n, p \o b, t, a)
<1>1. /\ n \in 0..Len(p) /\ Len(a) = Len(t) + n /\ Len(t) \in Nat /\ Len(p) \in Nat
      /\ \A i \in 1..Len(t) : a[i] = t[i]
      /\ \A i \in 1..n : a[Len(t) + i] = p[i]
      /\ \A i \in n+1..Len(p) : p[i] = Pill
  BY DEF Handed
<1>2. Len(b) \in Nat /\ DOMAIN b = 1..Len(b) /\ \A i \in DOMAIN b : b[i] = Pill
  BY DEF Members
<1>3. PICK q : q = p \o b
  OBVIOUS
<1>4. /\ Len(q) = Len(p) + Len(b)
      /\ \A i \in 1..(Len(p) + Len(b)) : q[i] = IF i <= Len(p) THEN p[i] ELSE b[i - Len(p)]
  BY <1>3, ConcatProperties
<1>5. ASSUME NEW i \in 1..n
      PROVE  a[Len(t) + i] = q[i]
  <2>1. i \in 1..(Len(p) + Len(b)) /\ i <= Len(p)
    BY <1>1
  <2> QED
    BY <1>1, <1>4, <2>1
<1>6. ASSUME NEW i \in n+1..Len(q)
      PROVE  q[i] = Pill
  <2>1. i \in 1..(Len(p) + Len(b))
    BY <1>1, <1>4, <1>2
  <2>2. CASE i <= Len(p)
    <3>1. i \in n+1..Len(p)
      BY <1>1, <2>2
    <3> QED
      BY <1>1, <1>4, <2>1, <2>2, <3>1
  <2>3. CASE ~(i <= Len(p))
    <3>1. i - Len(p) \in 1..Len(b)
      BY <1>1, <1>2, <2>1, <2>3
    <3> QED
      BY <1>4, <1>2, <2>1, <2>3, <3>1
  <2> QED
    BY <2>2, <2>3
<1>7. n \in 0..Len(q)
  BY <1>1, <1>4, <1>2
<1>8. Handed(n, q, t, a)
  BY <1>1, <1>5, <1>6, <1>7 DEF Handed
<1> QED
  BY <1>3, <1>8

\* A pop takes the first pending task, or a pill when there is none.
LEMMA HandedPop ==
  ASSUME NEW p \in Seq(Items), NEW t \in Seq(Tasks), NEW a \in Seq(Tasks), NEW n \in Nat,
         Handed(n, p, t, a), p # <<>>
  PROVE  /\ Head(p) = Pill => Handed(0, Tail(p), t, a)
         /\ Head(p) # Pill => /\ n - 1 \in Nat
                              /\ Handed(n - 1, Tail(p), Append(t, Head(p)), a)
<1>1. /\ n \in 0..Len(p) /\ Len(a) = Len(t) + n /\ Len(t) \in Nat /\ Len(p) \in Nat
      /\ \A i \in 1..Len(t) : a[i] = t[i]
      /\ \A i \in 1..n : a[Len(t) + i] = p[i]
      /\ \A i \in n+1..Len(p) : p[i] = Pill
  BY DEF Handed
<1>2. PICK q : q = Tail(p)
  OBVIOUS
<1>3. /\ Len(q) = Len(p) - 1 /\ \A i \in 1..Len(q) : q[i] = p[i + 1]
      /\ Head(p) = p[1] /\ Len(p) > 0
  BY <1>1, <1>2, HeadTailProperties
<1>4. CASE Head(p) = Pill
  <2>1. n = 0
    BY <1>4, HandedTasks
  <2>2. \A i \in 1..Len(q) : q[i] = Pill
    BY <1>1, <1>3, <2>1
  <2>3. 0 \in 0..Len(q) /\ 1..0 = {} /\ Len(a) = Len(t) + 0
    BY <1>1, <1>3, <2>1
  <2>4. Handed(0, q, t, a)
    BY <1>1, <2>2, <2>3 DEF Handed
  <2> QED
    BY <1>2, <1>4, <2>4
<1>5. CASE Head(p) # Pill
  <2>1. n > 0
    <3>1. SUFFICES ASSUME ~(n > 0)
                   PROVE  FALSE
      OBVIOUS
    <3>2. 1 \in n+1..Len(p)
      BY <1>1, <1>3, <3>1
    <3> QED
      BY <1>1, <1>3, <1>5, <3>2
  <2>2. p[1] = a[Len(t) + 1] /\ p[1] \in Tasks
    BY <2>1, HandedTasks, ElementOfSeq
  <2>3. PICK u : u = Append(t, p[1])
    OBVIOUS
  <2>4. /\ Len(u) = Len(t) + 1 /\ u[Len(t) + 1] = p[1]
        /\ \A i \in 1..Len(t) : u[i] = t[i]
    BY <2>2, <2>3, AppendProperties
  <2>5. PICK m \in Nat : m = n - 1
    BY <2>1
  <2>6. m \in 0..Len(q) /\ Len(a) = Len(u) + m
    BY <1>1, <1>3, <2>1, <2>4, <2>5
  <2>7. \A i \in 1..Len(u) : a[i] = u[i]
    <3> SUFFICES ASSUME NEW i \in 1..Len(u)
                 PROVE  a[i] = u[i]
      OBVIOUS
    <3>1. i \in 1..Len(t) \/ i = Len(t) + 1
      BY <1>1, <2>4
    <3> QED
      BY <1>1, <2>2, <2>4, <3>1
  <2>8. ASSUME NEW i \in 1..m
        PROVE  a[Len(u) + i] = q[i]
    <3>1. i + 1 \in 1..n /\ Len(t) + (i + 1) = Len(u) + i /\ i \in 1..Len(q)
      BY <1>1, <1>3, <2>4, <2>5
    <3>2. a[Len(t) + (i + 1)] = p[i + 1] /\ q[i] = p[i + 1]
      BY <1>1, <1>3, <3>1
    <3> QED
      BY <3>1, <3>2
  <2>9. ASSUME NEW i \in m+1..Len(q)
        PROVE  q[i] = Pill
    <3>1. i + 1 \in n+1..Len(p) /\ i \in 1..Len(q)
      BY <1>1, <1>3, <2>5
    <3> QED
      BY <1>1, <1>3, <3>1
  <2>10. Handed(m, q, u, a)
    BY <2>6, <2>7, <2>8, <2>9 DEF Handed
  <2> QED
    BY <1>2, <1>3, <1>5, <2>3, <2>5, <2>10
<1> QED
  BY <1>4, <1>5

-----------------------------------------------------------------------------
(* Every task once.                                                        *)

Distinct(s) == \A i, j \in DOMAIN s : s[i] = s[j] => i = j

Working == {w \in Workers : at[w] = "working"}

\* The tasks popped and those pending are, in this order, the tasks added.
TasksInOrder == \E n \in Nat : Handed(n, Pending, taken, added)

\* A task that has been popped is with one worker or done, and work has been called
\* on those that a worker works on and on those that are done.
Once ==
  /\ Distinct(added) /\ Distinct(started)
  /\ \A v, w \in Holders : ret[v] = ret[w] /\ ret[v] # Pill => v = w
  /\ \A w \in Holders : ret[w] # Pill => ret[w] \in Taken \ done
  /\ done \subseteq Taken
  /\ Members(started) = done \cup {ret[w] : w \in Working}

\* At first no task has been added.
LEMMA OnceInit == Init => TasksInOrder /\ Once
<1> SUFFICES ASSUME Init
             PROVE  TasksInOrder /\ Once
  OBVIOUS
<1>1. /\ base = <<>> /\ added = <<>> /\ taken = <<>> /\ started = <<>> /\ done = {}
      /\ pc = [t \in Threads |-> "idle"] /\ at = [w \in Workers |-> "none"]
      /\ Boss \in Threads /\ Workers \subseteq Threads
  BY PoolAssumption DEF Init, QueueInit
<1>2. Holders = {} /\ Working = {} /\ Members(started) = {}
  BY <1>1 DEF Holders, Working, Members
<1>3. Once
  BY <1>1, <1>2 DEF Once, Distinct
<1>4. Unpushed = <<>>
  BY <1>1 DEF Unpushed
<1>5. Pending = <<>>
  BY <1>1, <1>4 DEF Pending
<1>6. Len(<<>>) = 0
  BY EmptySeq
<1>7. Handed(0, <<>>, <<>>, <<>>)
  BY <1>6 DEF Handed
<1> QED
  BY <1>1, <1>3, <1>5, <1>7 DEF TasksInOrder

\* A popped task was not popped before.
LEMMA HandedNew ==
  ASSUME NEW p \in Seq(Items), NEW t \in Seq(Tasks), NEW a \in Seq(Tasks), NEW n \in Nat,
         Handed(n, p, t, a), Distinct(a), p # <<>>, Head(p) # Pill
  PROVE  Head(p) \notin Members(t)
<1>1. n > 0
  BY HandedPop
<1>2. Head(p) = a[Len(t) + 1] /\ Len(t) + 1 \in 1..Len(a)
  BY <1>1, HandedTasks
<1>3. Len(a) = Len(t) + n /\ \A i \in 1..Len(t) : a[i] = t[i]
  BY DEF Handed
<1>4. Len(t) \in Nat /\ DOMAIN t = 1..Len(t) /\ DOMAIN a = 1..Len(a)
  OBVIOUS
<1>5. ASSUME NEW i \in 1..Len(t)
      PROVE  t[i] # a[Len(t) + 1]
  <2>1. i \in 1..Len(a) /\ i # Len(t) + 1
    BY <1>1, <1>3, <1>4
  <2> QED
    BY <1>2, <1>3, <1>4, <2>1 DEF Distinct
<1> QED
  BY <1>2, <1>5, <1>4 DEF Members

\* What is new at the end of a sequence of distinct members leaves them distinct.
LEMMA DistinctConcat ==
  ASSUME NEW S, NEW s \in Seq(S), NEW r \in Seq(S), Distinct(s), Distinct(r),
         Members(r) \cap Members(s) = {}
  PROVE  Distinct(s \o r)
<1>1. PICK x : x = s \o r
  OBVIOUS
<1>2. /\ DOMAIN s = 1..Len(s) /\ Len(s) \in Nat /\ DOMAIN r = 1..Len(r) /\ Len(r) \in Nat
      /\ DOMAIN x = 1..(Len(s) + Len(r))
      /\ \A i \in 1..(Len(s) + Len(r)) : x[i] = IF i <= Len(s) THEN s[i] ELSE r[i - Len(s)]
  BY <1>1, ConcatProperties
<1>3. \A i \in DOMAIN x :
        \/ i \in DOMAIN s /\ x[i] = s[i]
        \/ i \notin DOMAIN s /\ i - Len(s) \in DOMAIN r /\ x[i] = r[i - Len(s)]
  BY <1>2
<1>4. \A i \in DOMAIN s, j \in DOMAIN r : s[i] # r[j]
  BY DEF Members
<1>5. ASSUME NEW i \in DOMAIN x, NEW j \in DOMAIN x, x[i] = x[j]
      PROVE  i = j
  <2>1. CASE i \in DOMAIN s
    BY <1>3, <1>4, <1>5, <2>1 DEF Distinct
  <2>2. CASE i \notin DOMAIN s
    <3>1. i - Len(s) \in DOMAIN r /\ j - Len(s) \in DOMAIN r
          /\ r[i - Len(s)] = r[j - Len(s)]
      BY <1>3, <1>4, <1>5, <2>2
    <3>2. i - Len(s) = j - Len(s)
      BY <3>1 DEF Distinct
    <3> QED
      BY <1>2, <3>2
  <2> QED
    BY <2>1, <2>2
<1>6. Distinct(x)
  BY <1>5 DEF Distinct
<1> QED
  BY <1>1, <1>6

LEMMA DistinctAppend ==
  ASSUME NEW S, NEW s \in Seq(S), NEW x \in S, Distinct(s), x \notin Members(s)
  PROVE  Distinct(Append(s, x))
<1>1. PICK r : r = Append(s, x)
  OBVIOUS
<1>2. /\ Len(r) = Len(s) + 1 /\ r \in Seq(S) /\ Len(s) \in Nat /\ DOMAIN s = 1..Len(s)
      /\ \A i \in 1..Len(s) : r[i] = s[i]
      /\ r[Len(s) + 1] = x
  BY <1>1, AppendProperties
<1>3. \A i \in DOMAIN r : (i \in DOMAIN s /\ r[i] = s[i]) \/ (i = Len(s) + 1 /\ r[i] = x)
  BY <1>2
<1>4. \A i \in DOMAIN s : s[i] # x
  BY DEF Members
<1>5. Distinct(r)
  BY <1>3, <1>4 DEF Distinct
<1> QED
  BY <1>1, <1>5

\* A step that changes nothing of what is pending and popped keeps their order.
LEMMA OrderStays ==
  ASSUME TasksInOrder, Pending' = Pending, UNCHANGED <<taken, added>>
  PROVE  TasksInOrder'
BY DEF TasksInOrder

\* A step after which no worker holds anything new keeps Once.
LEMMA OnceStays ==
  ASSUME Once, Distinct(added)', Holders' \subseteq Holders, Working' = Working,
         \A w \in Holders' \cup Working : ret'[w] = ret[w],
         UNCHANGED <<taken, started, done>>
  PROVE  Once'
<1>1. {ret'[w] : w \in Working'} = {ret[w] : w \in Working}
  OBVIOUS
<1>2. Members(started)' = Members(started) /\ Taken' = Taken /\ done' = done
  BY DEF Taken
<1>3. Distinct(started)'
  BY DEF Once, Distinct
<1> QED
  BY <1>1, <1>2, <1>3 DEF Once

\* Every step hands a task from one hand to the next.
LEMMA OnceStep ==
  Places /\ Places' /\ Ledger /\ TasksInOrder /\ Once /\ [Next]_vars
    => TasksInOrder' /\ Once'
<1> SUFFICES ASSUME Places, Places', Ledger, TasksInOrder, Once, [Next]_vars
             PROVE  TasksInOrder' /\ Once'
  OBVIOUS
<1>1. /\ Boss \in Threads /\ Boss \notin Workers /\ Workers \subseteq Threads
      /\ Threads = Workers \cup {Boss}
      /\ Items = Tasks \cup {Pill} /\ Pill \notin Tasks
      /\ base \in Seq(Items) /\ at \in [Workers -> WorkerAt]
      /\ pc \in [Threads -> Points] /\ DOMAIN ret = Threads
  BY PoolAssumption DEF Places, TypeOK, Control
<1>2. /\ Pending \in Seq(Items) /\ Members(Pending) = Waiting /\ Unpushed \in Seq(Items)
      /\ Members(Unpushed) = Left
  BY PendingMembers
<1>3. added \in Seq(Tasks) /\ taken \in Seq(Tasks) /\ started \in Seq(Tasks)
  BY DEF Ledger, History
<1>4. PICK n \in Nat : Handed(n, Pending, taken, added)
  BY DEF TasksInOrder
<1>5. Distinct(added)
  BY DEF Once
<1>6. CASE StartWorker
  <2>1. /\ created + 1 \in Workers /\ at[created + 1] = "none"
        /\ at' = [at EXCEPT ![created + 1] = "loop"]
        /\ UNCHANGED <<pc, base, batch, pushed, ret, added, taken, started, done>>
    BY <1>6, PoolAssumption DEF StartWorker, Places, Control, CreatedPlace, Workers, queueVars
  <2>2. Holders' = Holders /\ Working' = Working
    BY <1>1, <2>1 DEF Holders, Working
  <2>3. Pending' = Pending
    BY <2>1 DEF Pending, Unpushed
  <2> QED
    BY <1>5, <2>1, <2>2, <2>3, OrderStays, OnceStays DEF Distinct
<1>7. CASE AddTasks
  <2>1. PICK tasks \in Batches \cap Seq(Tasks) :
          /\ Members(tasks) \cap Members(added) = {}
          /\ \A i, j \in DOMAIN tasks : tasks[i] = tasks[j] => i = j
          /\ BeginEnqueue(Boss, tasks) /\ added' = added \o tasks
    BY <1>7 DEF AddTasks
  <2>2. boss = "adding" /\ UNCHANGED <<boss, at, taken, started, done>>
    BY <1>7 DEF AddTasks
  <2>3. tasks \in Seq(Items)
    BY ItemsAssumption
  <2>4. /\ Left = {} /\ Unpushed = <<>> /\ Unpushed' = tasks /\ UNCHANGED <<base, ret>>
        /\ Holders' = Holders
    BY <2>1, <2>2, <2>3, HandOver
  <2>5. Pending = base /\ Pending' = Pending \o tasks
    BY <1>1, <2>4, ConcatEmptySeq DEF Pending
  <2>6. Pill \notin Members(Pending)
    BY <1>2, <2>2 DEF Ledger, PillOrder
  <2>7. Handed(Len(Pending) + Len(tasks), Pending', taken, added')
    BY <1>2, <1>3, <1>4, <2>1, <2>5, <2>6, HandedMore
  <2>8. Len(Pending) + Len(tasks) \in Nat
    BY <1>2
  <2>9. TasksInOrder'
    BY <2>2, <2>7, <2>8 DEF TasksInOrder
  <2>10. Distinct(added)'
    <3>1. Distinct(tasks)
      BY <2>1 DEF Distinct
    <3>2. PICK e : e = added \o tasks
      OBVIOUS
    <3>3. Distinct(e)
      BY <1>3, <1>5, <2>1, <3>1, <3>2, DistinctConcat
    <3> QED
      BY <2>1, <3>2, <3>3 DEF Distinct
  <2>11. Working' = Working
    BY <2>2 DEF Working
  <2> QED
    BY <2>2, <2>4, <2>9, <2>10, <2>11, OnceStays
<1>8. CASE Finish
  <2>1. BeginEnqueue(Boss, Pills) /\ UNCHANGED <<at, added, taken, started, done>>
    BY <1>8 DEF Finish
  <2>2. Pills \in Seq(Items)
    BY PillsAssumption, ItemsAssumption
  <2>3. /\ Unpushed = <<>> /\ Unpushed' = Pills /\ UNCHANGED <<base, ret>>
        /\ Holders' = Holders
    BY <2>1, <2>2, HandOver
  <2>4. Members(Pills) \subseteq {Pill}
    BY DEF Members, Pills
  <2>5. Pending = base /\ Pending' = Pending \o Pills
    BY <1>1, <2>3, ConcatEmptySeq DEF Pending
  <2>6. Handed(n, Pending', taken, added)
    BY <1>2, <1>3, <1>4, <2>2, <2>4, <2>5, HandedPills
  <2>7. TasksInOrder'
    BY <2>1, <2>6 DEF TasksInOrder
  <2>8. Working' = Working
    BY <2>1 DEF Working
  <2> QED
    BY <1>5, <2>1, <2>3, <2>7, <2>8, OnceStays DEF Distinct
<1>9. CASE Join \/ Release \/ Finished
  <2>1. UNCHANGED <<at, added, taken, started, done, base, batch, pushed, ret>>
    BY <1>9 DEF Join, Release, Finished, poolVars, BeginDestroy, queueVars
  <2>2. pc' = pc \/ (pc[Boss] = "idle" /\ pc' = [pc EXCEPT ![Boss] = "des_lock"])
    BY <1>9 DEF Join, Release, Finished, BeginDestroy, Goto, queueVars
  <2>3. Unpushed' = Unpushed /\ Holders' = Holders /\ Working' = Working
    BY <1>1, <2>1, <2>2 DEF Unpushed, Holders, Working
  <2>4. Pending' = Pending
    BY <2>1, <2>3 DEF Pending
  <2> QED
    BY <1>5, <2>1, <2>3, <2>4, OrderStays, OnceStays DEF Distinct
<1>10. ASSUME NEW w \in Workers, WorkerAsk(w)
       PROVE  TasksInOrder' /\ Once'
  <2>1. /\ at[w] = "loop" /\ at' = [at EXCEPT ![w] = "dequeue"]
        /\ pc' = [pc EXCEPT ![w] = "deq_lock"]
        /\ UNCHANGED <<base, batch, pushed, ret, added, taken, started, done>>
    BY <1>10 DEF WorkerAsk, BeginDequeue, Goto
  <2>2. pc'[Boss] = pc[Boss] /\ \A v \in Workers \ {w} : at'[v] = at[v] /\ pc'[v] = pc[v]
    BY <1>1, <2>1
  <2>3. Unpushed' = Unpushed
    BY <2>1, <2>2 DEF Unpushed
  <2>4. Holders' \subseteq Holders /\ Working' = Working
    BY <1>1, <2>1, <2>2 DEF Holders, Working
  <2>5. Pending' = Pending
    BY <2>1, <2>3 DEF Pending
  <2> QED
    BY <1>5, <2>1, <2>4, <2>5, OrderStays, OnceStays DEF Distinct
<1>11. ASSUME NEW w \in Workers, WorkerExit(w) \/ WorkerGot(w)
       PROVE  TasksInOrder' /\ Once'
  <2>1. /\ at[w] = "dequeue" /\ pc[w] = "idle"
        /\ \/ at' = [at EXCEPT ![w] = "exited"]
           \/ at' = [at EXCEPT ![w] = "holding"]
        /\ UNCHANGED <<pc, base, batch, pushed, ret, added, taken, started, done>>
    BY <1>11 DEF WorkerExit, WorkerGot, queueVars
  <2>2. Holders' \subseteq Holders /\ Working' = Working
    BY <1>1, <2>1 DEF Holders, Working
  <2>3. Pending' = Pending
    BY <2>1 DEF Pending, Unpushed
  <2> QED
    BY <1>5, <2>1, <2>2, <2>3, OrderStays, OnceStays DEF Distinct
<1>12. ASSUME NEW w \in Workers, WorkBegins(w)
       PROVE  TasksInOrder' /\ Once'
  <2>1. /\ at[w] = "holding" /\ at' = [at EXCEPT ![w] = "working"]
        /\ started' = Append(started, ret[w])
        /\ UNCHANGED <<pc, base, batch, pushed, ret, added, taken, done>>
    BY <1>12 DEF WorkBegins, queueVars
  <2>2. w \in Holders /\ Holders' = Holders /\ Working' = Working \cup {w} /\ w \notin Working
        /\ Working \subseteq Holders
    BY <1>1, <2>1 DEF Holders, Working
  <2>3. ret[w] \in Tasks /\ ret[w] # Pill
    BY <1>1, <1>3, <2>1, <2>2 DEF Ledger, Accounted, Added, Members
  <2>4. ret[w] \notin Members(started)
    BY <2>2, <2>3 DEF Once
  <2>5. Members(started)' = Members(started) \cup {ret[w]}
    BY <1>3, <2>1, <2>3, MembersAppend
  <2>6. Distinct(started)'
    BY <1>3, <2>1, <2>3, <2>4, DistinctAppend DEF Once
  <2>7. Members(started)' = done' \cup {ret'[v] : v \in Working'}
    BY <2>1, <2>2, <2>5 DEF Once
  <2>8. Pending' = Pending
    BY <2>1 DEF Pending, Unpushed
  <2>9. Taken' = Taken /\ Distinct(added)'
    BY <1>5, <2>1 DEF Taken, Distinct
  <2>10. Once'
    BY <2>1, <2>2, <2>6, <2>7, <2>9 DEF Once
  <2> QED
    BY <2>1, <2>8, <2>10, OrderStays
<1>13. ASSUME NEW w \in Workers, WorkEnds(w)
       PROVE  TasksInOrder' /\ Once'
  <2>1. /\ at[w] = "working" /\ at' = [at EXCEPT ![w] = "loop"]
        /\ done' = done \cup {ret[w]}
        /\ UNCHANGED <<pc, base, batch, pushed, ret, added, taken, started>>
    BY <1>13 DEF WorkEnds, queueVars
  <2>2. w \in Holders /\ Holders' = Holders \ {w}
    BY <1>1, <2>1 DEF Holders, Places, WorkerPlace
  <2>3. Working' = Working \ {w} /\ w \in Working
    BY <1>1, <2>1 DEF Working
  <2>4. ret[w] # Pill
    BY <2>1, <2>2 DEF Ledger, Accounted
  <2>5. Members(started)' = done' \cup {ret'[v] : v \in Working'}
    BY <2>1, <2>3 DEF Once
  <2>6. Distinct(started)' /\ Distinct(added)' /\ Taken' = Taken
    BY <2>1 DEF Once, Distinct, Taken
  <2>7. Once'
    BY <2>1, <2>2, <2>4, <2>5, <2>6 DEF Once
  <2>8. Pending' = Pending
    BY <2>1 DEF Pending, Unpushed
  <2> QED
    BY <2>1, <2>7, <2>8, OrderStays
<1>14. ASSUME InQueue(Boss), EnqueuePush(Boss)
       PROVE  TasksInOrder' /\ Once'
  <2>1. /\ UNCHANGED <<at, added, started, done, taken>>
    BY <1>14 DEF InQueue, EnqueuePush
  <2>2. Holders' = Holders /\ UNCHANGED ret
    BY <1>14, <2>1, PushEffect
  <2>3. Pending' = Pending
    BY <1>14, PushKeepsPending
  <2>4. Working' = Working
    BY <2>1 DEF Working
  <2> QED
    BY <1>5, <2>1, <2>2, <2>3, <2>4, OrderStays, OnceStays DEF Distinct
<1>15. ASSUME NEW w \in Workers, InQueue(w), DequeuePop(w)
       PROVE  TasksInOrder' /\ Once'
  <2>1. UNCHANGED <<at, added, started, done>> /\ pc[w] = "deq_pop" /\ at[w] = "dequeue"
    BY <1>15 DEF InQueue, DequeuePop, Places, WorkerPlace
  <2>2. taken' = IF Head(base) # Pill THEN Append(taken, Head(base)) ELSE taken
    BY <1>15, <2>1 DEF InQueue
  <2>3. /\ base # <<>> /\ base' = Tail(base) /\ Unpushed' = Unpushed
        /\ w \notin Holders /\ Holders' = Holders \cup {w}
        /\ ret' = [ret EXCEPT ![w] = Head(base)] /\ w \in DOMAIN ret
    BY <1>15, <2>1, PopEffect
  <2>4. Pending # <<>> /\ Head(Pending) = Head(base) /\ Pending' = Tail(Pending)
    BY <1>1, <1>2, <2>3, ConcatTail, ZenonT(60) DEF Pending
  <2>5. ret'[w] = Head(base) /\ \A v \in Workers \ {w} : ret'[v] = ret[v]
    BY <1>1, <2>3
  <2>6. /\ Working' = Working /\ w \notin Working /\ Working \subseteq Workers
        /\ Holders \subseteq Workers
    BY <2>1 DEF Working, Holders
  <2>7. {ret'[v] : v \in Working'} = {ret[v] : v \in Working}
    BY <2>5, <2>6
  <2>8. /\ Distinct(added)' /\ Distinct(started)' /\ Members(started)' = Members(started)
        /\ done' = done
    BY <1>5, <2>1 DEF Once, Distinct
  <2>9. CASE Head(base) = Pill
    <3>1. taken' = taken /\ Taken' = Taken
      BY <2>2, <2>9 DEF Taken
    <3>2. Handed(0, Pending', taken, added)
      BY <1>2, <1>3, <1>4, <2>4, <2>9, HandedPop
    <3>3. TasksInOrder'
      BY <2>1, <3>1, <3>2 DEF TasksInOrder
    <3>4. \A v \in Holders' : ret'[v] # Pill => v \in Holders /\ ret'[v] = ret[v]
      BY <2>3, <2>5, <2>6, <2>9
    <3>5. Once'
      BY <2>7, <2>8, <3>1, <3>4 DEF Once
    <3> QED
      BY <3>3, <3>5
  <2>10. CASE Head(base) # Pill
    <3>1. Handed(n - 1, Pending', taken', added') /\ n - 1 \in Nat
      BY <1>2, <1>3, <1>4, <2>1, <2>2, <2>4, <2>10, HandedPop
    <3>2. TasksInOrder'
      BY <3>1 DEF TasksInOrder
    <3>3. Head(base) \notin Taken
      BY <1>2, <1>3, <1>4, <1>5, <2>4, <2>10, HandedNew DEF Taken
    <3>4. Head(base) \in Tasks
      BY <1>1, <2>3, <2>10, HeadTailProperties
    <3>5. Taken' = Taken \cup {Head(base)}
      BY <1>3, <2>2, <2>10, <3>4, MembersAppend DEF Taken
    <3>6. \A v \in Holders : v # w /\ ret'[v] = ret[v] /\ (ret[v] # Pill => ret[v] # Head(base))
      BY <2>3, <2>5, <2>6, <3>3 DEF Once
    <3>7. \A v, u \in Holders' : ret'[v] = ret'[u] /\ ret'[v] # Pill => v = u
      BY <2>3, <2>5, <3>6 DEF Once
    <3>8. \A v \in Holders' : ret'[v] # Pill => ret'[v] \in Taken' \ done'
      BY <2>1, <2>3, <2>5, <3>3, <3>5, <3>6 DEF Once
    <3>9. Once'
      BY <2>7, <2>8, <3>5, <3>7, <3>8 DEF Once
    <3> QED
      BY <3>2, <3>9
  <2> QED
    BY <2>9, <2>10
<1>16. ASSUME NEW t \in Threads, InQueue(t) \/ (t \in Workers /\ Wakeup(t)),
              ~ (t = Boss /\ EnqueuePush(t)), ~ (t \in Workers /\ DequeuePop(t))
       PROVE  TasksInOrder' /\ Once'
  <2>1. /\ QueueStep(t) \/ (t \in Workers /\ SpuriousWakeup(t))
        /\ UNCHANGED <<boss, at, added, started, done, taken>>
    BY <1>16, TakenStays DEF InQueue, Wakeup, poolVars
  <2>2. /\ Left' = Left /\ Unpushed' = Unpushed /\ Holders' = Holders /\ UNCHANGED ret
        /\ UNCHANGED base \/ (DestroyDrain(Boss) /\ base' = <<>>)
    BY <1>16, <2>1, OtherEffect
  <2>3. Working' = Working
    BY <2>1 DEF Working
  <2>4. Once'
    BY <1>5, <2>1, <2>2, <2>3, OnceStays DEF Distinct
  <2>5. CASE UNCHANGED base
    <3>1. Pending' = Pending
      BY <2>2, <2>5 DEF Pending
    <3> QED
      BY <2>1, <2>4, <3>1, OrderStays
  <2>6. CASE DestroyDrain(Boss) /\ base' = <<>>
    <3>1. boss \in {"releasing", "finished"} /\ pc[Boss] \notin {"enq_lock", "enq_push"}
      BY <2>6 DEF DestroyDrain, Places, BossPlace, DestroyAt
    <3>2. 1 \in Workers /\ at[1] = "exited"
      BY <3>1, PoolAssumption DEF Places, JoinedPlace, Workers
    <3>3. Waiting \subseteq {Pill}
      BY <3>2 DEF Ledger, PillOrder, Enders
    <3>4. Unpushed = <<>>
      BY <3>1 DEF Unpushed
    <3>5. Pending' = <<>>
      BY <2>2, <2>6, <3>4 DEF Pending
    <3>6. n = 0
      <4>1. SUFFICES ASSUME n # 0
                     PROVE  FALSE
        OBVIOUS
      <4>2. Pending # <<>> /\ Pending[1] # Pill
        BY <1>2, <1>3, <1>4, <4>1, HandedTasks
      <4>3. 1 \in DOMAIN Pending
        BY <1>2, <4>2
      <4> QED
        BY <1>2, <3>3, <4>2, <4>3 DEF Members
    <3>7. Handed(0, <<>>, taken, added)
      <4>1. Len(<<>>) = 0
        BY EmptySeq
      <4> QED
        BY <1>3, <1>4, <3>6, <4>1 DEF Handed
    <3>8. TasksInOrder'
      BY <2>1, <3>5, <3>7 DEF TasksInOrder
    <3> QED
      BY <2>4, <3>8
  <2> QED
    BY <2>2, <2>5, <2>6
<1>17. CASE UNCHANGED vars
  <2>1. UNCHANGED <<pc, base, batch, pushed, ret, at, added, taken, started, done>>
    BY <1>17 DEF vars, queueVars, poolVars
  <2>2. Holders' = Holders /\ Working' = Working /\ Pending' = Pending
    BY <2>1 DEF Holders, Working, Pending, Unpushed
  <2> QED
    BY <1>5, <2>1, <2>2, OrderStays, OnceStays DEF Distinct
<1>18. ASSUME NEW t \in Threads, InQueue(t) \/ (t \in Workers /\ Wakeup(t))
       PROVE  TasksInOrder' /\ Once'
  <2>1. CASE t = Boss /\ EnqueuePush(t)
    BY <1>1, <1>14, <1>18, <2>1
  <2>2. CASE t \in Workers /\ DequeuePop(t)
    <3>1. ~ Wakeup(t)
      BY <2>2 DEF Wakeup, SpuriousWakeup, DequeuePop
    <3> QED
      BY <1>15, <1>18, <2>2, <3>1
  <2> QED
    BY <1>16, <1>18, <2>1, <2>2
<1> QED
  BY <1>1, <1>6, <1>7, <1>8, <1>9, <1>10, <1>11, <1>12, <1>13, <1>17, <1>18
     DEF Next, BossStep, WorkerStep

\* A set of equal elements has one or none.
LEMMA OneOrNone ==
  ASSUME NEW S, NEW x, \A y \in S : y = x
  PROVE  Cardinality(S) = IF x \in S THEN 1 ELSE 0
<1>1. CASE x \in S
  <2>1. S = {x}
    BY <1>1
  <2> QED
    BY <1>1, <2>1, FS_Singleton
<1>2. CASE x \notin S
  <2>1. S = {}
    BY <1>2
  <2> QED
    BY <1>2, <2>1, FS_EmptySet
<1> QED
  BY <1>1, <1>2

\* The tasks popped and those pending are, in their order, the tasks added, and each
\* task popped is with one worker until it is done (worker_work_).
THEOREM PoolOnce == Spec => [](TasksInOrder /\ Once)
<1>1. Places /\ Places' /\ Ledger /\ TasksInOrder /\ Once /\ [Next]_vars => TasksInOrder' /\ Once'
  BY OnceStep
<1> QED
  BY OnceInit, PoolPlaces, PoolLedger, <1>1, PTL DEF Spec

\* No task is lost, doubled or overtaken on its way to a worker, and work is called on
\* it once, for any number of workers and tasks (gf-student.h:62-64).
THEOREM PoolEveryTaskOnce == Spec => []EveryTaskOnce
<1>1. Places /\ Ledger /\ TasksInOrder /\ Once => EveryTaskOnce
  <2> SUFFICES ASSUME Places, Ledger, TasksInOrder, Once
               PROVE  EveryTaskOnce
    OBVIOUS
  <2> DEFINE Count(holds) == IF holds THEN 1 ELSE 0
             Has1(task) == {w \in Workers : Has(w, task)}
             On(task) == {w \in Workers : at[w] = "working" /\ ret[w] = task}
             Calls(task) == {i \in DOMAIN started : started[i] = task}
  <2>1. \E n \in 0..Len(Pending) :
          /\ added = taken \o SubSeq(Pending, 1, n)
          /\ \A i \in n+1..Len(Pending) : Pending[i] = Pill
    <3>1. PICK n \in Nat : Handed(n, Pending, taken, added)
      BY DEF TasksInOrder
    <3>2. added = taken \o SubSeq(Pending, 1, n)
      BY <3>1, PendingMembers, HandedMeans DEF Ledger, History
    <3>3. n \in 0..Len(Pending) /\ \A i \in n+1..Len(Pending) : Pending[i] = Pill
      BY <3>1 DEF Handed
    <3> QED
      BY <3>2, <3>3
  <2>2. ASSUME NEW task \in Tasks
        PROVE  /\ Cardinality(Has1(task)) + Count(task \in done) = Count(task \in Taken)
               /\ Cardinality(Calls(task)) = Cardinality(On(task)) + Count(task \in done)
    <3>1. task # Pill
      BY PoolAssumption
    <3>2. Has1(task) = {w \in Holders : ret[w] = task}
      BY DEF Has, Holders
    <3>3. On(task) = {w \in Working : ret[w] = task} /\ Working \subseteq Holders
      BY DEF Working, Holders
    <3>4. \A v, w \in Has1(task) : v = w
      BY <3>1, <3>2 DEF Once
    <3>5. Cardinality(Has1(task)) = Count(Has1(task) # {})
      <4>1. CASE Has1(task) = {}
        BY <4>1, FS_EmptySet
      <4>2. ASSUME NEW v \in Has1(task)
            PROVE  Cardinality(Has1(task)) = 1
        BY <3>4, OneOrNone
      <4> QED
        BY <4>1, <4>2
    <3>6. Cardinality(On(task)) = Count(On(task) # {})
      <4>1. CASE On(task) = {}
        BY <4>1, FS_EmptySet
      <4>2. ASSUME NEW v \in On(task)
            PROVE  Cardinality(On(task)) = 1
        <5>1. \A w \in On(task) : w = v
          BY <3>2, <3>3, <3>4
        <5> QED
          BY <5>1, OneOrNone
      <4> QED
        BY <4>1, <4>2
    <3>7. Cardinality(Calls(task)) = Count(Calls(task) # {})
      <4>1. CASE Calls(task) = {}
        BY <4>1, FS_EmptySet
      <4>2. ASSUME NEW i \in Calls(task)
            PROVE  Cardinality(Calls(task)) = 1
        <5>1. \A j \in Calls(task) : j = i
          BY DEF Once, Distinct
        <5> QED
          BY <5>1, OneOrNone
      <4> QED
        BY <4>1, <4>2
    <3>8. /\ task \in Taken <=> task \in done \/ Has1(task) # {}
          /\ ~ (task \in done /\ Has1(task) # {})
      BY <3>1, <3>2 DEF Once, Ledger, Accounted
    <3>9. /\ Calls(task) # {} <=> task \in done \/ On(task) # {}
          /\ ~ (task \in done /\ On(task) # {})
      <4>1. Calls(task) # {} <=> task \in Members(started)
        BY DEF Members
      <4>2. task \in {ret[w] : w \in Working} <=> On(task) # {}
        BY <3>3
      <4>3. On(task) \subseteq Has1(task)
        BY <3>2, <3>3
      <4> QED
        BY <3>8, <4>1, <4>2, <4>3 DEF Once
    <3> QED
      BY <3>5, <3>6, <3>7, <3>8, <3>9
  <2> QED
    BY <2>1, <2>2 DEF EveryTaskOnce, Taken
<1> QED
  BY <1>1, PoolOnce, PoolPlaces, PoolLedger, PTL

-----------------------------------------------------------------------------
(* The steque that the queue is made of: the linked list holds together and  *)
(* implements the sequence, for any items and addresses, and through calls   *)
(* in any order.                                                             *)

\* A node that malloc returns is not in the list.
LEMMA NewNode ==
  ASSUME ListOK, NEW node \in Node \ allocated
  PROVE  /\ node # Null
         /\ \A i \in 1..Len(chain) : chain[i] # node
BY StequeAssumption DEF ListOK

\* The ends of a list that is not empty.
LEMMA EndsOfList ==
  ASSUME ListOK
  PROVE  /\ Len(chain) \in Nat
         /\ chain = <<>> <=> Len(chain) = 0
         /\ front = Null <=> Len(chain) = 0
         /\ back = Null <=> Len(chain) = 0
         /\ \A i \in 1..Len(chain) : chain[i] \in Node /\ chain[i] # Null
         /\ Len(chain) > 0 => front = chain[1] /\ back = chain[Len(chain)]
<1>1. chain \in Seq(Node) /\ Len(chain) \in Nat /\ (chain = <<>> <=> Len(chain) = 0)
  BY EmptySeq DEF ListOK, ListTypes
<1>2. \A i \in 1..Len(chain) : chain[i] \in Node /\ chain[i] # Null
  BY <1>1, ElementOfSeq, StequeAssumption
<1> QED
  BY <1>1, <1>2 DEF ListOK

\* The items of the list, as a sequence.
LEMMA ContentsAreItems ==
  ASSUME ListOK
  PROVE  /\ Contents \in Seq(Item)
         /\ Len(Contents) = Len(chain)
         /\ \A i \in 1..Len(chain) : Contents[i] = heap[chain[i]].item
<1>1. Len(chain) \in Nat
  BY EndsOfList
<1>2. Contents \in [1..Len(chain) -> Item]
  BY DEF Contents, ListOK
<1> QED
  BY <1>1, <1>2 DEF Contents

\* The list is whole in every state.
LEMMA InitIsList ==
  ASSUME ListInit
  PROVE  ListOK
<1>1. chain = <<>> /\ Len(chain) = 0 /\ chain \in Seq(Node) /\ 1..Len(chain) = {}
  BY EmptySeq DEF ListInit
<1>2. ListTypes
  BY <1>1 DEF ListInit, ListTypes
<1> QED
  BY <1>1, <1>2 DEF ListInit, ListOK

\* steque_enqueue: the new node is behind the others.
LEMMA EnqueueKeepsList ==
  ASSUME ListOK, NEW item \in Item, Enqueue(item)
  PROVE  /\ ListOK'
         /\ Len(chain') = Len(chain) + 1
         /\ \A i \in 1..Len(chain) : heap'[chain'[i]].item = heap[chain[i]].item
         /\ heap'[chain'[Len(chain) + 1]].item = item
<1> DEFINE L == Len(chain)
<1>1. PICK node \in Node \ allocated :
        /\ allocated' = allocated \cup {node}
        /\ IF back = Null
             THEN /\ front' = node
                  /\ heap' = [heap EXCEPT ![node] = [item |-> item, next |-> Null]]
             ELSE /\ heap' = [heap EXCEPT ![node] = [item |-> item, next |-> Null],
                                          ![back].next = node]
                  /\ UNCHANGED front
        /\ back' = node
        /\ chain' = Append(chain, node)
  BY DEF Enqueue
<1>2. /\ chain \in Seq(Node) /\ L \in Nat
      /\ N' = N + 1 /\ UNCHANGED <<destroying, answer, exited>>
  BY EndsOfList DEF ListOK, ListTypes, Enqueue
<1>3. /\ chain' \in Seq(Node) /\ Len(chain') = L + 1 /\ chain'[L + 1] = node
      /\ \A i \in 1..L : chain'[i] = chain[i]
  BY <1>1, <1>2, AppendProperties
<1>4. /\ heap' \in [Node -> [item : Item \cup {Nothing}, next : Node \cup {Null}]]
      /\ heap'[node] = [item |-> item, next |-> Null]
      /\ \A i \in 1..L : /\ heap'[chain[i]].item = heap[chain[i]].item
                         /\ heap'[chain[i]].next = IF i = L THEN node
                                                   ELSE heap[chain[i]].next
  <2>1. /\ heap \in [Node -> [item : Item \cup {Nothing}, next : Node \cup {Null}]]
        /\ back \in Node \cup {Null} /\ back # node
        /\ (back = Null <=> L = 0) /\ (L > 0 => back = chain[L])
    BY <1>2, EndsOfList, NewNode DEF ListOK, ListTypes
  <2>2. \A i \in 1..L : chain[i] \in Node /\ chain[i] # node /\ (chain[i] = back => i = L)
    BY <1>2, <2>1, EndsOfList, NewNode DEF ListOK
  <2> QED
    BY <1>1, <1>2, <2>1, <2>2
<1>5. ListOK'
  <2>1. ListTypes'
    BY <1>1, <1>2, <1>3, <1>4 DEF ListOK, ListTypes
  <2>2. front' = chain'[1]
    BY <1>1, <1>2, <1>3, EndsOfList
  <2>3. N' = Len(chain') /\ back' = chain'[Len(chain')] /\ chain' # <<>>
    BY <1>1, <1>2, <1>3, EmptySeq DEF ListOK
  <2>4. \A i \in 1..Len(chain') :
          /\ chain'[i] \in allocated'
          /\ heap'[chain'[i]].item \in Item
          /\ heap'[chain'[i]].next = IF i = Len(chain') THEN Null ELSE chain'[i + 1]
    BY <1>1, <1>2, <1>3, <1>4 DEF ListOK
  <2>5. \A i, j \in 1..Len(chain') : chain'[i] = chain'[j] => i = j
    BY <1>1, <1>2, <1>3, NewNode DEF ListOK
  <2>6. \A n \in allocated' : \E i \in 1..Len(chain') : chain'[i] = n
    BY <1>1, <1>2, <1>3 DEF ListOK
  <2> QED
    BY <2>1, <2>2, <2>3, <2>4, <2>5, <2>6 DEF ListOK
<1> QED
  BY <1>1, <1>2, <1>3, <1>4, <1>5

\* steque_push: the new node is before the others.
LEMMA PushKeepsList ==
  ASSUME ListOK, NEW item \in Item, Push(item)
  PROVE  /\ ListOK'
         /\ Len(chain') = Len(chain) + 1
         /\ heap'[chain'[1]].item = item
         /\ \A i \in 1..Len(chain) : heap'[chain'[i + 1]].item = heap[chain[i]].item
<1> DEFINE L == Len(chain)
<1>1. PICK node \in Node \ allocated :
        /\ allocated' = allocated \cup {node}
        /\ heap' = [heap EXCEPT ![node] = [item |-> item, next |-> front]]
        /\ back' = IF back = Null THEN node ELSE back
        /\ front' = node
        /\ chain' = <<node>> \o chain
  BY DEF Push
<1>2. /\ chain \in Seq(Node) /\ L \in Nat
      /\ N' = N + 1 /\ UNCHANGED <<destroying, answer, exited>>
  BY EndsOfList DEF ListOK, ListTypes, Push
<1>3. /\ chain' \in Seq(Node) /\ Len(chain') = L + 1 /\ chain'[1] = node
      /\ \A i \in 2..L + 1 : chain'[i] = chain[i - 1]
  <2>1. <<node>> \in Seq(Node) /\ Len(<<node>>) = 1 /\ <<node>>[1] = node
    OBVIOUS
  <2> QED
    BY <1>1, <1>2, <2>1, ConcatProperties
<1>4. /\ heap' \in [Node -> [item : Item \cup {Nothing}, next : Node \cup {Null}]]
      /\ heap'[node] = [item |-> item, next |-> front]
      /\ \A i \in 1..L : heap'[chain[i]] = heap[chain[i]]
  BY <1>1, <1>2, EndsOfList, NewNode DEF ListOK, ListTypes
<1>5. ListOK'
  <2>1. ListTypes'
    BY <1>1, <1>2, <1>3, <1>4 DEF ListOK, ListTypes
  <2>2. N' = Len(chain') /\ front' = chain'[1] /\ chain' # <<>>
    BY <1>1, <1>2, <1>3, EmptySeq DEF ListOK
  <2>3. back' = chain'[Len(chain')]
    BY <1>1, <1>2, <1>3, EndsOfList
  <2>4. ASSUME NEW i \in 1..Len(chain')
        PROVE  /\ chain'[i] \in allocated'
               /\ heap'[chain'[i]].item \in Item
               /\ heap'[chain'[i]].next = IF i = Len(chain') THEN Null ELSE chain'[i + 1]
    <3>1. CASE i = 1
      BY <1>1, <1>2, <1>3, <1>4, <3>1, EndsOfList
    <3>2. CASE i \in 2..L + 1
      <4>1. i - 1 \in 1..L /\ chain'[i] = chain[i - 1] /\ (i # L + 1 => chain'[i + 1] = chain[i])
        <5> HIDE DEF L
        <5>1. i - 1 \in 1..L /\ i # 1 /\ (i # L + 1 => i + 1 \in 2..L + 1 /\ (i + 1) - 1 = i)
          BY <1>2, <3>2
        <5> QED
          BY <1>3, <3>2, <5>1
      <4> QED
        BY <1>1, <1>2, <1>3, <1>4, <4>1 DEF ListOK
    <3> QED
      BY <1>2, <1>3, <3>1, <3>2
  <2>5. ASSUME NEW i \in 1..Len(chain'), NEW j \in 1..Len(chain'), chain'[i] = chain'[j]
        PROVE  i = j
    <3>1. i # 1 => i - 1 \in 1..L /\ chain'[i] = chain[i - 1]
      BY <1>2, <1>3
    <3>2. j # 1 => j - 1 \in 1..L /\ chain'[j] = chain[j - 1]
      BY <1>2, <1>3
    <3>3. i = 1 <=> j = 1
      BY <1>3, <2>5, <3>1, <3>2, NewNode
    <3>4. i # 1 => i - 1 = j - 1
      BY <2>5, <3>1, <3>2, <3>3 DEF ListOK
    <3> QED
      BY <1>2, <1>3, <3>3, <3>4
  <2>6. ASSUME NEW n \in allocated'
        PROVE  \E i \in 1..Len(chain') : chain'[i] = n
    <3>1. CASE n = node
      BY <1>2, <1>3, <3>1
    <3>2. CASE n \in allocated
      <4>1. PICK i \in 1..L : chain[i] = n
        BY <3>2 DEF ListOK
      <4>2. /\ i + 1 \in 2..L + 1 /\ i + 1 \in 1..L + 1
            /\ chain[(i + 1) - 1] = chain[i]
        BY <1>2
      <4>3. chain'[i + 1] = n
        BY <1>3, <4>1, <4>2
      <4> QED
        BY <1>3, <4>2, <4>3
    <3> QED
      BY <1>1, <3>1, <3>2
  <2> QED
    BY <2>1, <2>2, <2>3, <2>4, <2>5, <2>6 DEF ListOK
<1>6. \A i \in 1..L : i + 1 \in 2..L + 1 /\ (i + 1) - 1 = i
  BY <1>2
<1> QED
  BY <1>1, <1>2, <1>3, <1>4, <1>5, <1>6

\* steque_pop, and the turn of steque_destroy: the first node leaves the list.
LEMMA TakeFrontKeepsList ==
  ASSUME ListOK, front # Null, TakeFront,
         destroying' \in BOOLEAN, answer' \in Item \cup {Nothing}
  PROVE  /\ ListOK'
         /\ Len(chain) > 0
         /\ Len(chain') = Len(chain) - 1
         /\ \A i \in 1..Len(chain) - 1 : chain'[i] = chain[i + 1]
<1> DEFINE L == Len(chain)
<1>1. /\ chain \in Seq(Node) /\ L \in Nat /\ L > 0 /\ chain # <<>>
      /\ front = chain[1] /\ back = chain[L]
  BY EndsOfList DEF ListOK, ListTypes
<1>2. /\ chain' \in Seq(Node) /\ Len(chain') = L - 1
      /\ \A i \in 1..L - 1 : chain'[i] = chain[i + 1]
  BY <1>1, HeadTailProperties DEF TakeFront
<1>3. /\ heap[front].next = IF L = 1 THEN Null ELSE chain[2]
      /\ L # 1 => chain[2] # Null
      /\ \A i \in 1..L : chain[i] \in Node /\ chain[i] # Null
  <2>0. L # 1 => 2 \in 1..L
    <3> HIDE DEF L
    <3> QED
      BY <1>1
  <2>1. 1 \in 1..L /\ 1 + 1 = 2 /\ (1 = L <=> L = 1)
    BY <1>1
  <2>2. heap[chain[1]].next = IF 1 = L THEN Null ELSE chain[1 + 1]
    BY <2>1 DEF ListOK
  <2> QED
    BY <1>1, <2>0, <2>1, <2>2, EndsOfList
<1>4. /\ front' = IF L = 1 THEN Null ELSE chain[2]
      /\ back' = IF L = 1 THEN Null ELSE back
      /\ allocated' = allocated \ {chain[1]}
      /\ N' = N - 1 /\ UNCHANGED <<heap, exited>>
  BY <1>1, <1>3 DEF TakeFront
<1>5. chain' = <<>> <=> L = 1
  BY <1>1, <1>2, EmptySeq
<1>6. ListOK'
  <2>1. N' = Len(chain')
    BY <1>1, <1>2, <1>4 DEF ListOK
  <2>2. ListTypes'
    BY <1>1, <1>2, <1>3, <1>4, <2>1 DEF ListOK, ListTypes
  <2>3. front' = IF chain' = <<>> THEN Null ELSE chain'[1]
    BY <1>1, <1>2, <1>4, <1>5
  <2>4. back' = IF chain' = <<>> THEN Null ELSE chain'[Len(chain')]
    BY <1>1, <1>2, <1>4, <1>5
  <2>5. ASSUME NEW i \in 1..Len(chain')
        PROVE  /\ chain'[i] \in allocated'
               /\ heap'[chain'[i]].item \in Item
               /\ heap'[chain'[i]].next = IF i = Len(chain') THEN Null ELSE chain'[i + 1]
    <3>1. /\ i \in 1..L - 1 /\ i + 1 \in 1..L /\ i + 1 # 1 /\ 1 \in 1..L
          /\ (i # L - 1 => i + 1 \in 1..L - 1)
      BY <1>1, <1>2
    <3>2. chain[i + 1] # chain[1] /\ chain[i + 1] \in allocated
      BY <3>1 DEF ListOK
    <3>3. /\ heap[chain[i + 1]].item \in Item
          /\ heap[chain[i + 1]].next = IF i + 1 = L THEN Null ELSE chain[(i + 1) + 1]
      BY <3>1 DEF ListOK
    <3> QED
      BY <1>1, <1>2, <1>4, <3>1, <3>2, <3>3
  <2>6. ASSUME NEW i \in 1..Len(chain'), NEW j \in 1..Len(chain'), chain'[i] = chain'[j]
        PROVE  i = j
    <3>1. /\ i + 1 \in 1..L /\ j + 1 \in 1..L
          /\ chain'[i] = chain[i + 1] /\ chain'[j] = chain[j + 1]
      BY <1>1, <1>2
    <3>2. i + 1 = j + 1
      BY <2>6, <3>1 DEF ListOK
    <3> QED
      BY <1>1, <1>2, <3>2
  <2>7. ASSUME NEW n \in allocated'
        PROVE  \E i \in 1..Len(chain') : chain'[i] = n
    <3>1. n \in allocated /\ n # chain[1]
      BY <1>4
    <3>2. PICK i \in 1..L : chain[i] = n
      BY <3>1 DEF ListOK
    <3>3. i - 1 \in 1..L - 1 /\ chain[(i - 1) + 1] = chain[i]
      BY <1>1, <3>1, <3>2
    <3>4. chain'[i - 1] = n
      BY <1>2, <3>2, <3>3
    <3> QED
      BY <1>2, <3>3, <3>4
  <2> QED
    BY <2>1, <2>2, <2>3, <2>4, <2>5, <2>6, <2>7 DEF ListOK
<1> QED
  BY <1>1, <1>2, <1>6

\* steque_cycle: the first node becomes the last.
LEMMA CycleKeepsList ==
  ASSUME ListOK, Cycle
  PROVE  /\ ListOK'
         /\ Len(chain) > 0
         /\ Len(chain') = Len(chain)
         /\ \A i \in 1..Len(chain) - 1 : chain'[i] = chain[i + 1]
         /\ chain'[Len(chain)] = chain[1]
         /\ \A n \in Node : heap'[n].item = heap[n].item
<1> DEFINE L == Len(chain)
           linked == [heap EXCEPT ![back].next = front]
<1>1. /\ chain \in Seq(Node) /\ L \in Nat /\ L > 0 /\ chain # <<>>
      /\ front = chain[1] /\ back = chain[L]
      /\ front \in Node /\ back \in Node
      /\ UNCHANGED <<N, allocated, destroying, answer, exited>>
  BY EndsOfList DEF ListOK, ListTypes, Cycle
<1>2. /\ chain' \in Seq(Node) /\ Len(chain') = L
      /\ \A i \in 1..L - 1 : chain'[i] = chain[i + 1]
      /\ chain'[L] = chain[1]
  <2>1. /\ Tail(chain) \in Seq(Node) /\ Len(Tail(chain)) = L - 1 /\ Head(chain) = chain[1]
        /\ \A i \in 1..L - 1 : Tail(chain)[i] = chain[i + 1]
        /\ Head(chain) \in Node
    BY <1>1, HeadTailProperties
  <2> QED
    BY <1>1, <2>1, AppendProperties DEF Cycle
<1>3. heap \in [Node -> [item : Item \cup {Nothing}, next : Node \cup {Null}]]
  BY DEF ListOK, ListTypes
<1>4. /\ back' = front
      /\ front' = linked[front].next
      /\ heap' = [linked EXCEPT ![front].next = Null]
  BY DEF Cycle
<1>5. /\ heap' \in [Node -> [item : Item \cup {Nothing}, next : Node \cup {Null}]]
      /\ \A n \in Node : heap'[n].item = heap[n].item
      /\ \A n \in Node : heap'[n].next = IF n = front THEN Null
                                         ELSE IF n = back THEN front ELSE heap[n].next
      /\ front' = IF front = back THEN front ELSE heap[front].next
  <2> DEFINE Nodes == [item : Item \cup {Nothing}, next : Node \cup {Null}]
  <2>1. /\ linked \in [Node -> Nodes]
        /\ \A n \in Node : linked[n] = [item |-> heap[n].item,
                                        next |-> IF n = back THEN front ELSE heap[n].next]
    BY <1>1, <1>3
  <2> HIDE DEF linked
  <2>2. /\ heap' \in [Node -> Nodes]
        /\ \A n \in Node : heap'[n] = [item |-> linked[n].item,
                                       next |-> IF n = front THEN Null ELSE linked[n].next]
    BY <1>1, <1>4, <2>1
  <2> QED
    BY <1>1, <1>4, <2>1, <2>2
<1>6. \A i \in 1..L : chain[i] \in Node /\ (chain[i] = front <=> i = 1) /\ (chain[i] = back <=> i = L)
  BY <1>1, EndsOfList DEF ListOK
<1>7. front' = IF L = 1 THEN chain[1] ELSE chain[2]
  BY <1>1, <1>5, <1>6 DEF ListOK
<1>8. ListOK'
  <2>1. chain' # <<>> /\ N' = Len(chain')
    BY <1>1, <1>2, EmptySeq DEF ListOK
  <2>2. ListTypes'
    BY <1>1, <1>2, <1>4, <1>5, <1>6, <1>7 DEF ListOK, ListTypes
  <2>3. front' = chain'[1] /\ back' = chain'[Len(chain')]
    BY <1>1, <1>2, <1>4, <1>7
  <2>4. ASSUME NEW i \in 1..Len(chain')
        PROVE  /\ chain'[i] \in allocated'
               /\ heap'[chain'[i]].item \in Item
               /\ heap'[chain'[i]].next = IF i = Len(chain') THEN Null ELSE chain'[i + 1]
    <3>1. CASE i = L
      BY <1>1, <1>2, <1>5, <3>1 DEF ListOK
    <3>2. CASE i \in 1..L - 1
      <4>1. /\ i + 1 \in 1..L /\ i + 1 # 1 /\ chain'[i] = chain[i + 1]
            /\ chain[i + 1] \in allocated /\ heap[chain[i + 1]].item \in Item
            /\ heap[chain[i + 1]].next = IF i + 1 = L THEN Null ELSE chain[(i + 1) + 1]
        BY <1>1, <1>2, <3>2 DEF ListOK
      <4>2. heap'[chain'[i]].next = IF i + 1 = L THEN front ELSE chain[(i + 1) + 1]
        BY <1>5, <1>6, <4>1
      <4>3. i + 1 = L => chain'[i + 1] = front
        BY <1>1, <1>2
      <4>4. i + 1 # L => i + 1 \in 1..L - 1 /\ chain'[i + 1] = chain[(i + 1) + 1]
        BY <1>1, <1>2, <3>2
      <4> QED
        BY <1>1, <1>2, <1>5, <1>6, <3>2, <4>1, <4>2, <4>3, <4>4
    <3> QED
      BY <1>1, <1>2, <3>1, <3>2
  <2>5. ASSUME NEW i \in 1..Len(chain'), NEW j \in 1..Len(chain'), chain'[i] = chain'[j]
        PROVE  i = j
    <3> DEFINE p(k) == IF k = L THEN 1 ELSE k + 1
    <3>1. \A k \in 1..L : p(k) \in 1..L /\ chain'[k] = chain[p(k)]
      BY <1>1, <1>2
    <3>2. p(i) = p(j)
      <4> HIDE DEF p
      <4> QED
        BY <1>2, <2>5, <3>1 DEF ListOK
    <3> QED
      BY <1>1, <1>2, <3>2
  <2>6. ASSUME NEW n \in allocated'
        PROVE  \E i \in 1..Len(chain') : chain'[i] = n
    <3>1. PICK i \in 1..L : chain[i] = n
      BY <1>1 DEF ListOK
    <3>2. CASE i = 1
      BY <1>1, <1>2, <3>1, <3>2
    <3>3. CASE i # 1
      <4>1. i - 1 \in 1..L - 1 /\ i - 1 \in 1..L /\ chain[(i - 1) + 1] = chain[i]
        BY <1>1, <3>3
      <4>2. chain'[i - 1] = n
        BY <1>2, <3>1, <4>1
      <4> QED
        BY <1>2, <4>1, <4>2
    <3> QED
      BY <3>2, <3>3
  <2> QED
    BY <2>1, <2>2, <2>3, <2>4, <2>5, <2>6 DEF ListOK
<1> QED
  BY <1>1, <1>2, <1>5, <1>8

-----------------------------------------------------------------------------
\* Every step keeps the list whole.
LEMMA StepKeepsList ==
  ASSUME ListOK, [ListNext]_listVars
  PROVE  ListOK'
<1>1. ASSUME NEW item \in Item, Enqueue(item) PROVE ListOK'
  BY <1>1, EnqueueKeepsList
<1>2. ASSUME NEW item \in Item, Push(item) PROVE ListOK'
  BY <1>2, PushKeepsList
<1>3. CASE Pop
  <2>1. destroying' \in BOOLEAN /\ answer' \in Item \cup {Nothing}
    BY <1>3, EndsOfList DEF Pop, ListOK, ListTypes
  <2> QED
    BY <1>3, <2>1, TakeFrontKeepsList DEF Pop
<1>4. CASE Cycle
  BY <1>4, CycleKeepsList
<1>5. CASE Front
  <2>1. answer' \in Item \cup {Nothing}
    BY <1>5, EndsOfList DEF Front, ListOK, ListTypes
  <2> QED
    BY <1>5, <2>1 DEF Front, ListOK, ListTypes
<1>6. CASE Underflow
  BY <1>6 DEF Underflow, ListOK, ListTypes
<1>7. CASE Destroy
  BY <1>7 DEF Destroy, ListOK, ListTypes
<1>8. CASE DestroyTurn
  <2>1. CASE IsEmpty
    <3>1. /\ destroying' = FALSE
          /\ UNCHANGED <<front, back, N, heap, allocated, answer, exited, chain>>
      BY <1>8, <2>1 DEF DestroyTurn
    <3>2. ListTypes'
      BY <3>1 DEF ListOK, ListTypes
    <3> QED
      BY <3>1, <3>2 DEF ListOK
  <2>2. CASE ~IsEmpty
    <3>1. front # Null /\ TakeFront /\ UNCHANGED <<destroying, answer>>
      BY <1>8, <2>2 DEF DestroyTurn
    <3>2. destroying' \in BOOLEAN /\ answer' \in Item \cup {Nothing}
      BY <3>1 DEF ListOK, ListTypes
    <3> QED
      BY <3>1, <3>2, TakeFrontKeepsList
  <2> QED
    BY <2>1, <2>2
<1>9. CASE UNCHANGED listVars
  BY <1>9 DEF listVars, ListOK, ListTypes
<1> QED
  BY <1>1, <1>2, <1>3, <1>4, <1>5, <1>6, <1>7, <1>8, <1>9 DEF ListNext

\* steque.h:4-15: the list is whole after any calls of steque_enqueue, steque_push, steque_pop,
\* steque_cycle, steque_front and steque_destroy, whatever malloc returns.
THEOREM StequeIsList == ListSpec => []ListOK
<1>1. ListInit => ListOK
  BY InitIsList
<1>2. ListOK /\ [ListNext]_listVars => ListOK'
  BY StepKeepsList
<1> QED
  BY <1>1, <1>2, PTL DEF ListSpec

-----------------------------------------------------------------------------
\* Equal elements make equal sequences of items.
LEMMA SameItems ==
  ASSUME NEW s \in Seq(Item), NEW t \in Seq(Item),
         Len(s) = Len(t), \A i \in 1..Len(s) : s[i] = t[i]
  PROVE  s = t
BY SeqEqual

\* Every step of the list is a step of the sequence, or changes nothing of it.
LEMMA ListStepRefines ==
  ASSUME ListOK, ListOK', [ListNext]_listVars
  PROVE  [Abstract!SpecNext]_(Abstract!specVars)
<1> DEFINE L == Len(chain)
<1>0. /\ L \in Nat
      /\ Contents \in Seq(Item) /\ Len(Contents) = L
      /\ \A i \in 1..L : Contents[i] = heap[chain[i]].item
      /\ front = Null <=> L = 0
      /\ L > 0 => front = chain[1]
      /\ \A i \in 1..L : chain[i] \in Node
  BY ContentsAreItems, EndsOfList
<1>1. /\ Len(chain') \in Nat
      /\ Contents' \in Seq(Item) /\ Len(Contents') = Len(chain')
      /\ \A i \in 1..Len(chain') : Contents'[i] = heap'[chain'[i]].item
  <2>1. Len(chain') \in Nat
    BY LenProperties DEF ListOK, ListTypes
  <2>2. Contents' \in [1..Len(chain') -> Item]
    BY DEF Contents, ListOK
  <2> QED
    BY <2>1, <2>2 DEF Contents
<1>2. ASSUME NEW item \in Item, Enqueue(item) PROVE Abstract!SpecEnqueue(item)
  <2>1. /\ ~destroying /\ ~exited /\ UNCHANGED <<answer, destroying, exited>>
    BY <1>2 DEF Enqueue, Called
  <2>2. /\ Len(chain') = L + 1
        /\ \A i \in 1..L : heap'[chain'[i]].item = heap[chain[i]].item
        /\ heap'[chain'[L + 1]].item = item
    BY <1>2, EnqueueKeepsList
  <2>3. /\ Append(Contents, item) \in Seq(Item) /\ Len(Append(Contents, item)) = L + 1
        /\ \A i \in 1..L : Append(Contents, item)[i] = Contents[i]
        /\ Append(Contents, item)[L + 1] = item
    BY <1>0, AppendProperties
  <2>4. \A i \in 1..L + 1 : Contents'[i] = Append(Contents, item)[i]
    BY <1>0, <1>1, <2>2, <2>3
  <2>5. Contents' = Append(Contents, item)
    BY <1>1, <2>2, <2>3, <2>4, SameItems
  <2> QED
    BY <2>1, <2>5 DEF Abstract!SpecEnqueue, Abstract!SpecCalled
<1>3. ASSUME NEW item \in Item, Push(item) PROVE Abstract!SpecPush(item)
  <2>1. /\ ~destroying /\ ~exited /\ UNCHANGED <<answer, destroying, exited>>
    BY <1>3 DEF Push, Called
  <2>2. /\ Len(chain') = L + 1
        /\ \A i \in 1..L : heap'[chain'[i + 1]].item = heap[chain[i]].item
        /\ heap'[chain'[1]].item = item
    BY <1>3, PushKeepsList
  <2>3. /\ <<item>> \in Seq(Item) /\ Len(<<item>>) = 1 /\ <<item>>[1] = item
    OBVIOUS
  <2>4. /\ <<item>> \o Contents \in Seq(Item) /\ Len(<<item>> \o Contents) = L + 1
        /\ (<<item>> \o Contents)[1] = item
        /\ \A i \in 2..L + 1 : (<<item>> \o Contents)[i] = Contents[i - 1]
    BY <1>0, <2>3, ConcatProperties
  <2>5. ASSUME NEW i \in 2..L + 1 PROVE Contents'[i] = Contents[i - 1]
    <3>1. i - 1 \in 1..L /\ (i - 1) + 1 = i /\ i \in 1..L + 1
      BY <1>0
    <3> QED
      BY <1>0, <1>1, <2>2, <3>1
  <2>6. \A i \in 1..L + 1 : Contents'[i] = (<<item>> \o Contents)[i]
    BY <1>0, <1>1, <2>2, <2>4, <2>5
  <2>7. Contents' = <<item>> \o Contents
    BY <1>1, <2>2, <2>4, <2>6, SameItems
  <2> QED
    BY <2>1, <2>7 DEF Abstract!SpecPush, Abstract!SpecCalled
\* The first node leaves the list.
<1>4. ASSUME front # Null, TakeFront, ListOK,
             destroying' \in BOOLEAN, answer' \in Item \cup {Nothing}
      PROVE  /\ Contents # <<>> /\ Contents' = Tail(Contents)
             /\ Head(Contents) = heap[front].item
  <2>1. /\ L > 0 /\ Len(chain') = L - 1 /\ \A i \in 1..L - 1 : chain'[i] = chain[i + 1]
        /\ UNCHANGED heap
    BY <1>4, TakeFrontKeepsList DEF TakeFront
  <2>2. Contents # <<>>
    BY <1>0, <2>1, EmptySeq
  <2>3. /\ Tail(Contents) \in Seq(Item) /\ Len(Tail(Contents)) = L - 1
        /\ \A i \in 1..L - 1 : Tail(Contents)[i] = Contents[i + 1]
    BY <1>0, <2>2, HeadTailProperties
  <2>4. ASSUME NEW i \in 1..L - 1 PROVE Contents'[i] = Tail(Contents)[i]
    <3>1. i + 1 \in 1..L
      BY <1>0
    <3> QED
      BY <1>0, <1>1, <2>1, <2>3, <3>1
  <2>5. Contents' = Tail(Contents)
    BY <1>1, <2>1, <2>3, <2>4, SameItems
  <2>6. Head(Contents) = heap[front].item
    BY <1>0, <2>1
  <2> QED
    BY <2>2, <2>5, <2>6
<1>5. CASE Pop
  <2>1. /\ ~destroying /\ ~exited /\ UNCHANGED destroying /\ front # Null /\ TakeFront
        /\ answer' = heap[front].item
    BY <1>5, <1>0 DEF Pop, Called
  <2>2. answer' \in Item \cup {Nothing} /\ destroying' \in BOOLEAN
    BY <2>1, <1>0 DEF ListOK, ListTypes
  <2>3. UNCHANGED exited
    BY <2>1 DEF TakeFront
  <2>4. Abstract!SpecPop
    BY <1>4, <2>1, <2>2, <2>3 DEF Abstract!SpecPop, Abstract!SpecCalled
  <2> QED
    BY <2>4 DEF Abstract!SpecNext
<1>6. CASE Cycle
  <2>1. ~destroying /\ ~exited /\ UNCHANGED <<answer, destroying, exited>>
    BY <1>6 DEF Cycle, Called
  <2>2. /\ L > 0 /\ Len(chain') = L
        /\ \A i \in 1..L - 1 : chain'[i] = chain[i + 1]
        /\ chain'[L] = chain[1]
        /\ \A n \in Node : heap'[n].item = heap[n].item
    BY <1>6, CycleKeepsList
  <2>3. Contents # <<>>
    BY <1>0, <2>2, EmptySeq
  <2>4. /\ Tail(Contents) \in Seq(Item) /\ Len(Tail(Contents)) = L - 1
        /\ Head(Contents) \in Item /\ Head(Contents) = Contents[1]
        /\ \A i \in 1..L - 1 : Tail(Contents)[i] = Contents[i + 1]
    BY <1>0, <2>3, HeadTailProperties
  <2> DEFINE turned == Append(Tail(Contents), Head(Contents))
  <2>5. /\ turned \in Seq(Item) /\ Len(turned) = L
        /\ \A i \in 1..L - 1 : turned[i] = Contents[i + 1]
        /\ turned[L] = Contents[1]
    BY <1>0, <2>4, AppendProperties
  <2>6. ASSUME NEW i \in 1..L PROVE Contents'[i] = turned[i]
    <3>1. CASE i = L
      BY <1>0, <1>1, <2>2, <2>5, <3>1
    <3>2. CASE i \in 1..L - 1
      <4>1. i + 1 \in 1..L /\ i \in 1..Len(chain')
        BY <1>0, <2>2, <3>2
      <4> QED
        BY <1>0, <1>1, <2>2, <2>5, <3>2, <4>1
    <3> QED
      BY <1>0, <3>1, <3>2
  <2>7. Contents' = turned
    <3> HIDE DEF turned
    <3> QED
      BY <1>1, <2>2, <2>5, <2>6, SameItems
  <2>8. Abstract!SpecCycle
    BY <2>1, <2>3, <2>7 DEF Abstract!SpecCycle, Abstract!SpecCalled
  <2> QED
    BY <2>8 DEF Abstract!SpecNext
<1>7. CASE Front
  <2>1. /\ ~destroying /\ ~exited /\ front # Null /\ answer' = heap[front].item
        /\ UNCHANGED <<heap, destroying, exited, chain>>
    BY <1>7 DEF Front, Called
  <2>2. L > 0 /\ Contents # <<>> /\ Head(Contents) = heap[front].item
    BY <1>0, <2>1, EmptySeq
  <2>3. Contents' = Contents
    BY <2>1 DEF Contents
  <2>4. Abstract!SpecFront
    BY <2>1, <2>2, <2>3 DEF Abstract!SpecFront, Abstract!SpecCalled
  <2> QED
    BY <2>4 DEF Abstract!SpecNext
<1>8. CASE Underflow
  <2>1. /\ front = Null /\ ~exited /\ exited' = TRUE
        /\ UNCHANGED <<answer, destroying, heap, chain>>
    BY <1>8 DEF Underflow
  <2>2. Contents = <<>>
    BY <1>0, <2>1, EmptySeq
  <2>3. Contents' = Contents
    BY <2>1 DEF Contents
  \* The loop of steque_destroy has ended before it finds no node.
  <2>4. ~destroying
    <3>1. N = 0
      BY <1>0, <2>1 DEF ListOK
    <3> QED
      BY <1>8, <3>1 DEF Underflow, IsEmpty
  <2>5. Abstract!SpecUnderflow
    BY <2>1, <2>2, <2>3, <2>4 DEF Abstract!SpecUnderflow, Abstract!SpecCalled
  <2> QED
    BY <2>5 DEF Abstract!SpecNext
<1>9. CASE Destroy
  <2>1. ~destroying /\ ~exited /\ destroying' = TRUE /\ UNCHANGED <<answer, exited>>
    BY <1>9 DEF Destroy, Called
  <2>2. Abstract!SpecDestroy
    BY <2>1 DEF Abstract!SpecDestroy, Abstract!SpecCalled
  <2> QED
    BY <2>2 DEF Abstract!SpecNext
<1>10. CASE DestroyTurn
  <2>1. UNCHANGED answer /\ destroying /\ ~exited
    BY <1>10 DEF DestroyTurn
  <2>2. CASE IsEmpty
    <3>1. destroying' = FALSE /\ UNCHANGED <<heap, chain, exited>>
      BY <1>10, <2>2 DEF DestroyTurn
    <3>2. Contents' = <<>>
      <4>1. L = 0
        BY <2>2 DEF IsEmpty, ListOK
      <4> QED
        BY <1>1, <3>1, <4>1, EmptySeq
    <3>3. Abstract!SpecDestroyed
      BY <2>1, <3>1, <3>2 DEF Abstract!SpecDestroyed
    <3> QED
      BY <3>3 DEF Abstract!SpecNext
  <2>3. CASE ~IsEmpty
    <3>1. destroying' /\ UNCHANGED <<destroying, exited>>
      BY <1>10, <2>1, <2>3 DEF DestroyTurn, TakeFront
    <3> QED
      BY <2>1, <3>1 DEF Abstract!specVars
  <2> QED
    BY <2>2, <2>3
<1>11. CASE UNCHANGED listVars
  BY <1>11 DEF listVars, Contents, Abstract!specVars
<1> QED
  BY <1>2, <1>3, <1>5, <1>6, <1>7, <1>8, <1>9, <1>10, <1>11 DEF ListNext, Abstract!SpecNext

\* The linked list implements the sequence of steque.h, for every order of calls: each of them
\* adds, takes, returns or turns round the items of the sequence, only a pop or a front of an
\* empty list ends the process, and steque_destroy leaves no item and never underflows.
THEOREM StequeRefines == ListSpec => ImplementsSteque
<1>1. ListInit => Abstract!SpecInit
  <2> SUFFICES ASSUME ListInit PROVE Abstract!SpecInit
    OBVIOUS
  <2>1. Contents = <<>>
    BY EmptySeq DEF ListInit, Contents
  <2> QED
    BY <2>1 DEF ListInit, Abstract!SpecInit
<1>2. ListOK /\ ListOK' /\ [ListNext]_listVars => [Abstract!SpecNext]_(Abstract!specVars)
  BY ListStepRefines
<1> QED
  BY <1>1, <1>2, StequeIsList, PTL DEF ListSpec, ImplementsSteque, Abstract!StequeSpec
=============================================================================
