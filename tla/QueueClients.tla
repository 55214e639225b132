---------------------------- MODULE QueueClients ----------------------------
(***************************************************************************)
(* Threads that use one queue in every order its contract allows, for at   *)
(* most MaxCalls calls in all.                                             *)
(***************************************************************************)
EXTENDS ConcQueue

CONSTANT MaxCalls    \* bound: calls the threads may begin

ASSUME ClientsAssumption == MaxCalls \in Nat

VARIABLE calls    \* the calls begun so far

vars == <<queueVars, calls>>

Init == QueueInit /\ calls = 0

BeginCall(t) ==
  /\ calls < MaxCalls
  /\ calls' = calls + 1
  /\ Call(t)

Next ==
  \E t \in Threads :
    \/ BeginCall(t)
    \/ QueueStep(t) /\ UNCHANGED calls
    \/ SpuriousWakeup(t) /\ UNCHANGED calls

Spec == Init /\ [][Next]_vars

\* The scheduler runs every thread that can run, and threads do not wake up for
\* nothing forever.  A thread need not begin a call.
FairSpec ==
  /\ Spec
  /\ \A t \in Threads : WF_vars(QueueStep(t) /\ UNCHANGED calls)
  /\ <>[][~ \E t \in Threads : SpuriousWakeup(t)]_vars

\* Once the clients begin no more calls, every call returns, but for dequeues
\* asleep on an empty queue: no thread is left waiting for the mutex, and no
\* item is left in the queue next to a thread asleep in queue_dequeue.
EventuallyServed ==
  <>[](\A t \in Threads :
         pc[t] \in {"idle", "freed"} \/ (pc[t] = "deq_asleep" /\ base = <<>>))
=============================================================================
