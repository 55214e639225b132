------------------------------ MODULE FifoQueue ------------------------------
(***************************************************************************)
(* What mtgf/gf-student.h promises of the queue: a call of one thread is   *)
(* begun, takes effect at one instant between its call and its return, and *)
(* returns.  A batch is inserted as a whole (gf-student.h:23), a dequeue   *)
(* blocks while the queue is empty and returns the item inserted earliest  *)
(* (gf-student.h:29).  There is no mutex and no condition variable here.   *)
(***************************************************************************)
EXTENDS Sequences

CONSTANTS Threads, Items, NoItem

VARIABLES
  fifo,     \* the items in the queue, the earliest first
  phase,    \* phase[t]: which call thread t is in, "done" once it took effect
  arg,      \* arg[t]: the batch of the enqueue t is in
  res       \* res[t]: what the last dequeue or queue_empty of t found

fvars == <<fifo, phase, arg, res>>

FInit ==
  /\ fifo = <<>>
  /\ phase = [t \in Threads |-> "idle"]
  /\ arg = [t \in Threads |-> <<>>]
  /\ res = [t \in Threads |-> NoItem]

-----------------------------------------------------------------------------
BeginEnqueue(t) ==
  /\ phase[t] = "idle"
  /\ phase' = [phase EXCEPT ![t] = "enqueue"]
  /\ arg'[t] \in Seq(Items) \ {<<>>}
  /\ arg' = [arg EXCEPT ![t] = arg'[t]]
  /\ UNCHANGED <<fifo, res>>

BeginRead(t, kind) ==
  /\ phase[t] = "idle"
  /\ phase' = [phase EXCEPT ![t] = kind]
  /\ UNCHANGED <<fifo, arg, res>>

TakeEnqueue(t) ==
  /\ phase[t] = "enqueue"
  /\ fifo' = fifo \o arg[t]
  /\ phase' = [phase EXCEPT ![t] = "done"]
  /\ UNCHANGED <<arg, res>>

TakeDequeue(t) ==
  /\ phase[t] = "dequeue"
  /\ fifo # <<>>
  /\ res' = [res EXCEPT ![t] = Head(fifo)]
  /\ fifo' = Tail(fifo)
  /\ phase' = [phase EXCEPT ![t] = "done"]
  /\ UNCHANGED arg

TakeEmpty(t) ==
  /\ phase[t] = "empty"
  /\ res' = [res EXCEPT ![t] = IF fifo = <<>> THEN "empty" ELSE "nonempty"]
  /\ phase' = [phase EXCEPT ![t] = "done"]
  /\ UNCHANGED <<fifo, arg>>

\* Whatever is left in the queue is lost with it, and no call follows.
TakeDestroy(t) ==
  /\ phase[t] = "destroy"
  /\ fifo' = <<>>
  /\ phase' = [phase EXCEPT ![t] = "destroyed"]
  /\ UNCHANGED <<arg, res>>

Return(t) ==
  /\ phase[t] = "done"
  /\ phase' = [phase EXCEPT ![t] = "idle"]
  /\ UNCHANGED <<fifo, arg, res>>

FNext ==
  \E t \in Threads :
    \/ BeginEnqueue(t)
    \/ \E kind \in {"dequeue", "empty", "destroy"} : BeginRead(t, kind)
    \/ TakeEnqueue(t) \/ TakeDequeue(t) \/ TakeEmpty(t) \/ TakeDestroy(t)
    \/ Return(t)

FSpec == FInit /\ [][FNext]_fvars
=============================================================================
