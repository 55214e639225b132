--------------------------------- MODULE Steque --------------------------------
(***************************************************************************)
(* The steque of mtgf/steque.c, which the worker pool's queue is made of:  *)
(* a linked list of nodes in the heap.  Its callers hold a lock, so that a *)
(* call is one step, in which the assignments are made in their order.     *)
(***************************************************************************)
EXTENDS Integers, Sequences

CONSTANTS
  Item, Nothing,
  Node,  \* bound: the addresses malloc may return
  Null

ASSUME StequeAssumption == Nothing \notin Item /\ Null \notin Node

VARIABLES
  front, back, N,  \* the steque_t
  heap,            \* heap[n]: the node at n
  allocated,       \* the addresses malloc has returned and free has not got
  destroying,      \* steque_destroy is in its loop
  answer,          \* what the last steque_pop or steque_front returned
  exited,          \* an underflow has ended the process
  chain            \* history, not in the code: the nodes from front to back

listVars == <<front, back, N, heap, allocated, destroying, answer, exited, chain>>

ListTypes ==
  /\ front \in Node \cup {Null} /\ back \in Node \cup {Null}
  /\ N \in Nat
  /\ heap \in [Node -> [item : Item \cup {Nothing}, next : Node \cup {Null}]]
  /\ allocated \in SUBSET Node
  /\ destroying \in BOOLEAN /\ exited \in BOOLEAN
  /\ answer \in Item \cup {Nothing}
  /\ chain \in Seq(Node)

\* steque_init.
ListInit ==
  /\ front = Null /\ back = Null /\ N = 0
  /\ heap = [n \in Node |-> [item |-> Nothing, next |-> Null]]
  /\ allocated = {}
  /\ destroying = FALSE /\ exited = FALSE
  /\ answer = Nothing
  /\ chain = <<>>

Called == ~destroying /\ ~exited

\* Variant: back moves to the new node before the old last node is linked to it.
EnqueueLate(item) ==
  /\ Called
  /\ \E node \in Node \ allocated :
       /\ allocated' = allocated \cup {node}
       /\ IF back = Null
            THEN /\ front' = node
                 /\ heap' = [heap EXCEPT ![node] = [item |-> item, next |-> Null]]
            ELSE /\ heap' = [heap EXCEPT ![node] = [item |-> item, next |-> node]]
                 /\ UNCHANGED front
       /\ back' = node
       /\ chain' = Append(chain, node)
  /\ N' = N + 1
  /\ UNCHANGED <<destroying, answer, exited>>

\* steque_enqueue.
Enqueue(item) ==
  /\ Called
  /\ \E node \in Node \ allocated :
       /\ allocated' = allocated \cup {node}
       /\ IF back = Null
            THEN /\ front' = node
                 /\ heap' = [heap EXCEPT ![node] = [item |-> item, next |-> Null]]
            ELSE /\ heap' = [heap EXCEPT ![node] = [item |-> item, next |-> Null],
                                         ![back].next = node]
                 /\ UNCHANGED front
       /\ back' = node
       /\ chain' = Append(chain, node)
  /\ N' = N + 1
  /\ UNCHANGED <<destroying, answer, exited>>

\* steque_push.
Push(item) ==
  /\ Called
  /\ \E node \in Node \ allocated :
       /\ allocated' = allocated \cup {node}
       /\ heap' = [heap EXCEPT ![node] = [item |-> item, next |-> front]]
       /\ back' = IF back = Null THEN node ELSE back
       /\ front' = node
       /\ chain' = <<node>> \o chain
  /\ N' = N + 1
  /\ UNCHANGED <<destroying, answer, exited>>

\* Variant: the loop of steque_destroy pops once too often.
IsEmptyLate == N < 0

\* steque_isempty.
IsEmpty == N = 0

\* The first node is taken out and freed.
TakeFront ==
  /\ front' = heap[front].next
  /\ back' = IF heap[front].next = Null THEN Null ELSE back
  /\ allocated' = allocated \ {front}
  /\ N' = N - 1
  /\ chain' = Tail(chain)
  /\ UNCHANGED <<heap, exited>>

\* steque_pop.
Pop ==
  /\ Called
  /\ front # Null
  /\ answer' = heap[front].item
  /\ TakeFront
  /\ UNCHANGED destroying

\* Variant: the last node is linked to the first one after that has moved on.
CycleEarly ==
  /\ Called
  /\ back # Null /\ front # Null
  /\ back' = front
  /\ front' = heap[front].next
  /\ heap' = [heap EXCEPT ![back].next = heap[front].next, ![front].next = Null]
  /\ chain' = Append(Tail(chain), Head(chain))
  /\ UNCHANGED <<N, allocated, destroying, answer, exited>>

\* steque_cycle: four assignments, of which the third reads what the first may
\* have written, when the first node is the last one too.
Cycle ==
  LET linked == [heap EXCEPT ![back].next = front] IN
  /\ Called
  /\ back # Null /\ front # Null
  /\ back' = front
  /\ front' = linked[front].next
  /\ heap' = [linked EXCEPT ![front].next = Null]
  /\ chain' = Append(Tail(chain), Head(chain))
  /\ UNCHANGED <<N, allocated, destroying, answer, exited>>

\* steque_front.
Front ==
  /\ Called
  /\ front # Null
  /\ answer' = heap[front].item
  /\ UNCHANGED <<front, back, N, heap, allocated, destroying, exited, chain>>

\* steque_pop or steque_front of an empty steque, a steque_pop in the loop of
\* steque_destroy that finds nothing, or steque_cycle following a front of NULL.
Underflow ==
  /\ ~exited
  /\ front = Null /\ (destroying => ~IsEmpty)
  /\ exited' = TRUE
  /\ UNCHANGED <<front, back, N, heap, allocated, destroying, answer, chain>>

\* steque_destroy is called.
Destroy ==
  /\ Called
  /\ destroying' = TRUE
  /\ UNCHANGED <<front, back, N, heap, allocated, answer, exited, chain>>

\* Its loop: a steque_pop, whose item is dropped, until steque_isempty.
DestroyTurn ==
  /\ destroying /\ ~exited
  /\ \/ /\ IsEmpty
        /\ destroying' = FALSE
        /\ UNCHANGED <<front, back, N, heap, allocated, exited, chain>>
     \/ /\ ~IsEmpty /\ front # Null
        /\ TakeFront
        /\ UNCHANGED destroying
  /\ UNCHANGED answer

ListNext ==
  \/ \E item \in Item : Enqueue(item) \/ Push(item)
  \/ Pop \/ Cycle \/ Front \/ Underflow \/ Destroy \/ DestroyTurn

ListSpec == ListInit /\ [][ListNext]_listVars

-----------------------------------------------------------------------------
(* Properties.                                                             *)

\* steque.h:4-15: the list holds together through every order of calls: front and
\* back are its ends, each node leads to the next, N counts them, no node is freed
\* while it is in the list, and every node that is not in it has been freed.
ListOK ==
  /\ ListTypes
  /\ N = Len(chain)
  /\ front = IF chain = <<>> THEN Null ELSE chain[1]
  /\ back = IF chain = <<>> THEN Null ELSE chain[Len(chain)]
  /\ \A i \in 1..Len(chain) :
       /\ chain[i] \in allocated
       /\ heap[chain[i]].item \in Item
       /\ heap[chain[i]].next = IF i = Len(chain) THEN Null ELSE chain[i + 1]
  /\ \A i, j \in 1..Len(chain) : chain[i] = chain[j] => i = j
  /\ \A n \in allocated : \E i \in 1..Len(chain) : chain[i] = n

Contents == [i \in 1..Len(chain) |-> heap[chain[i]].item]

Abstract == INSTANCE StequeSpec WITH items <- IF destroying THEN <<>> ELSE Contents

\* The list implements the sequence of steque.h, through every order of calls: what
\* a call takes or adds is the item at that end, the process ends only when the
\* caller pops from an empty list or asks for its front, and steque_destroy pops
\* each item once: it never underflows, and leaves an empty list.
ImplementsSteque == Abstract!StequeSpec
================================================================================
