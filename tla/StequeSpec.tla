------------------------------- MODULE StequeSpec ------------------------------
(***************************************************************************)
(* What steque.h promises of a steque: a sequence that items are added to  *)
(* at both ends and taken from the front of.                               *)
(***************************************************************************)
EXTENDS Sequences

CONSTANTS Item, Nothing

VARIABLES
  items,      \* the items, from the front to the back
  answer,     \* what the last call returned
  destroying, \* steque_destroy has been called and has not returned
  exited      \* an underflow has ended the process

specVars == <<items, answer, destroying, exited>>

SpecInit == items = <<>> /\ answer = Nothing /\ destroying = FALSE /\ exited = FALSE

\* The caller may call the next operation.
SpecCalled == ~destroying /\ ~exited

SpecEnqueue(item) ==
  SpecCalled /\ items' = Append(items, item) /\ UNCHANGED <<answer, destroying, exited>>

SpecPush(item) ==
  SpecCalled /\ items' = <<item>> \o items /\ UNCHANGED <<answer, destroying, exited>>

SpecPop ==
  /\ SpecCalled /\ items # <<>>
  /\ items' = Tail(items) /\ answer' = Head(items)
  /\ UNCHANGED <<destroying, exited>>

SpecFront ==
  /\ SpecCalled /\ items # <<>>
  /\ answer' = Head(items)
  /\ UNCHANGED <<items, destroying, exited>>

SpecCycle ==
  /\ SpecCalled /\ items # <<>>
  /\ items' = Append(Tail(items), Head(items))
  /\ UNCHANGED <<answer, destroying, exited>>

\* steque_destroy drops the items, and returns: it is no reason to exit.
SpecDestroy ==
  SpecCalled /\ items' = <<>> /\ destroying' = TRUE /\ UNCHANGED <<answer, exited>>

SpecDestroyed ==
  destroying /\ ~exited /\ destroying' = FALSE /\ UNCHANGED <<items, answer, exited>>

\* The caller pops from an empty steque or asks for its front.
SpecUnderflow ==
  SpecCalled /\ items = <<>> /\ exited' = TRUE /\ UNCHANGED <<items, answer, destroying>>

SpecNext ==
  \/ \E item \in Item : SpecEnqueue(item) \/ SpecPush(item)
  \/ SpecPop \/ SpecFront \/ SpecCycle \/ SpecDestroy \/ SpecDestroyed \/ SpecUnderflow

StequeSpec == SpecInit /\ [][SpecNext]_specVars
================================================================================
