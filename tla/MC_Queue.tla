------------------------------ MODULE MC_Queue ------------------------------
(***************************************************************************)
(* A small instance of QueueClients.                                       *)
(***************************************************************************)
EXTENDS QueueClients

CONSTANTS t1, t2, t3, a, b

\* The empty batch, a single item (a signal) and two items (a broadcast).
MCBatches == {<<>>, <<a>>, <<b, a>>}
=============================================================================
