------------------------------- MODULE MC_Pool -------------------------------
(***************************************************************************)
(* A small instance of WorkerPool.                                         *)
(***************************************************************************)
EXTENDS WorkerPool

CONSTANTS a, b

\* No task, one, two at once, and the pills of wp_finish.
MCBatches == {<<>>, <<a>>, <<b>>, <<b, a>>, Pills}
=============================================================================
