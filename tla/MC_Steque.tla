------------------------------- MODULE MC_Steque -------------------------------
(***************************************************************************)
(* A small instance of Steque.                                             *)
(***************************************************************************)
EXTENDS Steque

CONSTANTS a, b, n1, n2, n3, n4
================================================================================
