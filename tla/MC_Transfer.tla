------------------------------ MODULE MC_Transfer ------------------------------
(***************************************************************************)
(* Small instances of Transfer.                                            *)
(***************************************************************************)
EXTENDS Transfer

CONSTANTS c1, c2
================================================================================
