-------------------------------- MODULE MC_Echo --------------------------------
(***************************************************************************)
(* Small instances of Echo.                                                *)
(***************************************************************************)
EXTENDS Echo, TLC

CONSTANTS c1, c2, c3

\* A message longer than the server's buffer, one that fills it, one shorter.
Messages == c1 :> 3 @@ c2 :> 2 @@ c3 :> 1

ShortMessages == c1 :> 1 @@ c2 :> 1
================================================================================
