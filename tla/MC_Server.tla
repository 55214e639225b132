------------------------------ MODULE MC_Server ------------------------------
(***************************************************************************)
(* Small instances of GetfileServer.                                       *)
(***************************************************************************)
EXTENDS GetfileServer, TLC

CONSTANTS c1, c2, c3, p, q

\* Two files, one of a length that takes several buffers, and an unknown path.
TwoFiles == c1 :> p @@ c2 :> q @@ c3 :> Missing

\* The same file for two clients at a time, and a request that is refused.
SameFile == c1 :> p @@ c2 :> p @@ c3 :> Malformed

OneFile == c1 :> p

Sizes == p :> 3 @@ q :> 1

Short == p :> 2
=============================================================================
