------------------------------- MODULE MC_Getfile ------------------------------
(***************************************************************************)
(* Small instances of GetfileLoop.                                         *)
(***************************************************************************)
EXTENDS GetfileLoop, TLC

CONSTANTS c1, c2

\* Three files, one of them empty.
MCItems == <<2, 4, 6>>

MCSize == 2 :> 3 @@ 4 :> 0 @@ 6 :> 1

\* A file, a path before the first of the content map and a malformed one; the
\* empty file next to the last of the map, which is asked for twice; a path behind
\* the last and one between two.
MCWorkloads == {c1 :> <<2, 1>> @@ c2 :> <<0>>, c1 :> <<6>> @@ c2 :> <<4>>,
                c1 :> <<7, 3>> @@ c2 :> <<0>>}

MCRequests == c1 :> 2 @@ c2 :> 1
================================================================================
