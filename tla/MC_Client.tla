------------------------------ MODULE MC_Client ------------------------------
(***************************************************************************)
(* A small instance of GetfileClient.                                       *)
(***************************************************************************)
EXTENDS GetfileClient, TLC

CONSTANTS t1, t2, home

\* Two local paths in the one directory.
OneDirectory == t1 :> home @@ t2 :> home

Reply(status, size, body) == [status |-> status, size |-> size, body |-> body]

\* A whole file, one cut short, one that is too long, an empty one, one whose
\* body is nothing but excess, a refusal and no answer of the protocol.
AnyServer ==
  { Reply("ok", 3, 3), Reply("ok", 3, 1), Reply("ok", 1, 3), Reply("ok", 0, 0),
    Reply("ok", 0, 2), Reply("notfound", 0, 0), Reply("garbage", 0, 0) }
=============================================================================
