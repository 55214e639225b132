---------------------------------- MODULE Tcp ----------------------------------
(***************************************************************************)
(* A connection as the programs see it through the calls of the socket     *)
(* library: what a call returns and what it does to the connection.  None  *)
(* of this is code of the repository.                                      *)
(*                                                                         *)
(* A stream is a record: state[s] is what end s has done with its socket,  *)
(* toward[s] is what was sent to end s and not yet received there, in      *)
(* units, and reset says that the connection was torn down.                *)
(***************************************************************************)
LOCAL INSTANCE Integers
LOCAL INSTANCE Sequences

Sides == {"client", "server"}

Peer(s) == IF s = "client" THEN "server" ELSE "client"

\* A connection nobody has asked for yet.
NoStream == [state  |-> [s \in Sides |-> "none"],
             toward |-> [s \in Sides |-> <<>>],
             reset  |-> FALSE]

\* connect: the client's call returns while the server's end is in the backlog.
Connected == [NoStream EXCEPT !.state = [client |-> "open", server |-> "pending"]]

IsPending(k) == k.state["server"] = "pending"

\* accept, also of a connection that its client has closed or reset meanwhile.
Accepted(k) == [k EXCEPT !.state["server"] = "open"]

\* The outcomes of recv by end s: what has come, up to max units; 0 when the
\* peer will send no more; -1 when the connection was reset, even if something
\* had come before.  Without any of these the call waits: there is no outcome.
Receives(k, s, max) ==
  LET in == k.toward[s]
      n == IF max < Len(in) THEN max ELSE Len(in)
      over == k.state[Peer(s)] \in {"shut", "closed"}
  IN  {r \in {[ret |-> n, data |-> SubSeq(in, 1, n),
               stream |-> [k EXCEPT !.toward[s] = SubSeq(in, n + 1, Len(in))]]} : n > 0}
        \cup {r \in {[ret |-> 0, data |-> <<>>, stream |-> k]} : in = <<>> /\ over /\ ~k.reset}
        \cup {r \in {[ret |-> -1, data |-> <<>>, stream |-> k]} : k.reset}

\* The outcomes of send by end s: some units are taken, at least one; a closed
\* peer answers them with a reset, now or later; after a reset the call fails.
Sends(k, s, data) ==
  IF k.reset THEN {[ret |-> -1, stream |-> k]}
  ELSE IF k.state[Peer(s)] = "closed"
    THEN {[ret |-> Len(data), stream |-> [k EXCEPT !.reset = b]] : b \in BOOLEAN}
  ELSE {[ret |-> n, stream |-> [k EXCEPT !.toward[Peer(s)] = @ \o SubSeq(data, 1, n)]] :
          n \in 1..Len(data)}

\* shutdown with SHUT_WR.
ShutDown(k, s) == [k EXCEPT !.state[s] = "shut"]

\* close, by the program or by the kernel at the end of the process.  What end
\* s has not received is lost, and the peer is told so by a reset.
Closed(k, s) == [k EXCEPT !.state[s] = "closed",
                          !.reset = @ \/ k.toward[s] # <<>>,
                          !.toward[s] = <<>>]

\* The ways a connection can end that one side leaves for good: by a close, or
\* by a reset, which the program or the network between the two may choose.
Departures(k, s) == {Closed(k, s), [Closed(k, s) EXCEPT !.reset = TRUE]}

\* The listening socket is closed: connections in its backlog are reset.
Unlistened(k) ==
  IF IsPending(k) THEN [Closed(k, "server") EXCEPT !.reset = TRUE] ELSE k

\* The server's process ends: every socket of it is closed.
Abandoned(k) ==
  IF k.state["server"] \in {"open", "shut"} THEN Closed(k, "server") ELSE Unlistened(k)
================================================================================
