------------------------------- MODULE TcpProofs -------------------------------
(***************************************************************************)
(* What the calls of the socket library do to a connection, end by end and *)
(* field by field: the facts that the proofs about the programs cite, so   *)
(* that none of them has to look into the record of a stream.              *)
(***************************************************************************)
EXTENDS Tcp, Integers, Sequences, SequenceTheorems, TLAPS

EndStates == {"none", "pending", "open", "shut", "closed"}

\* The streams of units of U.
Streams(U) ==
  [state : [Sides -> EndStates], toward : [Sides -> Seq(U)], reset : BOOLEAN]

LEMMA PeerIsOther ==
  /\ Peer("client") = "server" /\ Peer("server") = "client"
  /\ \A s \in Sides : Peer(s) \in Sides /\ Peer(s) # s /\ (\A e \in Sides : e = s \/ e = Peer(s))
BY DEF Peer, Sides

\* Nothing has been sent on a connection that nobody has asked for.
LEMMA NoStreamFields ==
  ASSUME NEW U
  PROVE  /\ NoStream \in Streams(U)
         /\ NoStream.state = [s \in Sides |-> "none"]
         /\ NoStream.toward = [s \in Sides |-> <<>>]
         /\ NoStream.reset = FALSE
<1>1. [s \in Sides |-> "none"] \in [Sides -> EndStates]
  BY DEF EndStates
<1>2. [s \in Sides |-> <<>>] \in [Sides -> Seq(U)]
  BY EmptySeq
<1> QED
  BY <1>1, <1>2 DEF NoStream, Streams

LEMMA ConnectedFields ==
  ASSUME NEW U
  PROVE  /\ Connected \in Streams(U)
         /\ Connected.state["client"] = "open"
         /\ Connected.state["server"] = "pending"
         /\ Connected.toward = [s \in Sides |-> <<>>]
         /\ Connected.reset = FALSE
<1> DEFINE ends == [client |-> "open", server |-> "pending"]
<1>1. ends \in [Sides -> EndStates] /\ ends["client"] = "open" /\ ends["server"] = "pending"
  BY DEF EndStates, Sides
<1>2. Connected = [NoStream EXCEPT !.state = ends]
  BY DEF Connected
<1> HIDE DEF ends
<1> QED
  BY <1>1, <1>2, NoStreamFields DEF Streams

\* A call that sets what one end has done with its socket.
WithEnd(k, s, e) == [k EXCEPT !.state[s] = e]

LEMMA EndChanges ==
  ASSUME NEW U, NEW k \in Streams(U), NEW s \in Sides, NEW e \in EndStates
  PROVE  /\ WithEnd(k, s, e) \in Streams(U)
         /\ WithEnd(k, s, e).state[s] = e
         /\ WithEnd(k, s, e).state[Peer(s)] = k.state[Peer(s)]
         /\ WithEnd(k, s, e).toward = k.toward
         /\ WithEnd(k, s, e).reset = k.reset
<1> DEFINE ends == [k.state EXCEPT ![s] = e]
<1>1. k.state \in [Sides -> EndStates]
  BY DEF Streams
<1>2. ends \in [Sides -> EndStates] /\ ends[s] = e /\ ends[Peer(s)] = k.state[Peer(s)]
  BY <1>1, PeerIsOther
<1>3. WithEnd(k, s, e) = [k EXCEPT !.state = ends]
  BY DEF Streams, WithEnd
<1> HIDE DEF ends
<1> QED
  BY <1>2, <1>3 DEF Streams

\* A call that sets what is on its way to one end.
WithToward(k, s, q) == [k EXCEPT !.toward[s] = q]

LEMMA TowardChanges ==
  ASSUME NEW U, NEW k \in Streams(U), NEW s \in Sides, NEW q \in Seq(U)
  PROVE  /\ WithToward(k, s, q) \in Streams(U)
         /\ WithToward(k, s, q).toward[s] = q
         /\ WithToward(k, s, q).toward[Peer(s)] = k.toward[Peer(s)]
         /\ WithToward(k, s, q).state = k.state
         /\ WithToward(k, s, q).reset = k.reset
<1> DEFINE units == [k.toward EXCEPT ![s] = q]
<1>1. k.toward \in [Sides -> Seq(U)]
  BY DEF Streams
<1>2. units \in [Sides -> Seq(U)] /\ units[s] = q /\ units[Peer(s)] = k.toward[Peer(s)]
  BY <1>1, PeerIsOther
<1>3. WithToward(k, s, q) = [k EXCEPT !.toward = units]
  BY DEF Streams, WithToward
<1> HIDE DEF units
<1> QED
  BY <1>2, <1>3 DEF Streams

WithReset(k, b) == [k EXCEPT !.reset = b]

LEMMA ResetChanges ==
  ASSUME NEW U, NEW k \in Streams(U), NEW b \in BOOLEAN
  PROVE  /\ WithReset(k, b) \in Streams(U)
         /\ WithReset(k, b).state = k.state
         /\ WithReset(k, b).toward = k.toward
         /\ WithReset(k, b).reset = b
BY DEF Streams, WithReset

LEMMA AcceptedFields ==
  ASSUME NEW U, NEW k \in Streams(U)
  PROVE  /\ Accepted(k) \in Streams(U)
         /\ Accepted(k).state["server"] = "open"
         /\ Accepted(k).state["client"] = k.state["client"]
         /\ Accepted(k).toward = k.toward /\ Accepted(k).reset = k.reset
<1>1. "server" \in Sides /\ "open" \in EndStates
  BY DEF Sides, EndStates
<1>2. Accepted(k) = WithEnd(k, "server", "open")
  BY DEF Accepted, WithEnd
<1> QED
  BY <1>1, <1>2, EndChanges, PeerIsOther

LEMMA ShutDownFields ==
  ASSUME NEW U, NEW k \in Streams(U), NEW s \in Sides
  PROVE  /\ ShutDown(k, s) \in Streams(U)
         /\ ShutDown(k, s).state[s] = "shut"
         /\ ShutDown(k, s).state[Peer(s)] = k.state[Peer(s)]
         /\ ShutDown(k, s).toward = k.toward /\ ShutDown(k, s).reset = k.reset
<1>1. "shut" \in EndStates
  BY DEF EndStates
<1>2. ShutDown(k, s) = WithEnd(k, s, "shut")
  BY DEF ShutDown, WithEnd
<1> QED
  BY <1>1, <1>2, EndChanges

LEMMA ClosedFields ==
  ASSUME NEW U, NEW k \in Streams(U), NEW s \in Sides
  PROVE  /\ Closed(k, s) \in Streams(U)
         /\ Closed(k, s).state[s] = "closed"
         /\ Closed(k, s).state[Peer(s)] = k.state[Peer(s)]
         /\ Closed(k, s).toward[s] = <<>>
         /\ Closed(k, s).toward[Peer(s)] = k.toward[Peer(s)]
         /\ Closed(k, s).reset = (k.reset \/ k.toward[s] # <<>>)
<1> DEFINE a == WithEnd(k, s, "closed")
           lost == k.reset \/ k.toward[s] # <<>>
           b == WithReset(a, lost)
           none == <<>>
           d == WithToward(b, s, none)
<1>1. "closed" \in EndStates /\ none \in Seq(U) /\ lost \in BOOLEAN
  BY EmptySeq DEF EndStates, Streams
<1>2. /\ a \in Streams(U) /\ a.state[s] = "closed" /\ a.state[Peer(s)] = k.state[Peer(s)]
      /\ a.toward = k.toward /\ a.reset = k.reset
  BY <1>1, EndChanges
<1>3. Closed(k, s) = d
  BY DEF Closed, WithEnd, WithReset, WithToward
<1> HIDE DEF a, lost
<1>4. b \in Streams(U) /\ b.state = a.state /\ b.toward = a.toward /\ b.reset = lost
  BY <1>1, <1>2, ResetChanges
<1> HIDE DEF b, none
<1>5. /\ d \in Streams(U) /\ d.toward[s] = none /\ d.toward[Peer(s)] = b.toward[Peer(s)]
      /\ d.state = b.state /\ d.reset = b.reset
  BY <1>1, <1>4, TowardChanges
<1> HIDE DEF d
<1> QED
  BY <1>2, <1>3, <1>4, <1>5 DEF lost, none

\* One side is gone for good.
LEMMA DepartureFields ==
  ASSUME NEW U, NEW k \in Streams(U), NEW s \in Sides, NEW j \in Departures(k, s)
  PROVE  /\ j \in Streams(U) /\ (k.reset => j.reset)
         /\ j.state[s] = "closed" /\ j.state[Peer(s)] = k.state[Peer(s)]
         /\ j.toward[s] = <<>> /\ j.toward[Peer(s)] = k.toward[Peer(s)]
<1> DEFINE d == Closed(k, s)
<1>1. /\ d \in Streams(U) /\ d.reset = (k.reset \/ k.toward[s] # <<>>)
      /\ d.state[s] = "closed" /\ d.state[Peer(s)] = k.state[Peer(s)]
      /\ d.toward[s] = <<>> /\ d.toward[Peer(s)] = k.toward[Peer(s)]
  BY ClosedFields
<1>2. j = d \/ j = WithReset(d, TRUE)
  BY DEF Departures, WithReset
<1> HIDE DEF d
<1>3. CASE j = d
  BY <1>1, <1>3
<1>4. CASE j = WithReset(d, TRUE)
  <2>1. j \in Streams(U) /\ j.state = d.state /\ j.toward = d.toward /\ j.reset = TRUE
    BY <1>1, <1>4, ResetChanges
  <2> QED
    BY <1>1, <2>1
<1> QED
  BY <1>2, <1>3, <1>4

LEMMA UnlistenedFields ==
  ASSUME NEW U, NEW k \in Streams(U)
  PROVE  /\ ~IsPending(k) => Unlistened(k) = k
         /\ IsPending(k) => /\ Unlistened(k) \in Streams(U)
                            /\ Unlistened(k).state["server"] = "closed"
                            /\ Unlistened(k).state["client"] = k.state["client"]
                            /\ Unlistened(k).toward["server"] = <<>>
                            /\ Unlistened(k).toward["client"] = k.toward["client"]
                            /\ Unlistened(k).reset
<1> DEFINE d == Closed(k, "server")
<1>1. "server" \in Sides /\ Peer("server") = "client"
  BY DEF Sides, Peer
<1>2. /\ d \in Streams(U) /\ d.state["server"] = "closed" /\ d.state["client"] = k.state["client"]
      /\ d.toward["server"] = <<>> /\ d.toward["client"] = k.toward["client"]
  BY <1>1, ClosedFields
<1>3. Unlistened(k) = IF IsPending(k) THEN WithReset(d, TRUE) ELSE k
  BY DEF Unlistened, WithReset
<1> HIDE DEF d
<1> QED
  BY <1>2, <1>3, ResetChanges

\* The server's process has ended: it has no socket any more, and connections in
\* the backlog or with something unread are reset.
LEMMA AbandonedFields ==
  ASSUME NEW U, NEW k \in Streams(U)
  PROVE  /\ Abandoned(k) \in Streams(U)
         /\ Abandoned(k).state["server"] \in {"none", "closed"}
         /\ Abandoned(k).state["server"] = "none" <=> k.state["server"] = "none"
         /\ Abandoned(k).state["client"] = k.state["client"]
         /\ Abandoned(k).toward["client"] = k.toward["client"]
         /\ Abandoned(k).toward["server"] \in {<<>>, k.toward["server"]}
         /\ k.reset \/ IsPending(k) => Abandoned(k).reset
         /\ k.state["server"] \in {"none", "closed"} => Abandoned(k) = k
<1>1. "server" \in Sides /\ Peer("server") = "client"
  BY DEF Sides, Peer
<1>2. k.state["server"] \in EndStates /\ k.reset \in BOOLEAN
  BY <1>1 DEF Streams
<1>3. CASE k.state["server"] \in {"open", "shut"}
  <2>1. Abandoned(k) = Closed(k, "server") /\ ~IsPending(k)
    BY <1>3 DEF Abandoned, IsPending
  <2> QED
    BY <1>1, <1>2, <1>3, <2>1, ClosedFields, EmptySeq
<1>4. CASE k.state["server"] \notin {"open", "shut"}
  <2>1. Abandoned(k) = Unlistened(k)
    BY <1>4 DEF Abandoned
  <2>2. IsPending(k) <=> k.state["server"] = "pending"
    BY DEF IsPending
  <2> QED
    BY <1>2, <1>4, <2>1, <2>2, UnlistenedFields DEF EndStates
<1> QED
  BY <1>3, <1>4

\* What has been there is what was taken and what is left.
Joins(all, first, rest) == all = first \o rest

\* The first n elements of a sequence, and those after them.
Before(in, n) == SubSeq(in, 1, n)
After(in, n) == SubSeq(in, n + 1, Len(in))

LEMMA BeforeFields ==
  ASSUME NEW U, NEW in \in Seq(U), NEW n \in 0..Len(in)
  PROVE  /\ Before(in, n) \in Seq(U) /\ Len(Before(in, n)) = n
         /\ \A i \in 1..n : Before(in, n)[i] = in[i]
<1>1. n \in Nat /\ n <= Len(in)
  OBVIOUS
<1>2. \A i \in 1..n : in[i] \in U
  BY <1>1, ElementOfSeq
<1> QED
  BY <1>1, <1>2, SubSeqProperties DEF Before

LEMMA AfterFields ==
  ASSUME NEW U, NEW in \in Seq(U), NEW n \in 0..Len(in)
  PROVE  /\ After(in, n) \in Seq(U) /\ Len(After(in, n)) = Len(in) - n
         /\ \A i \in 1..(Len(in) - n) : After(in, n)[i] = in[n + i]
<1>1. PICK len \in Nat : len = Len(in)
  OBVIOUS
<1>2. n \in Nat /\ n <= len
  BY <1>1
<1>3. PICK m \in Int : m = n + 1
  BY <1>2
<1>4. \A i \in m..len : in[i] \in U
  BY <1>1, <1>2, <1>3, ElementOfSeq
<1>5. /\ SubSeq(in, m, len) \in Seq(U)
      /\ Len(SubSeq(in, m, len)) = IF m <= len THEN len - m + 1 ELSE 0
      /\ \A i \in 1..(len - m + 1) : SubSeq(in, m, len)[i] = in[m + i - 1]
  BY <1>1, <1>3, <1>4, SubSeqProperties
<1>6. /\ len - m + 1 = len - n
      /\ (IF m <= len THEN len - m + 1 ELSE 0) = len - n
      /\ \A i \in 1..(len - n) : m + i - 1 = n + i
  BY <1>2, <1>3
<1>7. \A i \in 1..(len - n) : SubSeq(in, m, len)[i] = in[n + i]
  BY <1>5, <1>6
<1>8. After(in, n) = SubSeq(in, m, len)
  BY <1>1, <1>3 DEF After
<1> QED
  BY <1>1, <1>5, <1>6, <1>7, <1>8

LEMMA BothJoin ==
  ASSUME NEW U, NEW in \in Seq(U), NEW n \in 0..Len(in)
  PROVE  Joins(in, Before(in, n), After(in, n))
<1>1. PICK len \in Nat : len = Len(in)
  OBVIOUS
<1>2. n \in Nat /\ n <= len
  BY <1>1
<1>3. PICK a \in Seq(U), b \in Seq(U) : a = Before(in, n) /\ b = After(in, n)
  BY BeforeFields, AfterFields
<1>4. Len(a) = n /\ \A i \in 1..n : a[i] = in[i]
  BY <1>3, BeforeFields
<1>5. Len(b) = len - n /\ \A i \in 1..(len - n) : b[i] = in[n + i]
  BY <1>1, <1>3, AfterFields
<1>6. PICK c : c = a \o b
  OBVIOUS
<1>7. /\ c \in Seq(U) /\ Len(c) = Len(a) + Len(b)
      /\ \A i \in 1..(Len(a) + Len(b)) : c[i] = IF i <= Len(a) THEN a[i] ELSE b[i - Len(a)]
  BY <1>3, <1>6, ConcatProperties
<1>8. Len(a) + Len(b) = len
  BY <1>2, <1>4, <1>5
<1>9. ASSUME NEW i \in 1..len
      PROVE  c[i] = in[i]
  <2>1. CASE i <= n
    <3>1. i \in 1..n
      BY <1>2, <2>1
    <3> QED
      BY <1>4, <1>7, <1>8, <2>1, <3>1
  <2>2. CASE i > n
    <3>1. i - n \in 1..(len - n) /\ n + (i - n) = i /\ ~(i <= n)
      BY <1>2, <2>2
    <3> QED
      BY <1>4, <1>5, <1>7, <1>8, <3>1
  <2> QED
    BY <1>2, <2>1, <2>2
<1>10. in = c
  BY <1>1, <1>7, <1>8, <1>9, SeqEqual
<1> QED
  BY <1>3, <1>6, <1>10 DEF Joins

\* recv takes the first units that have come, says that no more will come, or fails.
LEMMA ReceivesFields ==
  ASSUME NEW U, NEW k \in Streams(U), NEW s \in Sides, NEW max \in Nat \ {0},
         NEW r \in Receives(k, s, max), NEW j, j = r.stream
  PROVE  /\ j \in Streams(U) /\ j.state = k.state /\ j.reset = k.reset
         /\ j.toward[Peer(s)] = k.toward[Peer(s)]
         /\ r.data \in Seq(U) /\ Joins(k.toward[s], r.data, j.toward[s])
         /\ \/ r.ret \in 1..max /\ Len(r.data) = r.ret
            \/ r.ret = 0 /\ r.data = <<>> /\ j = k /\ k.toward[s] = <<>>
                 /\ k.state[Peer(s)] \in {"shut", "closed"} /\ ~k.reset
            \/ r.ret = -1 /\ r.data = <<>> /\ j = k /\ k.reset
<1> DEFINE in == k.toward[s]
           n == IF max < Len(in) THEN max ELSE Len(in)
<1>1. in \in Seq(U) /\ Len(in) \in Nat
  BY DEF Streams
<1>2. n \in 0..max /\ n <= Len(in)
  BY <1>1
<1> HIDE DEF in, n
<1> DEFINE rest == After(in, n)
           first == Before(in, n)
           taken == WithToward(k, s, rest)
<1>3. first \in Seq(U) /\ rest \in Seq(U) /\ Len(first) = n /\ Joins(in, first, rest)
  <2>1. n \in 0..Len(in)
    BY <1>1, <1>2
  <2> QED
    BY <1>1, <2>1, BeforeFields, AfterFields, BothJoin
<1>4. \/ r = [ret |-> n, data |-> first, stream |-> taken] /\ n > 0
      \/ r = [ret |-> 0, data |-> <<>>, stream |-> k] /\ in = <<>>
           /\ k.state[Peer(s)] \in {"shut", "closed"} /\ ~k.reset
      \/ r = [ret |-> -1, data |-> <<>>, stream |-> k] /\ k.reset
  BY DEF Receives, in, n, WithToward, Before, After
<1>5. rest \in Seq(U)
  BY <1>3
<1> HIDE DEF rest
<1>6. /\ taken \in Streams(U) /\ taken.toward[s] = rest
      /\ taken.toward[Peer(s)] = k.toward[Peer(s)]
      /\ taken.state = k.state /\ taken.reset = k.reset
  BY <1>5, TowardChanges
<1> HIDE DEF taken, first
<1>7. CASE r = [ret |-> n, data |-> first, stream |-> taken] /\ n > 0
  <2>1. r.ret = n /\ r.data = first /\ r.stream = taken
    BY <1>7, Zenon
  <2>2. n > 0
    BY <1>7
  <2>3. n \in 1..max
    BY <1>2, <2>2
  <2>4. n \in 1..max /\ Len(first) = n /\ first \in Seq(U)
    BY <1>3, <2>3 DEF first
  <2>5. Joins(in, r.data, j.toward[s])
    BY <1>3, <1>6, <2>1
  <2> QED
    BY <1>6, <2>1, <2>4, <2>5 DEF in
<1>8. <<>> \in Seq(U) /\ Joins(in, <<>>, in)
  BY <1>1, EmptySeq, ConcatEmptySeq DEF Joins
<1>9. CASE r = [ret |-> 0, data |-> <<>>, stream |-> k] /\ in = <<>>
           /\ k.state[Peer(s)] \in {"shut", "closed"} /\ ~k.reset
  <2>1. r.ret = 0 /\ r.data = <<>> /\ r.stream = k
    BY <1>9
  <2> QED
    BY <1>8, <1>9, <2>1 DEF in
<1>10. CASE r = [ret |-> -1, data |-> <<>>, stream |-> k] /\ k.reset
  <2>1. r.ret = -1 /\ r.data = <<>> /\ r.stream = k
    BY <1>10
  <2> QED
    BY <1>8, <1>10, <2>1 DEF in
<1> QED
  BY <1>4, <1>7, <1>9, <1>10

\* recv takes all that has come, if there is room for it.
LEMMA ReceivesAllThere ==
  ASSUME NEW U, NEW k \in Streams(U), NEW s \in Sides, NEW max \in Nat \ {0},
         NEW r \in Receives(k, s, max), r.ret > 0
  PROVE  r.ret = IF max < Len(k.toward[s]) THEN max ELSE Len(k.toward[s])
<1>1. PICK n : n = IF max < Len(k.toward[s]) THEN max ELSE Len(k.toward[s])
  OBVIOUS
<1>2. PICK data, j : \/ r = [ret |-> n, data |-> data, stream |-> j]
                     \/ r = [ret |-> 0, data |-> data, stream |-> j]
                     \/ r = [ret |-> -1, data |-> data, stream |-> j]
  BY <1>1 DEF Receives
<1>3. r.ret \in {n, 0, -1}
  BY <1>2
<1> QED
  BY <1>1, <1>3

\* send hands over some units, fails after a reset, or learns nothing of a peer that
\* has closed.
LEMMA SendsFields ==
  ASSUME NEW U, NEW k \in Streams(U), NEW s \in Sides, NEW data \in Seq(U),
         NEW r \in Sends(k, s, data), NEW j, j = r.stream
  PROVE  /\ j \in Streams(U)
         /\ j.state = k.state /\ j.toward[s] = k.toward[s]
         /\ k.reset => r.ret = -1 /\ j = k
         /\ ~k.reset => r.ret \in 0..Len(data)
         /\ ~k.reset /\ k.state[Peer(s)] = "closed" =>
              r.ret = Len(data) /\ j.toward = k.toward
         /\ ~k.reset /\ k.state[Peer(s)] # "closed" =>
              /\ r.ret # 0 /\ ~j.reset
              /\ Joins(j.toward[Peer(s)], k.toward[Peer(s)], Before(data, r.ret))
<1>1. k.reset \in BOOLEAN /\ k.toward \in [Sides -> Seq(U)] /\ Len(data) \in Nat
  BY DEF Streams
<1>2. CASE k.reset
  <2>1. r = [ret |-> -1, stream |-> k]
    BY <1>2 DEF Sends
  <2> QED
    BY <1>2, <2>1
<1>3. CASE ~k.reset /\ k.state[Peer(s)] = "closed"
  <2>1. PICK b \in BOOLEAN : r = [ret |-> Len(data), stream |-> WithReset(k, b)]
    BY <1>3 DEF Sends, WithReset
  <2>2. r.ret = Len(data) /\ j = WithReset(k, b)
    BY <2>1
  <2>3. j \in Streams(U) /\ j.state = k.state /\ j.toward = k.toward
    BY <2>2, ResetChanges
  <2>4. r.ret = Len(data)
    BY <2>2
  <2> QED
    BY <1>1, <1>3, <2>3, <2>4
<1>4. CASE ~k.reset /\ k.state[Peer(s)] # "closed"
  <2>1. PICK n \in 1..Len(data) :
          r = [ret |-> n,
               stream |-> WithToward(k, Peer(s), k.toward[Peer(s)] \o Before(data, n))]
    BY <1>4 DEF Sends, WithToward, Before
  <2>2. PICK q : q = k.toward[Peer(s)] \o Before(data, n)
    OBVIOUS
  <2>3. q \in Seq(U)
    <3>1. n \in 0..Len(data)
      BY <1>1
    <3>2. Before(data, n) \in Seq(U)
      BY <3>1, BeforeFields
    <3> QED
      BY <1>1, <2>2, <3>2, PeerIsOther, ConcatProperties
  <2>4. j = WithToward(k, Peer(s), q)
    BY <2>1, <2>2
  <2>5. Peer(s) \in Sides /\ Peer(Peer(s)) = s
    BY PeerIsOther DEF Peer, Sides
  <2>6. /\ j \in Streams(U) /\ j.toward[Peer(s)] = q /\ j.toward[s] = k.toward[s]
        /\ j.state = k.state /\ j.reset = k.reset
    BY <2>3, <2>4, <2>5, TowardChanges
  <2>7. r.ret = n
    BY <2>1, <2>2, <2>4
  <2>8. Joins(j.toward[Peer(s)], k.toward[Peer(s)], Before(data, r.ret))
    BY <2>2, <2>6, <2>7 DEF Joins
  <2> QED
    BY <1>4, <2>6, <2>7, <2>8
<1> QED
  BY <1>1, <1>2, <1>3, <1>4

\* q is what comes in u after its first n units.
Follows(q, u, n) == n + Len(q) <= Len(u) /\ \A i \in 1..Len(q) : q[i] = u[n + i]

\* A sequence comes next when its first part does, and then the rest.
LEMMA FollowsSplit ==
  ASSUME NEW U, NEW u \in Seq(U), NEW first \in Seq(U), NEW rest \in Seq(U),
         NEW all, Joins(all, first, rest), NEW n \in Nat
  PROVE  /\ all \in Seq(U) /\ Len(all) = Len(first) + Len(rest)
         /\ Follows(all, u, n) <=> Follows(first, u, n) /\ Follows(rest, u, n + Len(first))
<1>1. PICK a \in Nat : a = Len(first)
  OBVIOUS
<1>2. PICK b \in Nat : b = Len(rest)
  OBVIOUS
<1>3. PICK len \in Nat : len = Len(u)
  OBVIOUS
<1>4. /\ all \in Seq(U) /\ Len(all) = a + b
      /\ \A i \in 1..(a + b) : all[i] = IF i <= a THEN first[i] ELSE rest[i - a]
  BY <1>1, <1>2, ConcatProperties DEF Joins
<1>5. ASSUME Follows(all, u, n)
      PROVE  Follows(first, u, n) /\ Follows(rest, u, n + a)
  <2>1. n + (a + b) <= len /\ \A i \in 1..(a + b) : all[i] = u[n + i]
    BY <1>3, <1>4, <1>5 DEF Follows
  <2>2. ASSUME NEW i \in 1..a
        PROVE  first[i] = u[n + i]
    <3>1. i \in 1..(a + b) /\ i <= a
      OBVIOUS
    <3> QED
      BY <1>4, <2>1, <3>1
  <2>3. ASSUME NEW i \in 1..b
        PROVE  rest[i] = u[(n + a) + i]
    <3>1. PICK j : j = a + i
      OBVIOUS
    <3>2. j \in 1..(a + b) /\ ~(j <= a) /\ j - a = i /\ n + j = (n + a) + i
      BY <3>1
    <3> QED
      BY <1>4, <2>1, <3>2
  <2> QED
    BY <1>1, <1>2, <1>3, <2>1, <2>2, <2>3 DEF Follows
<1>6. ASSUME Follows(first, u, n), Follows(rest, u, n + a)
      PROVE  Follows(all, u, n)
  <2>1. /\ (n + a) + b <= len /\ \A i \in 1..a : first[i] = u[n + i]
        /\ \A i \in 1..b : rest[i] = u[(n + a) + i]
    BY <1>1, <1>2, <1>3, <1>6 DEF Follows
  <2>2. ASSUME NEW i \in 1..(a + b)
        PROVE  all[i] = u[n + i]
    <3>1. CASE i <= a
      <4>1. i \in 1..a
        BY <3>1
      <4> QED
        BY <1>4, <2>1, <3>1, <4>1
    <3>2. CASE ~(i <= a)
      <4>1. PICK j : j = i - a
        OBVIOUS
      <4>2. j \in 1..b /\ (n + a) + j = n + i
        BY <3>2, <4>1
      <4> QED
        BY <1>4, <2>1, <3>2, <4>1, <4>2
    <3> QED
      BY <3>1, <3>2
  <2> QED
    BY <1>3, <1>4, <2>1, <2>2 DEF Follows
<1> QED
  BY <1>1, <1>2, <1>4, <1>5, <1>6

\* What is received goes from what is on its way to what was received before.
LEMMA ReceiveMoves ==
  ASSUME NEW U, NEW u \in Seq(U), NEW old \in Seq(U), NEW in \in Seq(U), NEW data \in Seq(U),
         NEW rest \in Seq(U), Joins(in, data, rest), NEW n \in Nat,
         Follows(old, u, n), Follows(in, u, n + Len(old)), NEW all, Joins(all, old, data)
  PROVE  /\ all \in Seq(U) /\ Len(all) = Len(old) + Len(data)
         /\ Len(all) + Len(rest) = Len(old) + Len(in)
         /\ Follows(all, u, n) /\ Follows(rest, u, n + Len(all))
<1>1. PICK a \in Nat : a = Len(old)
  OBVIOUS
<1>2. PICK b \in Nat : b = Len(data)
  OBVIOUS
<1>3. n + a \in Nat
  OBVIOUS
<1>4. /\ Len(in) = b + Len(rest) /\ Follows(data, u, n + a)
      /\ Follows(rest, u, (n + a) + b)
  BY <1>1, <1>2, <1>3, FollowsSplit
<1>5. all \in Seq(U) /\ Len(all) = a + b /\ Follows(all, u, n)
  BY <1>1, <1>2, <1>4, FollowsSplit
<1>6. (n + a) + b = n + (a + b)
  OBVIOUS
<1>7. Follows(rest, u, n + (a + b))
  BY <1>4, <1>6
<1>8. PICK m \in Nat : m = Len(rest)
  OBVIOUS
<1>9. (a + b) + m = a + (b + m)
  OBVIOUS
<1> QED
  BY <1>1, <1>2, <1>4, <1>5, <1>7, <1>8, <1>9

\* What is sent goes from what has to be sent to what is on its way.
LEMMA SendMoves ==
  ASSUME NEW U, NEW u \in Seq(U), NEW out \in Seq(U), NEW in \in Seq(U),
         NEW sent \in 0..Len(out), NEW n \in Nat,
         Follows(in, u, n), Follows(out, u, n + Len(in)), NEW all, Joins(all, in, Before(out, sent))
  PROVE  /\ all \in Seq(U) /\ Len(all) + Len(After(out, sent)) = Len(in) + Len(out)
         /\ Follows(all, u, n) /\ Follows(After(out, sent), u, n + Len(all))
<1>1. PICK first \in Seq(U), rest \in Seq(U) :
        /\ first = Before(out, sent) /\ rest = After(out, sent) /\ Joins(out, first, rest)
  BY BeforeFields, AfterFields, BothJoin
<1>2. PICK a \in Nat : a = Len(in)
  OBVIOUS
<1>3. PICK b \in Nat : b = Len(first)
  OBVIOUS
<1>4. n + a \in Nat /\ Follows(out, u, n + a)
  BY <1>2
<1>5. /\ Len(out) = b + Len(rest) /\ Follows(first, u, n + a)
      /\ Follows(rest, u, (n + a) + b)
  <2>1. PICK m \in Nat : m = n + a
    BY <1>4
  <2>2. Joins(out, first, rest) /\ Follows(out, u, m)
    BY <1>1, <1>4, <2>1
  <2>3. /\ Len(out) = Len(first) + Len(rest)
        /\ Follows(first, u, m) /\ Follows(rest, u, m + Len(first))
    BY <2>2, FollowsSplit
  <2> QED
    BY <1>3, <2>1, <2>3
<1>6. all \in Seq(U) /\ Len(all) = a + b /\ Follows(all, u, n)
  BY <1>1, <1>2, <1>3, <1>5, FollowsSplit
<1>7. (n + a) + b = n + (a + b)
  OBVIOUS
<1>8. Follows(rest, u, n + (a + b))
  BY <1>5, <1>7
<1>9. PICK m \in Nat : m = Len(rest)
  OBVIOUS
<1>10. (a + b) + m = a + (b + m)
  OBVIOUS
<1> QED
  BY <1>1, <1>2, <1>5, <1>6, <1>8, <1>9, <1>10
================================================================================
