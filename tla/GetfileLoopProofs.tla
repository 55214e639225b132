---------------------------- MODULE GetfileLoopProofs --------------------------
(***************************************************************************)
(* What content_get finds in any content map, and what the single-threaded *)
(* getfile programs make of it: for any number of clients and requests,    *)
(* any workloads and any sizes of files and buffers.                       *)
(***************************************************************************)
EXTENDS GetfileLoop, TcpProofs

\* The middle of a range that is not empty lies in it.
LEMMA MiddleInRange ==
  ASSUME lo \in Nat, hi \in Int, lo <= hi
  PROVE  Middle \in Nat /\ lo <= Middle /\ Middle <= hi
<1>1. (hi - lo) \div 2 \in 0..(hi - lo)
  OBVIOUS
<1> QED
  BY <1>1 DEF Middle

\* The types, and that the search never leaves the key behind (SearchInv), from
\* which follows that what is returned is right.
LookupInv == SearchInv /\ LookupIsRight

\* Loop invariant of content_get: holds at first, and a call and every turn of
\* the loop keep it.
LEMMA LookupInvStep ==
  ASSUME LookupInv, [LookupNext \/ \E k \in Int : Lookup(k)]_lookup
  PROVE  LookupInv'
<1> USE ItemsAssumption
<1>0. nitems \in Nat
  BY DEF nitems
<1>1. CASE Miss
  <2>1. ASSUME NEW i \in 1..nitems PROVE Items[i] # key
    <3> SUFFICES ASSUME Items[i] = key PROVE FALSE
      OBVIOUS
    <3> DEFINE j == i - 1
    <3>1. j \in 0..(nitems - 1) /\ j + 1 = i
      BY <1>0, <2>1
    <3> HIDE DEF j
    <3>2. lo <= j /\ j <= hi
      BY <1>1, <3>1 DEF LookupInv, SearchInv, Miss
    <3> QED
      BY <1>0, <1>1, <3>1, <3>2 DEF LookupInv, SearchInv, Miss
  <2> QED
    BY <1>1, <2>1 DEF LookupInv, SearchInv, LookupIsRight, Miss, nitems
<1>2. CASE Compare
  <2>1. Middle \in Nat /\ lo <= Middle /\ Middle <= hi
    BY <1>0, <1>2, MiddleInRange DEF LookupInv, SearchInv, Compare
  <2>2. Middle + 1 \in 1..nitems /\ Items[Middle + 1] \in Int
    BY <1>0, <2>1 DEF LookupInv, SearchInv, nitems
  <2> DEFINE m == Middle
  <2> HIDE DEF m
  <2>3. m \in Nat /\ lo <= m /\ m <= hi /\ m + 1 \in 1..nitems /\ Items[m + 1] \in Int
    BY <2>1, <2>2 DEF m
  <2>4. CASE key < Items[m + 1] /\ hi' = m - 1 /\ UNCHANGED <<lo, search, fildes>>
    <3>1. ASSUME NEW i \in 0..(nitems - 1), Items[i + 1] = key
          PROVE  i <= m - 1
      <4>1. m + 1 < i + 1 => Items[m + 1] <= Items[i + 1]
        BY <1>0, <2>3 DEF nitems
      <4> QED
        BY <1>0, <2>3, <2>4, <3>1, <4>1 DEF LookupInv, SearchInv
    <3> QED
      BY <1>0, <1>2, <2>3, <2>4, <3>1 DEF LookupInv, SearchInv, LookupIsRight, Compare, nitems
  <2>5. CASE key > Items[m + 1] /\ lo' = m + 1 /\ UNCHANGED <<hi, search, fildes>>
    <3>1. ASSUME NEW i \in 0..(nitems - 1), Items[i + 1] = key
          PROVE  m + 1 <= i
      <4>1. i + 1 < m + 1 => Items[i + 1] <= Items[m + 1]
        BY <1>0, <2>3 DEF nitems
      <4> QED
        BY <1>0, <2>3, <2>5, <3>1, <4>1 DEF LookupInv, SearchInv
    <3> QED
      BY <1>0, <1>2, <2>3, <2>5, <3>1 DEF LookupInv, SearchInv, LookupIsRight, Compare, nitems
  <2>6. CASE key = Items[m + 1] /\ fildes' = m /\ search' = "over" /\ UNCHANGED <<lo, hi>>
    BY <1>0, <1>2, <2>3, <2>6 DEF LookupInv, SearchInv, LookupIsRight, Compare, nitems
  <2> QED
    BY <1>2, <2>4, <2>5, <2>6 DEF Compare, m
<1>3. ASSUME NEW k \in Int, Lookup(k) PROVE LookupInv'
  BY <1>0, <1>3 DEF LookupInv, SearchInv, LookupIsRight, Lookup, nitems
<1>4. CASE UNCHANGED lookup
  BY <1>0, <1>4 DEF LookupInv, SearchInv, LookupIsRight, lookup, nitems
<1> QED
  BY <1>1, <1>2, <1>3, <1>4 DEF LookupNext

\* content_get, called with any key on any sorted content map, returns a file of
\* that key or -1 when there is none.
THEOREM LookupRight == LookupSpec => []LookupIsRight
<1>1. LookupInit => LookupInv
  BY ItemsAssumption DEF LookupInit, LookupInv, SearchInv, LookupIsRight, nitems
<1>2. LookupInv /\ [LookupNext \/ \E k \in Int : Lookup(k)]_lookup => LookupInv'
  BY LookupInvStep
<1>3. LookupInv => LookupIsRight
  BY DEF LookupInv
<1> QED
  BY <1>1, <1>2, <1>3, PTL DEF LookupSpec

\* Every turn of its loop leaves less to search through, until it returns.
THEOREM LookupTerminates == LookupSpec => LookupShrinks
<1>1. LookupInit => LookupInv
  BY ItemsAssumption DEF LookupInit, LookupInv, SearchInv, LookupIsRight, nitems
<1>2. LookupInv /\ [LookupNext \/ \E k \in Int : Lookup(k)]_lookup => LookupInv'
  BY LookupInvStep
<1>3. LookupInv /\ [LookupNext \/ \E k \in Int : Lookup(k)]_lookup
        => [LookupNext => search' = "over" \/ hi' - lo' < hi - lo]_lookup
  <2> SUFFICES ASSUME LookupInv, LookupNext
               PROVE  search' = "over" \/ hi' - lo' < hi - lo
    OBVIOUS
  <2>1. CASE Miss
    BY <2>1 DEF Miss
  <2>2. CASE Compare
    <3>1. lo \in Nat /\ hi \in Int
      BY ItemsAssumption DEF LookupInv, SearchInv, nitems
    <3>2. Middle \in Nat /\ lo <= Middle /\ Middle <= hi
      BY <2>2, <3>1, MiddleInRange DEF Compare
    <3> QED
      BY <2>2, <3>1, <3>2 DEF Compare
  <2> QED
    BY <2>1, <2>2 DEF LookupNext
<1> QED
  BY <1>1, <1>2, <1>3, PTL DEF LookupSpec, LookupShrinks

-----------------------------------------------------------------------------
(* The inductive invariant of the programs.                                *)

Words == {"none", "get", "path", "getfile", "data", "ok", "notfound", "invalid", "error"}

Units == Words \X Nat \X Nat

ServerType ==
  [at : {"bind", "listen", "select", "reading", "sending", "lookup", "load", "drain",
         "unlisten", "done", "killed"},
   socket : {"none", "bound", "listening", "closed"}, address : Nat,
   conn : Conns \cup {NoConn}, text : Seq(Units), out : Seq(Units),
   what : {"nothing", "error", "header", "data"}, ok : BOOLEAN]

CtxType == [live : BOOLEAN, expectSent : Int, sentSoFar : Int]

ClientType ==
  [at : {"next", "connect", "request", "response", "body", "close", "report", "gone"},
   i : Nat, counter : Nat, out : Seq(Units), text : Seq(Units), ret : {0, -1},
   status : Words, fileLen : Nat, received : Nat, reports : Seq({0, -1} \X Words)]

TypeOK ==
  /\ stream \in [Conns -> Streams(Units)]
  /\ gfs \in ServerType
  /\ ctx \in CtxType
  /\ client \in [Clients -> ClientType]
  /\ given \in [Conns -> Seq(Units)]
  /\ workload \in Workloads

\* What is sent to ask for path p, and to answer.
Request(p) == <<<<"get", 0, 0>>, <<"path", p, 0>>>>

Status(p) == IF p = 0 THEN "invalid" ELSE IF InMap(p) THEN "ok" ELSE "notfound"

Length(p) == IF InMap(p) THEN Size[p] ELSE 0

Answer(p) ==
  [i \in 1..(2 + Length(p)) |->
     IF i = 1 THEN <<"getfile", 0, 0>>
     ELSE IF i = 2 THEN <<Status(p), Length(p), 0>> ELSE <<"data", p, i - 2>>]

Busy == gfs.at \in {"reading", "lookup", "sending", "load", "drain"}

\* The server has one connection while it serves, and none when it does not.
ServesOne ==
  /\ Busy => gfs.conn \in Conns
  /\ Busy /\ gfs.at # "drain" => stream[gfs.conn].state["server"] = "open"
  /\ gfs.at = "drain" => stream[gfs.conn].state["server"] = "shut"
  /\ ~Busy /\ gfs.at # "killed" => gfs.conn = NoConn

\* sock_send_all runs: for send_error_and_shutdown_, for the header or for data.
SendsNow(what) == gfs.at = "sending" /\ gfs.what = what

\* The handler runs: for the request's path, which is that of a file when the
\* search has found one.
Found == gfs.at = "load" \/ SendsNow("header") \/ SendsNow("data")

HandlerInv ==
  /\ gfs.at = "lookup" \/ Found =>
       key = PathOf(gfs.conn) /\ key # 0 /\ ctx.live
  /\ Found => search = "over" /\ fildes >= 0
  /\ gfs.at = "load" \/ SendsNow("data") =>
       ctx.expectSent = Size[PathOf(gfs.conn)] /\ ctx.sentSoFar \in 0..ctx.expectSent
  /\ gfs.at = "load" => ctx.sentSoFar = 0 \/ ctx.sentSoFar < ctx.expectSent
  /\ SendsNow("data") => ctx.sentSoFar < ctx.expectSent
  /\ gfs.at = "sending" => gfs.what # "nothing"
  /\ gfs.at = "sending" /\ ~gfs.ok => gfs.out = <<>> /\ stream[gfs.conn].reset

\* The server has not yet heard all of the request of k.
Awaited(k) ==
  stream[k].state["server"] = "pending" \/ (gfs.at = "reading" /\ gfs.conn = k)

Heard(k) == IF gfs.at = "reading" /\ gfs.conn = k THEN gfs.text ELSE <<>>

\* What it has heard and what is on its way to it is the request, in order.
Asked(k) ==
  Awaited(k) =>
    /\ Follows(Heard(k), Request(PathOf(k)), 0)
    /\ Follows(stream[k].toward["server"], Request(PathOf(k)), Len(Heard(k)))
    /\ client[k[1]].at = "request" /\ client[k[1]].i = k[2] =>
         Len(Heard(k)) + Len(stream[k].toward["server"]) + Len(client[k[1]].out) = 2

\* Nobody has asked for connection k.
Fresh(k) ==
  /\ k[2] > client[k[1]].i => given[k] = NoFile
  /\ k[2] > client[k[1]].i \/ (k[2] = client[k[1]].i /\ client[k[1]].at = "connect") =>
       stream[k].state["server"] = "none"

\* What ctx_send_ sends in this turn.
Turn == IF ctx.expectSent - ctx.sentSoFar < Chunk THEN ctx.expectSent - ctx.sentSoFar ELSE Chunk

\* How many units of the answer the server has handed over.
Handed ==
  CASE gfs.at \in {"reading", "lookup"} -> 0
    [] gfs.at = "load" -> 2 + ctx.sentSoFar
    [] SendsNow("data") -> 2 + ctx.sentSoFar + Turn - Len(gfs.out)
    [] SendsNow("error") \/ SendsNow("header") -> 2 - Len(gfs.out)

Waiting(c) == client[c].at \in {"request", "response", "body"}

\* How many of them client c has received.
Taken(c) ==
  CASE client[c].at = "request" -> 0
    [] client[c].at = "response" -> Len(client[c].text)
    [] client[c].at = "body" -> 2 + client[c].received

\* What a client that waits has received and what is on its way to it is the
\* answer, in order; and until the connection is torn down nothing is missing of
\* what the server has handed over, which goes on with what it has in hand.
InOrder(c) ==
  Waiting(c) =>
    LET k == Conn(c) IN
    /\ stream[k].state["client"] = "open"
    /\ Follows(stream[k].toward["client"], Answer(PathOf(k)), Taken(c))
    /\ stream[k].state["server"] = "pending" => Taken(c) + Len(stream[k].toward["client"]) = 0
    /\ Busy /\ gfs.at # "drain" /\ gfs.conn = k /\ ~stream[k].reset =>
         /\ Taken(c) + Len(stream[k].toward["client"]) = Handed
         /\ gfs.at = "sending" => Follows(gfs.out, Answer(PathOf(k)), Handed)

\* How far a client is with its request, what its file then is, and what it is
\* about to report.
PartsOf(c, me, p, file) ==
  /\ me.counter = me.i /\ me.i <= Requests[c]
  /\ me.at = "next" => Len(me.reports) = me.i
  /\ me.at # "next" => me.i > 0 /\ Len(me.reports) = me.i - 1
  /\ me.at \in {"connect", "request", "response", "body"} => me.ret = 0 /\ me.status = "ok"
  /\ me.at \in {"connect", "request", "response"} => file = <<>>
  /\ me.at \in {"connect", "request"} =>
       Len(me.out) <= 2 /\ Follows(me.out, Request(p), 2 - Len(me.out)) /\ me.text = <<>>
  /\ me.at = "connect" => Len(me.out) = 2
  /\ me.at = "response" => Follows(me.text, Answer(p), 0)
  /\ me.at = "body" =>
       /\ InMap(p) /\ me.fileLen = Size[p]
       /\ me.received = Len(file) /\ Follows(file, Answer(p), 2)
  /\ me.at \in {"close", "report"} /\ me.ret = 0 =>
       me.status = Status(p) /\ (InMap(p) => file = Whole(p))

ClientParts(c) == PartsOf(c, client[c], PathOf(Conn(c)), given[Conn(c)])

\* What a request has reported is true.
ReportIsTrue(k) == IsTrue(client[k[1]].reports, k[2], PathOf(k), given[k])

\* The inductive invariant.
LoopInv ==
  /\ TypeOK
  /\ LookupInv
  /\ ServesOne
  /\ HandlerInv
  /\ \A k \in Conns : Asked(k) /\ Fresh(k)
  /\ \A c \in Clients : InOrder(c) /\ ClientParts(c)
  /\ \A k \in Conns : ReportIsTrue(k)

-----------------------------------------------------------------------------
(* Connections, paths, requests and answers.                               *)

LEMMA ConnFields ==
  /\ \A k \in Conns : k = <<k[1], k[2]>> /\ k[1] \in Clients /\ k[2] \in 1..Requests[k[1]]
  /\ \A c \in Clients : \A i \in 1..Requests[c] : <<c, i>> \in Conns
BY DEF Conns

\* The connection of a client's request is one of Conns, and no other client's.
LEMMA ConnIsOwn ==
  ASSUME TypeOK, NEW c \in Clients, ClientParts(c), client[c].at # "next"
  PROVE  Conn(c) \in Conns /\ Conn(c)[1] = c /\ Conn(c)[2] = client[c].i
<1>1. client[c] \in ClientType /\ Requests[c] \in Nat
  BY LoopAssumption DEF TypeOK
<1>2. client[c].i \in 1..Requests[c]
  BY <1>1 DEF ClientParts, PartsOf, ClientType
<1> QED
  BY <1>2, ConnFields DEF Conn

LEMMA PathInNat ==
  ASSUME workload \in Workloads, NEW k \in Conns
  PROVE  PathOf(k) \in Nat
<1>1. k[1] \in Clients /\ k[2] \in Nat \ {0}
  BY ConnFields, LoopAssumption
<1>2. PICK w : w = workload[k[1]]
  OBVIOUS
<1>3. w \in Seq(Nat) /\ w # <<>>
  BY <1>1, <1>2, LoopAssumption
<1>4. PICK n : n = Len(w)
  OBVIOUS
<1>5. n \in Nat \ {0}
  BY <1>3, <1>4, EmptySeq
<1>6. PICK j : j = ((k[2] - 1) % n) + 1
  OBVIOUS
<1>7. j \in 1..n
  <2>1. (k[2] - 1) % n \in 0..(n - 1)
    BY <1>1, <1>5
  <2> QED
    BY <1>5, <1>6, <2>1
<1>8. w[j] \in Nat
  BY <1>3, <1>4, <1>7, ElementOfSeq
<1> QED
  BY <1>2, <1>4, <1>6, <1>8 DEF PathOf

\* The path of an item of the content map is no malformed one, and its file has a
\* size.
LEMMA ItemFields ==
  ASSUME NEW p, InMap(p)
  PROVE  p \in Nat \ {0} /\ Size[p] \in Nat
<1>1. PICK i \in 1..Len(Items) : Items[i] = p
  BY DEF InMap, nitems
<1> QED
  BY <1>1, LoopAssumption, ItemsAssumption, ElementOfSeq

LEMMA LengthInNat ==
  \A p : Length(p) \in Nat /\ Status(p) \in {"ok", "notfound", "invalid"}
         /\ (Status(p) = "ok" <=> InMap(p)) /\ (Status(p) = "invalid" <=> p = 0)
BY ItemFields DEF Length, Status

LEMMA RequestFields ==
  ASSUME NEW p \in Nat
  PROVE  /\ Request(p) \in Seq(Units) /\ Len(Request(p)) = 2
         /\ Request(p)[1] = <<"get", 0, 0>> /\ Request(p)[2] = <<"path", p, 0>>
<1>1. <<"get", 0, 0>> \in Units /\ <<"path", p, 0>> \in Units
  BY DEF Units, Words
<1> QED
  BY <1>1 DEF Request

LEMMA AnswerFields ==
  ASSUME NEW p \in Nat
  PROVE  /\ Answer(p) \in Seq(Units) /\ Len(Answer(p)) = 2 + Length(p)
         /\ Answer(p)[1] = <<"getfile", 0, 0>>
         /\ Answer(p)[2] = <<Status(p), Length(p), 0>>
         /\ \A i \in 1..Length(p) : Answer(p)[2 + i] = <<"data", p, i>>
<1>2. PICK n \in Nat : n = Length(p)
  BY LengthInNat
<1>3. PICK s \in {"ok", "notfound", "invalid"} : s = Status(p)
  BY LengthInNat
<1>4. Answer(p) = [i \in 1..(2 + n) |->
                     IF i = 1 THEN <<"getfile", 0, 0>>
                     ELSE IF i = 2 THEN <<s, n, 0>> ELSE <<"data", p, i - 2>>]
  BY <1>2, <1>3 DEF Answer
<1>5. /\ <<"getfile", 0, 0>> \in Units /\ <<s, n, 0>> \in Units
      /\ \A i \in 3..(2 + n) : <<"data", p, i - 2>> \in Units
  BY DEF Units, Words
<1>6. ASSUME NEW i \in 1..(2 + n)
      PROVE  Answer(p)[i] \in Units
  BY <1>4, <1>5
<1>7. DOMAIN Answer(p) = 1..(2 + n)
  BY <1>4
<1>8. Answer(p) \in [1..(2 + n) -> Units]
  BY <1>4, <1>6
<1>9. 2 + n \in Nat
  OBVIOUS
<1>10. Answer(p) \in Seq(Units) /\ Len(Answer(p)) = 2 + n
  BY <1>8, <1>9
<1>11. Answer(p)[1] = <<"getfile", 0, 0>> /\ Answer(p)[2] = <<s, n, 0>>
  BY <1>4
<1>12. ASSUME NEW i \in 1..n
       PROVE  Answer(p)[2 + i] = <<"data", p, i>>
  <2>1. PICK j : j = 2 + i
    OBVIOUS
  <2>2. j \in 3..(2 + n) /\ j - 2 = i
    BY <2>1
  <2> QED
    BY <1>4, <2>1, <2>2
<1> QED
  BY <1>2, <1>3, <1>10, <1>11, <1>12

\* The header and the turns of the handler are the answer, from the beginning.
LEMMA HeaderFollows ==
  ASSUME NEW p \in Nat,
         NEW s \in {"ok", "notfound", "invalid", "error"}, NEW n \in Nat
  PROVE  /\ Header(s, n) \in Seq(Units) /\ Len(Header(s, n)) = 2
         /\ s = Status(p) /\ n = Length(p) => Follows(Header(s, n), Answer(p), 0)
<1>1. <<"getfile", 0, 0>> \in Units /\ <<s, n, 0>> \in Units
  BY DEF Units, Words
<1>2. PICK h : h = Header(s, n)
  OBVIOUS
<1>3. h \in Seq(Units) /\ Len(h) = 2 /\ h[1] = <<"getfile", 0, 0>> /\ h[2] = <<s, n, 0>>
  BY <1>1, <1>2 DEF Header
<1>4. ASSUME s = Status(p), n = Length(p)
      PROVE  Follows(h, Answer(p), 0)
  <2>1. /\ Len(Answer(p)) = 2 + n
        /\ Answer(p)[1] = <<"getfile", 0, 0>> /\ Answer(p)[2] = <<s, n, 0>>
    BY <1>4, AnswerFields
  <2>2. \A i \in 1..2 : h[i] = Answer(p)[i]
    BY <1>3, <2>1
  <2> QED
    BY <1>3, <2>1, <2>2 DEF Follows
<1> QED
  BY <1>2, <1>3, <1>4

LEMMA DataFollows ==
  ASSUME NEW p \in Nat,
         NEW from \in Nat, NEW n \in Nat, from + n <= Length(p)
  PROVE  /\ Data(p, from, n) \in Seq(Units) /\ Len(Data(p, from, n)) = n
         /\ Follows(Data(p, from, n), Answer(p), 2 + from)
<1>2. PICK q : q = Data(p, from, n)
  OBVIOUS
<1>3. \A i \in 1..n : <<"data", p, from + i>> \in Units
  BY DEF Units, Words
<1>4. q \in Seq(Units) /\ Len(q) = n /\ \A i \in 1..n : q[i] = <<"data", p, from + i>>
  <2>1. q = [i \in 1..n |-> <<"data", p, from + i>>]
    BY <1>2 DEF Data
  <2>2. q \in [1..n -> Units]
    BY <1>3, <2>1
  <2>3. q \in Seq(Units) /\ Len(q) = n
    BY <2>2
  <2> QED
    BY <2>1, <2>3
<1>5. PICK len \in Nat : len = Length(p)
  BY LengthInNat
<1>6. Len(Answer(p)) = 2 + len /\ \A i \in 1..len : Answer(p)[2 + i] = <<"data", p, i>>
  BY <1>5, AnswerFields
<1>7. ASSUME NEW i \in 1..n
      PROVE  q[i] = Answer(p)[(2 + from) + i]
  <2>1. PICK j : j = from + i
    OBVIOUS
  <2>2. j \in 1..len /\ 2 + j = (2 + from) + i
    BY <1>5, <2>1
  <2> QED
    BY <1>4, <1>6, <2>1, <2>2
<1> QED
  BY <1>2, <1>4, <1>5, <1>6, <1>7 DEF Follows

-----------------------------------------------------------------------------
(* What a step leaves as it is.                                            *)

\* The paths of the requests are what they were.
LEMMA SamePaths ==
  ASSUME workload' = workload
  PROVE  \A k : PathOf(k)' = PathOf(k)
BY DEF PathOf

\* A connection that a step of the server does not touch.
LEMMA ConnStays ==
  ASSUME NEW k \in Conns, Asked(k), workload' = workload, client' = client,
         stream'[k] = stream[k], Busy => gfs.conn # k, Busy' => gfs'.conn # k
  PROVE  /\ Asked(k)'
         /\ \A c \in Clients : Conn(c) = k /\ InOrder(c) => InOrder(c)'
<1>1. Awaited(k)' = Awaited(k) /\ Heard(k)' = Heard(k)
  BY DEF Awaited, Heard, Busy
<1>2. PathOf(k)' = PathOf(k)
  BY SamePaths
<1>3. Asked(k)'
  BY <1>1, <1>2 DEF Asked
<1>4. ASSUME NEW c \in Clients, Conn(c) = k, InOrder(c)
      PROVE  InOrder(c)'
  <2>1. Conn(c)' = k /\ Waiting(c)' = Waiting(c) /\ Taken(c)' = Taken(c)
    BY <1>4 DEF Conn, Waiting, Taken
  <2>2. Waiting(c)' =>
          /\ stream'[k].state["client"] = "open"
          /\ Follows(stream'[k].toward["client"], Answer(PathOf(k)'), Taken(c)')
          /\ stream'[k].state["server"] = "pending" =>
               Taken(c)' + Len(stream'[k].toward["client"]) = 0
    BY <1>2, <1>4, <2>1 DEF InOrder
  <2> QED
    BY <2>1, <2>2 DEF InOrder
<1> QED
  BY <1>3, <1>4

\* A step of the server.
LEMMA ServerStep ==
  ASSUME LoopInv, TypeOK', LookupInv', ServesOne', HandlerInv',
         client' = client, given' = given, workload' = workload,
         \A k \in Conns :
           /\ stream[k].state["server"] = "none" => stream'[k].state["server"] = "none"
           /\ \/ /\ stream'[k] = stream[k]
                 /\ (Busy => gfs.conn # k) /\ (Busy' => gfs'.conn # k)
              \/ /\ Asked(k)'
                 /\ \A c \in Clients : Waiting(c) /\ Conn(c) = k => InOrder(c)'
  PROVE  LoopInv'
<1>1. ASSUME NEW k \in Conns
      PROVE  Asked(k)' /\ Fresh(k)'
  <2>1. Asked(k)'
    BY ConnStays DEF LoopInv
  <2>2. Fresh(k)'
    BY DEF LoopInv, Fresh
  <2> QED
    BY <2>1, <2>2
<1>2. ASSUME NEW c \in Clients
      PROVE  InOrder(c)' /\ ClientParts(c)'
  <2>1. ClientParts(c)'
    <3>1. PathOf(Conn(c))' = PathOf(Conn(c)) /\ Conn(c)' = Conn(c)
      BY SamePaths DEF Conn
    <3> QED
      BY <3>1 DEF LoopInv, ClientParts
  <2>2. InOrder(c)'
    <3>1. CASE Waiting(c)
      <4>1. Conn(c) \in Conns
        BY <3>1, ConnIsOwn DEF LoopInv, Waiting
      <4> QED
        BY <3>1, <4>1, ConnStays DEF LoopInv
    <3>2. CASE ~Waiting(c)
      <4>1. ~Waiting(c)'
        BY <3>2 DEF Waiting
      <4> QED
        BY <4>1 DEF InOrder
    <3> QED
      BY <3>1, <3>2
  <2> QED
    BY <2>1, <2>2
<1>3. \A k \in Conns : ReportIsTrue(k)'
  BY SamePaths DEF LoopInv, ReportIsTrue
<1> QED
  BY <1>1, <1>2, <1>3 DEF LoopInv

\* A step of client c on its connection k.
LEMMA ClientStep ==
  ASSUME LoopInv, NEW c \in Clients, TypeOK', UNCHANGED serverVars, workload' = workload,
         \A d \in Clients \ {c} : client'[d] = client[d],
         NEW k \in Conns, k[1] = c,
         \A j \in Conns \ {k} : stream'[j] = stream[j] /\ given'[j] = given[j],
         \/ stream'[k].state["server"] = stream[k].state["server"]
         \/ /\ stream[k].state["server"] \notin {"open", "shut"}
            /\ stream'[k].state["server"] \notin {"open", "shut"},
         stream[k].reset /\ stream[k].state["server"] # "none" => stream'[k].reset,
         \A j \in Conns : j[1] = c => Asked(j)' /\ Fresh(j)' /\ ReportIsTrue(j)',
         InOrder(c)', ClientParts(c)'
  PROVE  LoopInv'
<1>1. gfs' = gfs /\ ctx' = ctx /\ lookup' = lookup
  BY DEF serverVars
<1>2. LookupInv'
  <2>1. [LookupNext \/ \E l \in Int : Lookup(l)]_lookup
    BY <1>1
  <2> QED
    BY <2>1, LookupInvStep DEF LoopInv
<1>3. ServesOne'
  <2>1. \A j \in Conns :
          \/ stream'[j].state["server"] = stream[j].state["server"]
          \/ /\ stream[j].state["server"] \notin {"open", "shut"}
             /\ stream'[j].state["server"] \notin {"open", "shut"}
    OBVIOUS
  <2>2. Busy' = Busy
    BY <1>1 DEF Busy
  <2>3. Busy => gfs.conn \in Conns
    BY DEF LoopInv, ServesOne
  <2>4. /\ gfs.conn \in Conns /\ stream[gfs.conn].state["server"] = "open" =>
             stream'[gfs.conn].state["server"] = "open"
        /\ gfs.conn \in Conns /\ stream[gfs.conn].state["server"] = "shut" =>
             stream'[gfs.conn].state["server"] = "shut"
    BY <2>1
  <2> QED
    BY <1>1, <2>2, <2>3, <2>4 DEF LoopInv, ServesOne, Busy
<1>4. HandlerInv'
  <2>1. gfs.at = "sending" => gfs.conn \in Conns /\ stream[gfs.conn].state["server"] = "open"
    BY DEF LoopInv, ServesOne, Busy
  <2>2. gfs.at = "sending" /\ stream[gfs.conn].reset => stream'[gfs.conn].reset
    BY <2>1
  <2>3. key' = key /\ search' = search /\ fildes' = fildes
    BY <1>1 DEF lookup
  <2>4. \A j : PathOf(j)' = PathOf(j)
    BY SamePaths
  <2>5. HandlerInv
    BY DEF LoopInv
  <2> QED
    BY <1>1, <2>2, <2>3, <2>4, <2>5 DEF HandlerInv, Found, SendsNow
<1>5. ASSUME NEW j \in Conns, j[1] # c
      PROVE  Asked(j)' /\ Fresh(j)' /\ ReportIsTrue(j)'
  <2>1. stream'[j] = stream[j] /\ given'[j] = given[j] /\ client'[j[1]] = client[j[1]]
    BY <1>5, ConnFields
  <2>2. Awaited(j)' = Awaited(j) /\ Heard(j)' = Heard(j) /\ PathOf(j)' = PathOf(j)
    BY <1>1, <2>1, SamePaths DEF Awaited, Heard
  <2>3. Asked(j) /\ Fresh(j) /\ ReportIsTrue(j)
    BY DEF LoopInv
  <2>6. Asked(j)'
    BY <2>1, <2>2, <2>3 DEF Asked
  <2>7. Fresh(j)'
    BY <2>1, <2>3 DEF Fresh
  <2>4. ReportIsTrue(j)'
    BY <2>1, <2>2, <2>3 DEF ReportIsTrue
  <2> QED
    BY <2>4, <2>6, <2>7
<1>6. ASSUME NEW d \in Clients, d # c
      PROVE  InOrder(d)' /\ ClientParts(d)'
  <2>1. client'[d] = client[d] /\ Conn(d)' = Conn(d)
    BY <1>6 DEF Conn
  <2>2. Conn(d) # k
    BY <1>6 DEF Conn
  <2>3. PathOf(Conn(d))' = PathOf(Conn(d))
    BY <2>1, SamePaths
  <2>4. client[d].at # "next" => Conn(d) \in Conns
    BY ConnIsOwn DEF LoopInv
  <2>5. ClientParts(d)'
    <3>1. ClientParts(d)
      BY DEF LoopInv
    <3>2. CASE client[d].at # "next"
      <4>1. given'[Conn(d)] = given[Conn(d)]
        BY <2>2, <2>4, <3>2
      <4> QED
        BY <2>1, <2>3, <3>1, <4>1 DEF ClientParts
    <3>3. CASE client[d].at = "next"
      BY <2>1, <3>1, <3>3 DEF ClientParts, PartsOf
    <3> QED
      BY <3>2, <3>3
  <2>6. InOrder(d)'
    <3>1. CASE Waiting(d)
      <4>1. stream'[Conn(d)] = stream[Conn(d)]
        BY <2>2, <2>4, <3>1 DEF Waiting
      <4>2. Taken(d)' = Taken(d) /\ Handed' = Handed /\ Busy' = Busy /\ Waiting(d)' = Waiting(d)
        BY <1>1, <2>1 DEF Taken, Handed, Turn, SendsNow, Busy, Waiting
      <4>3. InOrder(d)
        BY DEF LoopInv
      <4> QED
        BY <1>1, <2>1, <2>3, <4>1, <4>2, <4>3 DEF InOrder
    <3>2. CASE ~Waiting(d)
      BY <2>1, <3>2 DEF Waiting, InOrder
    <3> QED
      BY <3>1, <3>2
  <2> QED
    BY <2>5, <2>6
<1>7. \A j \in Conns : Asked(j)' /\ Fresh(j)' /\ ReportIsTrue(j)'
  BY <1>5
<1>8. \A d \in Clients : InOrder(d)' /\ ClientParts(d)'
  BY <1>6
<1> QED
  BY <1>2, <1>3, <1>4, <1>7, <1>8 DEF LoopInv

\* The other requests of a client whose step is one of request k.
LEMMA OtherRequests ==
  ASSUME LoopInv, NEW c \in Clients, UNCHANGED serverVars, workload' = workload,
         NEW k \in Conns, k = <<c, client[c].i>>, client'[c].i = client[c].i,
         \/ client'[c].reports = client[c].reports
         \/ \E r : client'[c].reports = Append(client[c].reports, r),
         Len(client[c].reports) = client[c].i - 1, client[c] \in ClientType,
         \A j \in Conns \ {k} : stream'[j] = stream[j] /\ given'[j] = given[j]
  PROVE  \A j \in Conns : j[1] = c /\ j # k => Asked(j)' /\ Fresh(j)' /\ ReportIsTrue(j)'
<1> SUFFICES ASSUME NEW j \in Conns, j[1] = c, j # k
             PROVE  Asked(j)' /\ Fresh(j)' /\ ReportIsTrue(j)'
  OBVIOUS
<1>1. gfs' = gfs /\ stream'[j] = stream[j] /\ given'[j] = given[j]
  BY DEF serverVars
<1>2. j[2] # client[c].i /\ j[2] \in Nat
  BY ConnFields, LoopAssumption
<1>3. Awaited(j)' = Awaited(j) /\ Heard(j)' = Heard(j) /\ PathOf(j)' = PathOf(j)
  BY <1>1, SamePaths DEF Awaited, Heard
<1>4. Asked(j)'
  <2>1. Asked(j)
    BY DEF LoopInv
  <2>2. client'[j[1]].i # j[2]
    BY <1>2
  <2> QED
    BY <1>1, <1>3, <2>1, <2>2 DEF Asked
<1>5. Fresh(j)'
  BY <1>1, <1>2 DEF LoopInv, Fresh
<1>6. ReportIsTrue(j)'
  <2>2. PICK old, new : old = client[c].reports /\ new = client'[c].reports
    OBVIOUS
  <2>3. /\ j[2] <= Len(new) => j[2] <= Len(old) /\ new[j[2]] = old[j[2]]
    <3>1. CASE new = old
      BY <3>1
    <3>2. CASE \E r : new = Append(old, r)
      <4>1. Len(old) = client[c].i - 1 /\ Len(old) \in Nat /\ client[c].i \in Nat
        BY <2>2 DEF ClientType
      <4>2. old \in Seq({0, -1} \X Words)
        BY <2>2 DEF ClientType
      <4>3. j[2] <= Len(new) => j[2] \in 1..Len(old)
        <5>1. Len(new) = Len(old) + 1
          BY <3>2, <4>2
        <5>2. j[2] > 0
          BY ConnFields, LoopAssumption
        <5> QED
          BY <1>2, <4>1, <5>1, <5>2
      <4>4. \A l \in 1..Len(old) : new[l] = old[l]
        BY <3>2, <4>2
      <4> QED
        BY <4>1, <4>3, <4>4
    <3> QED
      BY <2>2, <3>1, <3>2
  <2>4. ReportIsTrue(j)
    BY DEF LoopInv
  <2> QED
    BY <1>1, <1>2, <1>3, <2>2, <2>3, <2>4 DEF ReportIsTrue, IsTrue
<1> QED
  BY <1>4, <1>5, <1>6

-----------------------------------------------------------------------------
(* Listening, and the end of the server.                                   *)

LEMMA NobodyIsConn ==
  NoConn \notin Conns
BY LoopAssumption DEF Conns

LEMMA SearchStays ==
  ASSUME LookupInv, UNCHANGED lookup
  PROVE  LookupInv' /\ search' = search /\ fildes' = fildes /\ key' = key
<1>1. [LookupNext \/ \E l \in Int : Lookup(l)]_lookup
  OBVIOUS
<1>2. LookupInv'
  BY <1>1, LookupInvStep
<1> QED
  BY <1>2 DEF lookup

\* The server has no connection, before and after.
LEMMA IdleStep ==
  ASSUME LoopInv, gfs' \in ServerType, ~Busy, gfs.at # "killed", ~Busy', gfs'.at # "killed",
         gfs'.conn = gfs.conn, UNCHANGED <<stream, ctx, lookup, clients>>
  PROVE  LoopInv'
<1>1. client' = client /\ given' = given /\ workload' = workload /\ stream' = stream /\ ctx' = ctx
  BY DEF clients, files
<1>2. TypeOK'
  BY <1>1 DEF LoopInv, TypeOK
<1>3. LookupInv'
  BY SearchStays DEF LoopInv
<1>4. ServesOne'
  BY <1>1 DEF LoopInv, ServesOne, Busy
<1>5. HandlerInv'
  BY DEF HandlerInv, Found, SendsNow, Busy
<1> QED
  BY <1>1, <1>2, <1>3, <1>4, <1>5, ServerStep

LEMMA CreateAndBindKeeps ==
  ASSUME LoopInv, CreateAndBind
  PROVE  LoopInv'
<1>1. gfs \in ServerType
  BY DEF LoopInv, TypeOK
<1>2. /\ gfs' \in ServerType /\ gfs'.at \in {"bind", "listen", "unlisten"}
      /\ gfs'.conn = gfs.conn
  <2>1. PICK a \in Nat : a = gfs.address + 1
    BY <1>1 DEF ServerType
  <2>2. \/ gfs' = [gfs EXCEPT !.at = "listen", !.socket = "bound"]
        \/ gfs.at = "bind" /\ gfs' = [gfs EXCEPT !.address = a]
        \/ gfs' = [gfs EXCEPT !.at = "unlisten"]
    BY <2>1 DEF CreateAndBind
  <2> QED
    BY <1>1, <2>2 DEF ServerType
<1>3. ~Busy /\ gfs.at # "killed" /\ ~Busy'
  BY <1>2 DEF CreateAndBind, Busy
<1> QED
  BY <1>2, <1>3, IdleStep DEF CreateAndBind

LEMMA ListenKeeps ==
  ASSUME LoopInv, Listen
  PROVE  LoopInv'
<1>1. gfs \in ServerType
  BY DEF LoopInv, TypeOK
<1>2. /\ gfs' \in ServerType /\ gfs'.at \in {"select", "unlisten"}
      /\ gfs'.conn = gfs.conn
  BY <1>1 DEF Listen, ServerType
<1>3. ~Busy /\ gfs.at # "killed" /\ ~Busy'
  BY <1>2 DEF Listen, Busy
<1> QED
  BY <1>2, <1>3, IdleStep DEF Listen

LEMMA StopKeeps ==
  ASSUME LoopInv, Stop
  PROVE  LoopInv'
<1>1. gfs \in ServerType
  BY DEF LoopInv, TypeOK
<1>2. gfs' \in ServerType /\ gfs'.at = "unlisten" /\ gfs'.conn = gfs.conn
  BY <1>1 DEF Stop, ServerType
<1>3. ~Busy /\ gfs.at # "killed" /\ ~Busy'
  BY <1>2 DEF Stop, Busy
<1> QED
  BY <1>2, <1>3, IdleStep DEF Stop

\* The server accepts no more: no connection is pending, and what its clients have
\* sent or not yet received is all there will be.
LEMMA ServerEnds ==
  ASSUME LoopInv, gfs' \in ServerType, gfs'.at \in {"done", "killed"},
         UNCHANGED <<ctx, lookup, clients>>, stream' \in [Conns -> Streams(Units)],
         gfs'.at = "done" => gfs.at = "unlisten" /\ gfs'.conn = gfs.conn,
         \A k \in Conns :
           /\ stream'[k].state["server"] # "pending"
           /\ stream'[k].state["server"] \in {"none", "open", "shut"} =>
                stream'[k].state["server"] = stream[k].state["server"]
           /\ stream[k].state["server"] = "none" => stream'[k].state["server"] = "none"
           /\ stream'[k].state["client"] = stream[k].state["client"]
           /\ stream'[k].toward["client"] = stream[k].toward["client"]
  PROVE  LoopInv'
<1>1. client' = client /\ given' = given /\ workload' = workload /\ ctx' = ctx
  BY DEF clients, files
<1>2. TypeOK'
  BY <1>1 DEF LoopInv, TypeOK
<1>3. LookupInv'
  BY SearchStays DEF LoopInv
<1>4. ServesOne'
  <2>1. ServesOne
    BY DEF LoopInv
  <2> QED
    BY <1>1, <2>1 DEF ServesOne, Busy
<1>5. HandlerInv'
  BY DEF HandlerInv, Found, SendsNow
<1>6. ~Busy'
  BY DEF Busy
<1>7. ASSUME NEW k \in Conns
      PROVE  Asked(k)' /\ \A c \in Clients : Waiting(c) /\ Conn(c) = k => InOrder(c)'
  <2>1. Asked(k)'
    BY <1>6 DEF Asked, Awaited, Busy
  <2>2. ASSUME NEW c \in Clients, Waiting(c), Conn(c) = k
        PROVE  InOrder(c)'
    <3>1. /\ Conn(c)' = k /\ Waiting(c)' = Waiting(c) /\ Taken(c)' = Taken(c)
          /\ PathOf(k)' = PathOf(k)
      BY <1>1, <2>2, SamePaths DEF Conn, Waiting, Taken
    <3>2. stream[k].state["client"] = "open"
          /\ Follows(stream[k].toward["client"], Answer(PathOf(k)), Taken(c))
      BY <2>2 DEF LoopInv, InOrder
    <3> QED
      BY <1>6, <3>1, <3>2 DEF InOrder
  <2> QED
    BY <2>1, <2>2
<1> QED
  BY <1>1, <1>2, <1>3, <1>4, <1>5, <1>7, ServerStep

LEMMA UnlistenKeeps ==
  ASSUME LoopInv, Unlisten
  PROVE  LoopInv'
<1>1. gfs \in ServerType /\ stream \in [Conns -> Streams(Units)]
  BY DEF LoopInv, TypeOK
<1>2. gfs' \in ServerType /\ gfs'.at = "done" /\ gfs'.conn = gfs.conn
  BY <1>1 DEF Unlisten, ServerType
<1>3. ASSUME NEW k \in Conns
      PROVE  /\ stream'[k] \in Streams(Units)
             /\ stream'[k].state["server"] # "pending"
             /\ stream'[k].state["server"] \in {"none", "open", "shut"} =>
                  stream'[k].state["server"] = stream[k].state["server"]
             /\ stream[k].state["server"] = "none" => stream'[k].state["server"] = "none"
             /\ stream'[k].state["client"] = stream[k].state["client"]
             /\ stream'[k].toward["client"] = stream[k].toward["client"]
  <2>1. stream'[k] = Unlistened(stream[k])
    BY DEF Unlisten
  <2>2. CASE IsPending(stream[k])
    BY <1>1, <2>1, <2>2, UnlistenedFields DEF IsPending
  <2>3. CASE ~IsPending(stream[k])
    BY <1>1, <2>1, <2>3, UnlistenedFields DEF IsPending
  <2> QED
    BY <2>2, <2>3
<1>4. stream' \in [Conns -> Streams(Units)]
  BY <1>3 DEF Unlisten
<1>5. gfs.at = "unlisten" /\ UNCHANGED <<ctx, lookup, clients>>
  BY DEF Unlisten
<1> QED
  BY <1>2, <1>3, <1>4, <1>5, ServerEnds

LEMMA KilledKeeps ==
  ASSUME LoopInv, Killed, UNCHANGED <<ctx, lookup, clients>>
  PROVE  LoopInv'
<1>1. gfs \in ServerType /\ stream \in [Conns -> Streams(Units)]
  BY DEF LoopInv, TypeOK
<1>2. gfs' \in ServerType /\ gfs'.at = "killed"
  BY <1>1 DEF Killed, ServerType
<1>3. ASSUME NEW k \in Conns
      PROVE  /\ stream'[k] \in Streams(Units)
             /\ stream'[k].state["server"] \in {"none", "closed"}
             /\ stream[k].state["server"] = "none" <=> stream'[k].state["server"] = "none"
             /\ stream'[k].state["client"] = stream[k].state["client"]
             /\ stream'[k].toward["client"] = stream[k].toward["client"]
  <2>1. stream'[k] = Abandoned(stream[k])
    BY DEF Killed
  <2> QED
    BY <1>1, <2>1, AbandonedFields
<1>4. stream' \in [Conns -> Streams(Units)]
  BY <1>3 DEF Killed
<1> QED
  BY <1>2, <1>3, <1>4, ServerEnds

-----------------------------------------------------------------------------
(* Accepting, and reading a request.                                       *)

\* A step of the server that is one of connection k, which then is as in j.
LEMMA ServedStep ==
  ASSUME LoopInv, UNCHANGED clients, NEW k \in Conns, NEW j \in Streams(Units),
         gfs.conn \in {k, NoConn}, gfs.at # "killed",
         gfs' \in ServerType, ctx' \in CtxType, LookupInv', HandlerInv',
         stream' = [stream EXCEPT ![k] = j],
         stream[k].state["server"] # "none", gfs'.at # "killed",
         IF Busy' THEN /\ gfs'.conn = k
                       /\ j.state["server"] = IF gfs'.at = "drain" THEN "shut" ELSE "open"
         ELSE gfs'.conn = NoConn,
         Asked(k)', \A c \in Clients : Waiting(c) /\ Conn(c) = k => InOrder(c)'
  PROVE  LoopInv'
<1>1. client' = client /\ given' = given /\ workload' = workload
  BY DEF clients, files
<1>2. stream \in [Conns -> Streams(Units)] /\ ServesOne
  BY DEF LoopInv, TypeOK
<1>3. stream'[k] = j /\ \A l \in Conns \ {k} : stream'[l] = stream[l]
  BY <1>2
<1>4. TypeOK'
  BY <1>1, <1>2 DEF LoopInv, TypeOK
<1>5. ServesOne'
  <2>1. Busy' => /\ gfs'.conn = k
                 /\ stream'[k].state["server"] = IF gfs'.at = "drain" THEN "shut" ELSE "open"
    BY <1>3
  <2> QED
    BY <2>1 DEF ServesOne, Busy
<1>6. ASSUME NEW l \in Conns, l # k
      PROVE  stream'[l] = stream[l] /\ (Busy => gfs.conn # l) /\ (Busy' => gfs'.conn # l)
  BY <1>3, <1>6, NobodyIsConn
<1> QED
  BY <1>1, <1>4, <1>5, <1>6, ServerStep

\* A client that waits for the answer on the connection that is served.
LEMMA StillInOrder ==
  ASSUME LoopInv, UNCHANGED clients, NEW c \in Clients, Waiting(c), NEW k \in Conns, Conn(c) = k,
         stream'[k].state["client"] = stream[k].state["client"],
         Follows(stream'[k].toward["client"], Answer(PathOf(k)), Taken(c)),
         stream'[k].state["server"] # "pending",
         Busy' /\ gfs'.at # "drain" /\ ~stream'[k].reset =>
           /\ Taken(c) + Len(stream'[k].toward["client"]) = Handed'
           /\ gfs'.at = "sending" => Follows(gfs'.out, Answer(PathOf(k)), Handed')
  PROVE  InOrder(c)'
<1>1. client' = client /\ workload' = workload
  BY DEF clients, files
<1>2. /\ Conn(c)' = k /\ Waiting(c)' = Waiting(c) /\ Taken(c)' = Taken(c)
      /\ PathOf(k)' = PathOf(k)
  BY <1>1, SamePaths DEF Conn, Waiting, Taken
<1>3. stream[k].state["client"] = "open"
  BY DEF LoopInv, InOrder
<1> QED
  BY <1>2, <1>3 DEF InOrder

\* Nothing more has to be heard of a connection.
LEMMA NothingAwaited ==
  ASSUME NEW k, stream'[k].state["server"] # "pending", gfs'.at # "reading"
  PROVE  Asked(k)'
BY DEF Asked, Awaited

LEMMA AcceptKeeps ==
  ASSUME LoopInv, NEW k \in Conns, Accept(k)
  PROVE  LoopInv'
<1>1. gfs \in ServerType /\ ctx \in CtxType /\ stream \in [Conns -> Streams(Units)]
  BY DEF LoopInv, TypeOK
<1>2. /\ gfs' \in ServerType /\ gfs'.at = "reading" /\ gfs'.conn = k /\ gfs'.text = <<>>
      /\ gfs.at = "select" /\ gfs.conn = NoConn
  <2>1. <<>> \in Seq(Units)
    BY EmptySeq
  <2> QED
    BY <1>1, <2>1 DEF Accept, ServerType, LoopInv, ServesOne, Busy
<1>3. PICK j : j = Accepted(stream[k])
  OBVIOUS
<1>4. /\ j \in Streams(Units) /\ j.state["server"] = "open"
      /\ j.state["client"] = stream[k].state["client"]
      /\ j.toward = stream[k].toward /\ j.reset = stream[k].reset
  BY <1>1, <1>3, AcceptedFields
<1>5. stream' = [stream EXCEPT ![k] = j] /\ stream'[k] = j /\ UNCHANGED <<ctx, lookup, clients>>
  BY <1>1, <1>3 DEF Accept
<1>6. stream[k].state["server"] = "pending"
  BY DEF Accept, IsPending
<1>7. LookupInv'
  BY <1>5, SearchStays DEF LoopInv
<1>8. HandlerInv'
  BY <1>2 DEF HandlerInv, Found, SendsNow
<1>9. Asked(k)'
  <2>1. Heard(k) = <<>> /\ Heard(k)' = <<>> /\ Awaited(k)
    BY <1>2, <1>6 DEF Heard, Awaited
  <2>2. Asked(k) /\ client' = client /\ PathOf(k)' = PathOf(k)
    BY <1>5, SamePaths DEF LoopInv, clients
  <2> QED
    BY <1>4, <1>5, <2>1, <2>2 DEF Asked
<1>10. ASSUME NEW c \in Clients, Waiting(c), Conn(c) = k
       PROVE  InOrder(c)'
  <2>1. /\ Follows(stream[k].toward["client"], Answer(PathOf(k)), Taken(c))
        /\ Taken(c) + Len(stream[k].toward["client"]) = 0
    BY <1>6, <1>10 DEF LoopInv, InOrder
  <2>2. Handed' = 0
    BY <1>2 DEF Handed, SendsNow
  <2> QED
    BY <1>2, <1>4, <1>5, <1>10, <2>1, <2>2, StillInOrder
<1>11. Busy'
  BY <1>2 DEF Busy
<1> QED
  BY <1>1, <1>2, <1>4, <1>5, <1>6, <1>7, <1>8, <1>9, <1>10, <1>11, ServedStep

LEMMA ReadRequestKeeps ==
  ASSUME LoopInv, ReadRequest
  PROVE  LoopInv'
<1>1. gfs \in ServerType /\ ctx \in CtxType /\ stream \in [Conns -> Streams(Units)]
      /\ workload \in Workloads
  BY DEF LoopInv, TypeOK
<1>2. PICK k \in Conns : k = gfs.conn
  BY DEF LoopInv, ServesOne, Busy, ReadRequest
<1>3. gfs.at = "reading" /\ UNCHANGED clients
  BY DEF ReadRequest
<1>4. PICK p \in Nat : p = PathOf(k)
  BY <1>1, PathInNat
<1>5. PICK r \in Receives(stream[k], "server", Chunk) :
        LET text == gfs.text \o r.data IN
        /\ stream' = [stream EXCEPT ![k] = r.stream]
        /\ \/ /\ r.ret < 0
              /\ gfs' = Sending("error", Header("error", 0))
              /\ UNCHANGED <<ctx, lookup>>
           \/ /\ \/ r.ret = 0
                 \/ Len(text) > 2
                 \/ Len(text) = 2 /\ text[2] = <<"path", 0, 0>>
              /\ gfs' = Sending("error", Header("invalid", 0))
              /\ UNCHANGED <<ctx, lookup>>
           \/ /\ r.ret > 0 /\ Len(text) < 2
              /\ gfs' = [gfs EXCEPT !.text = text]
              /\ UNCHANGED <<ctx, lookup>>
           \/ /\ r.ret > 0 /\ Len(text) = 2 /\ text[2] # <<"path", 0, 0>>
              /\ gfs' = [gfs EXCEPT !.at = "lookup", !.text = text]
              /\ ctx' = [NoCtx EXCEPT !.live = TRUE]
              /\ Lookup(text[2][2])
  BY <1>2 DEF ReadRequest
<1>6. PICK text, j : text = gfs.text \o r.data /\ j = r.stream
  OBVIOUS
<1>7. /\ j \in Streams(Units) /\ j.reset = stream[k].reset
      /\ j.state["client"] = stream[k].state["client"]
      /\ j.state["server"] = stream[k].state["server"]
      /\ j.toward["client"] = stream[k].toward["client"]
      /\ text \in Seq(Units) /\ Len(text) <= 2 /\ Follows(text, Request(PathOf(k)), 0)
      /\ Follows(j.toward["server"], Request(PathOf(k)), Len(text))
      /\ Len(text) + Len(j.toward["server"]) = Len(gfs.text) + Len(stream[k].toward["server"])
      /\ r.ret = 0 => j.state["client"] \in {"shut", "closed"}
      /\ r.ret < 0 => j.reset
      /\ r.ret \in Int
      /\ Len(text) = 2 => text[2] = <<"path", PathOf(k), 0>>
  <2>1. stream[k] \in Streams(Units) /\ gfs \in ServerType /\ workload \in Workloads
    BY <1>1
  <2>2. "server" \in Sides /\ Peer("server") = "client" /\ Chunk \in Nat \ {0}
    BY LoopAssumption DEF Sides, Peer
  <2>3. /\ j \in Streams(Units) /\ j.state = stream[k].state /\ j.reset = stream[k].reset
        /\ j.toward["client"] = stream[k].toward["client"]
        /\ r.data \in Seq(Units) /\ Joins(stream[k].toward["server"], r.data, j.toward["server"])
        /\ \/ r.ret \in 1..Chunk
           \/ r.ret = 0 /\ stream[k].state["client"] \in {"shut", "closed"}
           \/ r.ret = -1 /\ stream[k].reset
    <3>1. r \in Receives(stream[k], "server", Chunk) /\ j = r.stream
      BY <1>5, <1>6
    <3> QED
      BY <2>1, <2>2, <3>1, ReceivesFields
  <2>4. PICK u \in Seq(Units) : u = Request(PathOf(k))
    BY <2>1, PathInNat, RequestFields
  <2>5. Len(u) = 2 /\ u[2] = <<"path", PathOf(k), 0>>
    BY <2>1, <2>4, PathInNat, RequestFields
  <2>6. PICK old \in Seq(Units) : old = gfs.text
    BY <2>1 DEF ServerType
  <2>7. PICK in \in Seq(Units) : in = stream[k].toward["server"]
    BY <2>1, <2>2 DEF Streams
  <2>8. PICK rest \in Seq(Units) : rest = j.toward["server"]
    BY <2>2, <2>3 DEF Streams
  <2>9. Follows(old, u, 0) /\ Follows(in, u, 0 + Len(old))
    <3>1. Asked(k) /\ Awaited(k) /\ Heard(k) = old
      BY <1>2, <1>3, <2>6 DEF LoopInv, Awaited, Heard
    <3>2. 0 + Len(old) = Len(old)
      OBVIOUS
    <3> QED
      BY <2>4, <2>7, <3>1, <3>2 DEF Asked
  <2>10. Joins(in, r.data, rest) /\ Joins(text, old, r.data) /\ 0 \in Nat /\ r.data \in Seq(Units)
    <3>1. Joins(text, old, r.data)
      BY <1>6, <2>6 DEF Joins
    <3> QED
      BY <2>3, <2>7, <2>8, <3>1
  <2>11. /\ text \in Seq(Units) /\ Len(text) + Len(rest) = Len(old) + Len(in)
         /\ Follows(text, u, 0) /\ Follows(rest, u, 0 + Len(text))
    BY <2>9, <2>10, ReceiveMoves
  <2>12. Len(text) <= 2 /\ (Len(text) = 2 => text[2] = <<"path", PathOf(k), 0>>)
    <3>1. PICK n \in Nat : n = Len(text)
      BY <2>11
    <3>2. 0 + n <= 2 /\ \A i \in 1..n : text[i] = u[0 + i]
      BY <2>5, <2>11, <3>1 DEF Follows
    <3>3. n = 2 => text[2] = u[2]
      <4>1. 0 + 2 = 2 /\ 2 \in 1..2
        OBVIOUS
      <4> QED
        BY <3>2, <4>1
    <3> QED
      BY <2>5, <3>1, <3>2, <3>3
  <2>13. Follows(rest, u, Len(text))
    <3>1. 0 + Len(text) = Len(text)
      BY <2>11
    <3> QED
      BY <2>11, <3>1
  <2>14. r.ret \in Int
    BY <2>2, <2>3
  <2>15. (r.ret = 0 => j.state["client"] \in {"shut", "closed"}) /\ (r.ret < 0 => j.reset)
    BY <2>2, <2>3
  <2> QED
    BY <2>3, <2>4, <2>6, <2>7, <2>8, <2>11, <2>12, <2>13, <2>14, <2>15
<1>8. stream' = [stream EXCEPT ![k] = j] /\ stream'[k] = j
  BY <1>1, <1>5, <1>6
<1>9. j.state["server"] = "open"
  BY <1>2, <1>3, <1>7 DEF LoopInv, ServesOne, Busy
<1>10. ASSUME NEW c \in Clients, Waiting(c), Conn(c) = k
       PROVE  /\ j.state["client"] = "open"
              /\ Follows(j.toward["client"], Answer(p), Taken(c))
              /\ ~j.reset => Taken(c) + Len(j.toward["client"]) = 0
  <2>1. Handed = 0 /\ Busy /\ gfs.at # "drain"
    BY <1>3 DEF Handed, SendsNow, Busy
  <2>2. InOrder(c)
    BY DEF LoopInv
  <2> QED
    BY <1>2, <1>4, <1>7, <1>10, <2>1, <2>2 DEF InOrder
<1>11. ASSUME NEW s \in {"error", "invalid"}, gfs' = Sending("error", Header(s, 0)),
              UNCHANGED <<ctx, lookup>>,
              j.reset \/ j.state["client"] \in {"shut", "closed"} \/ (p = 0 /\ s = "invalid")
       PROVE  LoopInv'
  <2>1. PICK h \in Seq(Units) : h = Header(s, 0) /\ Len(h) = 2
    BY HeaderFollows, <1>4
  <2>2. /\ gfs' \in ServerType /\ gfs'.at = "sending" /\ gfs'.what = "error" /\ gfs'.out = h
        /\ gfs'.ok = TRUE /\ gfs'.conn = k
    BY <1>1, <1>2, <1>11, <2>1 DEF Sending, ServerType
  <2>3. LookupInv'
    BY <1>11, SearchStays DEF LoopInv
  <2>4. HandlerInv'
    BY <2>2 DEF HandlerInv, Found, SendsNow
  <2>5. Asked(k)'
    BY <1>8, <1>9, <2>2, NothingAwaited
  <2>6. Handed' = 0
    BY <2>1, <2>2 DEF Handed, SendsNow
  <2>7. ASSUME NEW c \in Clients, Waiting(c), Conn(c) = k
        PROVE  InOrder(c)'
    <3>1. ~j.reset => Follows(h, Answer(p), 0)
      <4>1. ~j.reset => p = 0 /\ s = "invalid"
        BY <1>10, <1>11, <2>7
      <4>2. Status(0) = "invalid" /\ Length(0) = 0
        BY ItemFields DEF Status, Length
      <4> QED
        BY <2>1, <4>1, <4>2, HeaderFollows
    <3> QED
      BY <1>2, <1>3, <1>4, <1>7, <1>8, <1>9, <1>10, <2>2, <2>6, <2>7, <3>1, StillInOrder
  <2>8. Busy' /\ gfs'.at # "drain"
    BY <2>2 DEF Busy
  <2> QED
    BY <1>1, <1>2, <1>3, <1>7, <1>8, <1>9, <1>11, <2>2, <2>3, <2>4, <2>5, <2>7, <2>8, ServedStep
<1>12. ASSUME gfs' = [gfs EXCEPT !.text = text], UNCHANGED <<ctx, lookup>>
       PROVE  LoopInv'
  <2>1. gfs' \in ServerType /\ gfs'.at = "reading" /\ gfs'.conn = k /\ gfs'.text = text
    BY <1>1, <1>2, <1>3, <1>7, <1>12 DEF ServerType
  <2>2. LookupInv'
    BY <1>12, SearchStays DEF LoopInv
  <2>3. HandlerInv'
    BY <2>1 DEF HandlerInv, Found, SendsNow
  <2>4. Asked(k)'
    <3>1. Heard(k)' = text /\ Heard(k) = gfs.text /\ Awaited(k) /\ Asked(k)
      BY <1>2, <1>3, <2>1 DEF Heard, Awaited, LoopInv
    <3>2. client' = client /\ PathOf(k)' = PathOf(k)
      BY <1>3, SamePaths DEF clients, files
    <3> QED
      BY <1>7, <1>8, <3>1, <3>2 DEF Asked
  <2>5. Handed' = 0
    BY <2>1 DEF Handed, SendsNow
  <2>6. ASSUME NEW c \in Clients, Waiting(c), Conn(c) = k
        PROVE  InOrder(c)'
    BY <1>2, <1>3, <1>4, <1>7, <1>8, <1>9, <1>10, <2>1, <2>5, <2>6, StillInOrder
  <2>7. Busy' /\ gfs'.at # "drain"
    BY <2>1 DEF Busy
  <2> QED
    BY <1>1, <1>2, <1>3, <1>7, <1>8, <1>9, <1>12, <2>1, <2>2, <2>3, <2>4, <2>6, <2>7, ServedStep
<1>13. ASSUME Len(text) = 2, text[2] # <<"path", 0, 0>>,
              gfs' = [gfs EXCEPT !.at = "lookup", !.text = text],
              ctx' = [NoCtx EXCEPT !.live = TRUE], Lookup(text[2][2])
       PROVE  LoopInv'
  <2>1. gfs' \in ServerType /\ gfs'.at = "lookup" /\ gfs'.conn = k
    BY <1>1, <1>2, <1>3, <1>7, <1>13 DEF ServerType
  <2>2. ctx' \in CtxType /\ ctx'.live
    <3>1. NoCtx \in CtxType
      BY DEF NoCtx, CtxType
    <3> QED
      BY <1>13, <3>1 DEF CtxType
  <2>3. text[2][2] = p /\ p # 0
    BY <1>4, <1>7, <1>13
  <2>4. LookupInv' /\ key' = p
    <3>1. Lookup(p)
      BY <1>13, <2>3
    <3>2. [LookupNext \/ \E l \in Int : Lookup(l)]_lookup
      BY <1>4, <3>1
    <3> QED
      BY <3>1, <3>2, LookupInvStep DEF LoopInv, Lookup
  <2>5. PathOf(k)' = p
    BY <1>3, <1>4, SamePaths DEF clients, files
  <2>6. HandlerInv'
    BY <2>1, <2>2, <2>3, <2>4, <2>5 DEF HandlerInv, Found, SendsNow
  <2>7. Asked(k)'
    BY <1>8, <1>9, <2>1, NothingAwaited
  <2>8. Handed' = 0
    BY <2>1 DEF Handed, SendsNow
  <2>9. ASSUME NEW c \in Clients, Waiting(c), Conn(c) = k
        PROVE  InOrder(c)'
    BY <1>2, <1>3, <1>4, <1>7, <1>8, <1>9, <1>10, <2>1, <2>8, <2>9, StillInOrder
  <2>10. Busy' /\ gfs'.at # "drain"
    BY <2>1 DEF Busy
  <2> QED
    BY <1>1, <1>2, <1>3, <1>7, <1>8, <1>9, <2>1, <2>2, <2>4, <2>6, <2>7, <2>9, <2>10, ServedStep
<1>14. \/ /\ r.ret < 0
          /\ gfs' = Sending("error", Header("error", 0))
          /\ UNCHANGED <<ctx, lookup>>
       \/ /\ \/ r.ret = 0
             \/ Len(text) > 2
             \/ Len(text) = 2 /\ text[2] = <<"path", 0, 0>>
          /\ gfs' = Sending("error", Header("invalid", 0))
          /\ UNCHANGED <<ctx, lookup>>
       \/ /\ gfs' = [gfs EXCEPT !.text = text]
          /\ UNCHANGED <<ctx, lookup>>
       \/ /\ Len(text) = 2 /\ text[2] # <<"path", 0, 0>>
          /\ gfs' = [gfs EXCEPT !.at = "lookup", !.text = text]
          /\ ctx' = [NoCtx EXCEPT !.live = TRUE]
          /\ Lookup(text[2][2])
  BY <1>5, <1>6
<1>15. Len(text) = 2 /\ text[2] = <<"path", 0, 0>> => p = 0
  BY <1>4, <1>7
<1>16. ~(Len(text) > 2)
  BY <1>7
<1> QED
  BY <1>7, <1>11, <1>12, <1>13, <1>14, <1>15, <1>16

-----------------------------------------------------------------------------
(* Sending, the handler and the end of a connection.                       *)

LEMMA TakenInNat ==
  ASSUME TypeOK, NEW c \in Clients, Waiting(c)
  PROVE  Taken(c) \in Nat
<1>1. client[c] \in ClientType
  BY DEF TypeOK
<1> QED
  BY <1>1 DEF Taken, Waiting, ClientType

\* The handler has found the file of the request.
LEMMA FoundFile ==
  ASSUME LoopInv, Found, NEW p, p = PathOf(gfs.conn)
  PROVE  /\ InMap(p) /\ Items[fildes + 1] = p /\ p \in Nat \ {0}
         /\ Size[p] \in Nat /\ Length(p) = Size[p] /\ Status(p) = "ok"
<1>1. search = "over" /\ fildes >= 0 /\ key = p
  BY DEF LoopInv, HandlerInv
<1>2. fildes \in 0..(nitems - 1) /\ Items[fildes + 1] = p
  BY <1>1 DEF LoopInv, LookupInv, LookupIsRight
<1>3. nitems \in Nat
  BY ItemsAssumption DEF nitems
<1>4. fildes + 1 \in 1..nitems
  BY <1>2, <1>3
<1>5. InMap(p)
  BY <1>2, <1>4 DEF InMap
<1> QED
  BY <1>2, <1>5, ItemFields DEF Length, Status

\* A step of the server that leaves the connection as it is.
LEMMA SameStreamStep ==
  ASSUME LoopInv, UNCHANGED <<stream, clients>>, NEW k \in Conns, k = gfs.conn,
         gfs.at \in {"lookup", "sending", "load"}, gfs'.at \in {"lookup", "sending", "load"},
         gfs' \in ServerType, ctx' \in CtxType, LookupInv', HandlerInv', gfs'.conn = k,
         Handed' = Handed,
         gfs'.at = "sending" => Follows(gfs'.out, Answer(PathOf(k)), Handed)
  PROVE  LoopInv'
<1>1. stream \in [Conns -> Streams(Units)] /\ stream[k].state["server"] = "open"
  BY DEF LoopInv, TypeOK, ServesOne, Busy
<1>2. PICK j \in Streams(Units) : j = stream[k]
  BY <1>1
<1>3. stream' = [stream EXCEPT ![k] = j] /\ stream'[k] = j
  BY <1>1, <1>2
<1>4. Asked(k)'
  BY <1>1, <1>2, <1>3, NothingAwaited
<1>5. ASSUME NEW c \in Clients, Waiting(c), Conn(c) = k
      PROVE  InOrder(c)'
  <2>1. /\ Follows(j.toward["client"], Answer(PathOf(k)), Taken(c))
        /\ ~j.reset => Taken(c) + Len(j.toward["client"]) = Handed
    BY <1>2, <1>5 DEF LoopInv, InOrder, Busy
  <2> QED
    BY <1>1, <1>2, <1>3, <1>5, <2>1, StillInOrder
<1>6. Busy' /\ gfs'.at # "drain" /\ gfs.at # "killed" /\ gfs'.at # "killed"
  BY DEF Busy
<1> QED
  BY <1>1, <1>2, <1>3, <1>4, <1>5, <1>6, ServedStep

\* shutdown_ begins.
LEMMA ShutKeeps ==
  ASSUME LoopInv, UNCHANGED <<lookup, clients>>, NEW k \in Conns, k = gfs.conn,
         gfs.at \in {"sending", "load"}, Shut(k), ctx' \in CtxType
  PROVE  LoopInv'
<1>1. stream \in [Conns -> Streams(Units)] /\ stream[k].state["server"] = "open"
      /\ gfs \in ServerType
  BY DEF LoopInv, TypeOK, ServesOne, Busy
<1>2. PICK j : j = ShutDown(stream[k], "server")
  OBVIOUS
<1>3. "server" \in Sides /\ Peer("server") = "client"
  BY DEF Sides, Peer
<1>4. /\ j \in Streams(Units) /\ j.state["server"] = "shut"
      /\ j.state["client"] = stream[k].state["client"] /\ j.toward = stream[k].toward
  BY <1>1, <1>2, <1>3, ShutDownFields
<1>5. stream' = [stream EXCEPT ![k] = j] /\ stream'[k] = j
  BY <1>1, <1>2 DEF Shut
<1>6. gfs' \in ServerType /\ gfs'.at = "drain" /\ gfs'.conn = k
  BY <1>1 DEF Shut, ServerType
<1>7. HandlerInv' /\ LookupInv'
  BY <1>6, SearchStays DEF HandlerInv, Found, SendsNow, LoopInv
<1>8. Asked(k)'
  BY <1>4, <1>5, <1>6, NothingAwaited
<1>9. ASSUME NEW c \in Clients, Waiting(c), Conn(c) = k
      PROVE  InOrder(c)'
  <2>1. Follows(stream[k].toward["client"], Answer(PathOf(k)), Taken(c))
    BY <1>9 DEF LoopInv, InOrder
  <2> QED
    BY <1>4, <1>5, <1>6, <1>9, <2>1, StillInOrder
<1>10. Busy' /\ gfs.at # "killed"
  BY <1>6 DEF Busy
<1> QED
  BY <1>1, <1>4, <1>5, <1>6, <1>7, <1>8, <1>9, <1>10, ServedStep

LEMMA SendAllKeeps ==
  ASSUME LoopInv, SendAll
  PROVE  LoopInv'
<1>1. gfs \in ServerType /\ ctx \in CtxType /\ stream \in [Conns -> Streams(Units)]
  BY DEF LoopInv, TypeOK
<1>2. PICK k \in Conns : k = gfs.conn
  BY DEF LoopInv, ServesOne, Busy, SendAll
<1>3. gfs.at = "sending" /\ gfs.out # <<>> /\ UNCHANGED <<ctx, lookup, clients>>
  BY DEF SendAll
<1>4. PICK r \in Sends(stream[k], "server", gfs.out) :
        \/ /\ r.ret >= 0
           /\ stream' = [stream EXCEPT ![k] = r.stream]
           /\ gfs' = [gfs EXCEPT !.out = SubSeq(@, r.ret + 1, Len(@))]
        \/ r.ret < 0 /\ gfs' = [gfs EXCEPT !.out = <<>>, !.ok = FALSE] /\ UNCHANGED stream
        \/ r.ret < 0 /\ Killed
  BY <1>2 DEF SendAll
<1>5. PICK out \in Seq(Units) : out = gfs.out
  BY <1>1 DEF ServerType
<1>6. PICK j : j = r.stream
  OBVIOUS
<1>7. "server" \in Sides /\ Peer("server") = "client"
  BY DEF Sides, Peer
<1>8. stream[k] \in Streams(Units) /\ stream[k].state["server"] = "open"
      /\ stream[k].reset \in BOOLEAN
  BY <1>1, <1>2, <1>3 DEF LoopInv, ServesOne, Busy, Streams
<1>9. /\ j \in Streams(Units)
      /\ j.state = stream[k].state /\ j.toward["server"] = stream[k].toward["server"]
      /\ stream[k].reset => r.ret = -1 /\ j = stream[k]
      /\ ~stream[k].reset => r.ret \in 0..Len(out)
      /\ ~stream[k].reset /\ stream[k].state["client"] # "closed" =>
           /\ ~j.reset
           /\ Joins(j.toward["client"], stream[k].toward["client"], Before(out, r.ret))
  <2>1. r \in Sends(stream[k], "server", out)
    BY <1>4, <1>5
  <2> QED
    BY <1>6, <1>7, <1>8, <2>1, SendsFields
<1>10. LookupInv' /\ search' = search /\ fildes' = fildes /\ key' = key
  BY <1>3, SearchStays DEF LoopInv
<1>11. PathOf(k)' = PathOf(k)
  BY <1>3, SamePaths DEF clients, files
<1>12. CASE /\ r.ret >= 0 /\ stream' = [stream EXCEPT ![k] = j]
            /\ gfs' = [gfs EXCEPT !.out = After(out, r.ret)]
  <2>1. ~stream[k].reset /\ r.ret \in 0..Len(out)
    BY <1>8, <1>9, <1>12
  <2>2. PICK rest \in Seq(Units) : rest = After(out, r.ret)
    BY <2>1, AfterFields
  <2>3. /\ gfs' \in ServerType /\ gfs'.at = "sending" /\ gfs'.conn = k /\ gfs'.out = rest
        /\ gfs'.what = gfs.what /\ gfs'.ok = gfs.ok
    BY <1>1, <1>2, <1>3, <1>12, <2>2 DEF ServerType
  <2>4. stream'[k] = j /\ j.state["server"] = "open"
    BY <1>1, <1>8, <1>9, <1>12
  <2>5. HandlerInv'
    <3>1. HandlerInv
      BY DEF LoopInv
    <3> QED
      BY <1>2, <1>3, <1>10, <1>11, <2>3, <3>1 DEF HandlerInv, Found, SendsNow
  <2>6. Asked(k)'
    BY <2>3, <2>4, NothingAwaited
  <2>7. PICK total \in Int : Handed = total - Len(out) /\ Handed' = total - Len(rest)
    <3>1. ctx.sentSoFar \in Int /\ ctx.expectSent \in Int /\ Chunk \in Int /\ Turn \in Int
          /\ Turn' = Turn
      BY <1>1, <1>3, LoopAssumption DEF CtxType, Turn
    <3>2. gfs.what \in {"error", "header", "data"}
      BY <1>1, <1>3 DEF LoopInv, HandlerInv, ServerType
    <3>3. CASE gfs.what = "data"
      <4>1. PICK total \in Int : total = 2 + ctx.sentSoFar + Turn
        BY <3>1
      <4>2. Handed = total - Len(out)
        <5>1. gfs.at = "sending" /\ Len(gfs.out) = Len(out)
          BY <1>3, <1>5
        <5> QED
          BY <3>1, <3>3, <4>1, <5>1, SMTT(30) DEF Handed, SendsNow
      <4>3. Handed' = total - Len(rest)
        BY <1>3, <2>3, <3>1, <3>3, <4>1 DEF Handed, SendsNow
      <4> QED
        BY <4>2, <4>3
    <3>4. CASE gfs.what \in {"error", "header"}
      <4>1. Handed = 2 - Len(out)
        BY <1>3, <1>5, <3>4 DEF Handed, SendsNow
      <4>2. Handed' = 2 - Len(rest)
        BY <2>3, <3>4 DEF Handed, SendsNow
      <4> QED
        BY <4>1, <4>2
    <3> QED
      BY <3>2, <3>3, <3>4
  <2>8. ASSUME NEW c \in Clients, Waiting(c), Conn(c) = k
        PROVE  InOrder(c)'
    <3>1. /\ stream[k].state["client"] = "open"
          /\ Follows(stream[k].toward["client"], Answer(PathOf(k)), Taken(c))
          /\ Taken(c) + Len(stream[k].toward["client"]) = Handed
          /\ Follows(out, Answer(PathOf(k)), Handed)
      BY <1>2, <1>3, <1>5, <2>1, <2>8 DEF LoopInv, InOrder, Busy
    <3>2. PICK in \in Seq(Units) : in = stream[k].toward["client"]
      BY <1>8 DEF Streams, Sides
    <3>3. PICK u \in Seq(Units) : u = Answer(PathOf(k))
      BY PathInNat, AnswerFields DEF LoopInv, TypeOK
    <3>4. PICK n \in Nat : n = Taken(c)
      BY <2>8, TakenInNat DEF LoopInv
    <3>5. PICK all : all = j.toward["client"]
      OBVIOUS
    <3>6. Joins(all, in, Before(out, r.ret)) /\ Follows(in, u, n) /\ Follows(out, u, n + Len(in))
      BY <1>9, <2>1, <3>1, <3>2, <3>3, <3>4, <3>5
    <3>7. /\ all \in Seq(Units) /\ Len(all) + Len(rest) = Len(in) + Len(out)
          /\ Follows(all, u, n) /\ Follows(rest, u, n + Len(all))
      <4>1. PICK sent \in 0..Len(out) : sent = r.ret
        BY <2>1
      <4>2. rest = After(out, sent) /\ Joins(all, in, Before(out, sent))
        BY <2>2, <3>6, <4>1
      <4>3. /\ all \in Seq(Units) /\ Len(all) + Len(After(out, sent)) = Len(in) + Len(out)
            /\ Follows(all, u, n) /\ Follows(After(out, sent), u, n + Len(all))
        BY <3>6, <4>2, SendMoves
      <4> QED
        BY <4>2, <4>3
    <3>8. n + Len(all) = Handed'
      <4>1. n + Len(in) = total - Len(out) /\ Handed' = total - Len(rest)
        BY <2>7, <3>1, <3>2, <3>4
      <4>2. PICK a, b, d, e \in Int :
              a = Len(all) /\ b = Len(rest) /\ d = Len(in) /\ e = Len(out)
        BY <3>7
      <4>3. n + d = total - e /\ a + b = d + e
        BY <3>7, <4>1, <4>2
      <4>4. n + a = total - b
        BY <4>3
      <4> QED
        BY <4>1, <4>2, <4>4
    <3> QED
      BY <1>3, <1>9, <2>3, <2>4, <2>8, <3>3, <3>4, <3>5, <3>7, <3>8, StillInOrder
  <2>9. Busy' /\ gfs'.at # "drain" /\ gfs'.at # "killed"
    BY <2>3 DEF Busy
  <2> QED
    BY <1>1, <1>2, <1>3, <1>8, <1>9, <1>10, <1>12, <2>3, <2>4, <2>5, <2>6, <2>8, <2>9, ServedStep
<1>13. CASE r.ret < 0 /\ gfs' = [gfs EXCEPT !.out = <<>>, !.ok = FALSE] /\ UNCHANGED stream
  <2>1. stream[k].reset
    BY <1>8, <1>9, <1>13
  <2>2. /\ gfs' \in ServerType /\ gfs'.at = "sending" /\ gfs'.conn = k /\ gfs'.out = <<>>
        /\ gfs'.what = gfs.what /\ gfs'.ok = FALSE
    <3>1. <<>> \in Seq(Units)
      BY EmptySeq
    <3> QED
      BY <1>1, <1>2, <1>3, <1>13, <3>1 DEF ServerType
  <2>3. HandlerInv'
    <3>1. HandlerInv
      BY DEF LoopInv
    <3> QED
      BY <1>2, <1>3, <1>10, <1>11, <1>13, <2>1, <2>2, <3>1 DEF HandlerInv, Found, SendsNow
  <2>4. stream' = [stream EXCEPT ![k] = stream[k]] /\ stream'[k] = stream[k]
    BY <1>1, <1>13
  <2>5. Asked(k)'
    BY <1>8, <2>2, <2>4, NothingAwaited
  <2>6. ASSUME NEW c \in Clients, Waiting(c), Conn(c) = k
        PROVE  InOrder(c)'
    <3>1. Follows(stream[k].toward["client"], Answer(PathOf(k)), Taken(c))
      BY <2>6 DEF LoopInv, InOrder
    <3> QED
      BY <1>3, <1>8, <2>1, <2>2, <2>4, <2>6, <3>1, StillInOrder
  <2>7. Busy' /\ gfs'.at # "drain" /\ gfs'.at # "killed"
    BY <2>2 DEF Busy
  <2> QED
    BY <1>1, <1>2, <1>3, <1>8, <1>10, <2>2, <2>3, <2>4, <2>5, <2>6, <2>7, ServedStep
<1>14. CASE Killed
  BY <1>3, <1>14, KilledKeeps
<1>15. After(out, r.ret) = SubSeq(gfs.out, r.ret + 1, Len(gfs.out))
  BY <1>5 DEF After
<1>16. gfs' = [gfs EXCEPT !.out = SubSeq(@, r.ret + 1, Len(@))] =>
         gfs' = [gfs EXCEPT !.out = After(out, r.ret)]
  BY <1>15
<1> QED
  BY <1>4, <1>6, <1>12, <1>13, <1>14, <1>16

LEMMA ErrorSentKeeps ==
  ASSUME LoopInv, ErrorSent
  PROVE  LoopInv'
<1>1. PICK k \in Conns : k = gfs.conn
  BY DEF LoopInv, ServesOne, Busy, ErrorSent, Sent
<1>2. gfs.at = "sending" /\ Shut(k) /\ UNCHANGED <<ctx, lookup, clients>>
  BY <1>1 DEF ErrorSent, Sent
<1>3. ctx' \in CtxType
  BY <1>2 DEF LoopInv, TypeOK
<1> QED
  BY <1>1, <1>2, <1>3, ShutKeeps

LEMMA DrainKeeps ==
  ASSUME LoopInv, Drain
  PROVE  LoopInv'
<1>1. gfs \in ServerType /\ ctx \in CtxType /\ stream \in [Conns -> Streams(Units)]
  BY DEF LoopInv, TypeOK
<1>2. PICK k \in Conns : k = gfs.conn
  BY DEF LoopInv, ServesOne, Busy, Drain
<1>3. gfs.at = "drain" /\ UNCHANGED <<lookup, clients>>
  BY DEF Drain
<1>4. PICK r \in Receives(stream[k], "server", Chunk) :
        IF r.ret > 0
          THEN stream' = [stream EXCEPT ![k] = r.stream] /\ UNCHANGED <<gfs, ctx>>
          ELSE /\ stream' = [stream EXCEPT ![k] = Closed(@, "server")]
               /\ gfs' = [gfs EXCEPT !.at = "select", !.conn = NoConn]
               /\ ctx' = NoCtx
  BY <1>2 DEF Drain
<1>5. PICK j : j = r.stream
  OBVIOUS
<1>6. "server" \in Sides /\ Peer("server") = "client" /\ Chunk \in Nat \ {0}
  BY LoopAssumption DEF Sides, Peer
<1>7. stream[k] \in Streams(Units) /\ stream[k].state["server"] = "shut"
  BY <1>1, <1>2, <1>3 DEF LoopInv, ServesOne
<1>8. /\ j \in Streams(Units) /\ j.state = stream[k].state
      /\ j.toward["client"] = stream[k].toward["client"]
  <2>1. r \in Receives(stream[k], "server", Chunk)
    BY <1>4
  <2> QED
    BY <1>5, <1>6, <1>7, <2>1, ReceivesFields
<1>9. LookupInv' /\ search' = search /\ fildes' = fildes /\ key' = key
  BY <1>3, SearchStays DEF LoopInv
<1>10. \A c \in Clients : Waiting(c) /\ Conn(c) = k =>
         Follows(stream[k].toward["client"], Answer(PathOf(k)), Taken(c))
  BY DEF LoopInv, InOrder
<1>11. CASE stream' = [stream EXCEPT ![k] = j] /\ UNCHANGED <<gfs, ctx>>
  <2>1. stream'[k] = j /\ gfs' \in ServerType /\ gfs'.at = "drain" /\ gfs'.conn = k
    BY <1>1, <1>2, <1>3, <1>11
  <2>2. HandlerInv'
    BY <2>1 DEF HandlerInv, Found, SendsNow
  <2>3. Asked(k)'
    BY <1>7, <1>8, <2>1, NothingAwaited
  <2>4. \A c \in Clients : Waiting(c) /\ Conn(c) = k => InOrder(c)'
    BY <1>3, <1>7, <1>8, <1>10, <2>1, StillInOrder
  <2>5. Busy' /\ ctx' \in CtxType
    BY <1>1, <1>11, <2>1 DEF Busy
  <2> QED
    BY <1>2, <1>3, <1>7, <1>8, <1>9, <1>11, <2>1, <2>2, <2>3, <2>4, <2>5, ServedStep
<1>12. CASE /\ stream' = [stream EXCEPT ![k] = Closed(@, "server")]
            /\ gfs' = [gfs EXCEPT !.at = "select", !.conn = NoConn]
            /\ ctx' = NoCtx
  <2>1. PICK d : d = Closed(stream[k], "server")
    OBVIOUS
  <2>2. /\ d \in Streams(Units) /\ d.state["server"] = "closed"
        /\ d.state["client"] = stream[k].state["client"]
        /\ d.toward["client"] = stream[k].toward["client"]
    BY <1>6, <1>7, <2>1, ClosedFields
  <2>3. stream' = [stream EXCEPT ![k] = d] /\ stream'[k] = d
    BY <1>1, <1>12, <2>1
  <2>4. gfs' \in ServerType /\ gfs'.at = "select" /\ gfs'.conn = NoConn /\ ~Busy'
    BY <1>1, <1>12 DEF ServerType, Busy
  <2>5. HandlerInv' /\ ctx' \in CtxType
    BY <1>12, <2>4 DEF HandlerInv, Found, SendsNow, NoCtx, CtxType
  <2>6. Asked(k)'
    BY <2>2, <2>3, <2>4, NothingAwaited
  <2>7. \A c \in Clients : Waiting(c) /\ Conn(c) = k => InOrder(c)'
    BY <1>3, <1>10, <2>2, <2>3, <2>4, StillInOrder
  <2> QED
    BY <1>2, <1>3, <1>7, <1>9, <2>2, <2>3, <2>4, <2>5, <2>6, <2>7, ServedStep
<1> QED
  BY <1>4, <1>5, <1>11, <1>12

LEMMA ContentGetKeeps ==
  ASSUME LoopInv, ContentGet
  PROVE  LoopInv'
<1>1. PICK k \in Conns : k = gfs.conn
  BY DEF LoopInv, ServesOne, Busy, ContentGet
<1>2. gfs.at = "lookup" /\ LookupNext /\ UNCHANGED <<stream, gfs, ctx, clients>>
  BY DEF ContentGet
<1>3. gfs' \in ServerType /\ ctx' \in CtxType
  BY <1>2 DEF LoopInv, TypeOK
<1>4. LookupInv' /\ key' = key
  <2>1. [LookupNext \/ \E l \in Int : Lookup(l)]_lookup
    BY <1>2
  <2>2. key' = key
    BY <1>2 DEF LookupNext, Miss, Compare
  <2> QED
    BY <2>1, <2>2, LookupInvStep DEF LoopInv
<1>5. HandlerInv'
  <2>1. PathOf(gfs.conn)' = PathOf(gfs.conn) /\ HandlerInv
    BY <1>2, SamePaths DEF clients, files, LoopInv
  <2> QED
    BY <1>2, <1>4, <2>1 DEF HandlerInv, Found, SendsNow
<1>6. Handed' = Handed
  BY <1>2 DEF Handed, Turn, SendsNow
<1> QED
  BY <1>1, <1>2, <1>3, <1>4, <1>5, <1>6, SameStreamStep

LEMMA RespondKeeps ==
  ASSUME LoopInv, Respond
  PROVE  LoopInv'
<1>1. PICK k \in Conns : k = gfs.conn
  BY DEF LoopInv, ServesOne, Busy, Respond
<1>2. /\ gfs.at = "lookup" /\ search = "over" /\ UNCHANGED <<stream, ctx, lookup, clients>>
      /\ gfs' = IF fildes < 0 THEN Sending("error", Header("notfound", 0))
                ELSE Sending("header", Header("ok", Size[Items[fildes + 1]]))
  BY DEF Respond
<1>3. gfs \in ServerType /\ ctx' \in CtxType /\ workload \in Workloads
  BY <1>2 DEF LoopInv, TypeOK
<1>4. PICK p \in Nat : p = PathOf(k)
  BY <1>1, <1>3, PathInNat
<1>5. key = p /\ p # 0 /\ ctx.live
  BY <1>1, <1>2, <1>4 DEF LoopInv, HandlerInv
<1>6. LookupInv' /\ search' = search /\ fildes' = fildes /\ key' = key
  BY <1>2, SearchStays DEF LoopInv
<1>7. PathOf(k)' = p
  BY <1>2, <1>4, SamePaths DEF clients, files
<1>8. LookupIsRight /\ fildes \in Int
  BY ItemsAssumption DEF LoopInv, LookupInv, SearchInv, nitems
<1>9. Handed = 0
  BY <1>2 DEF Handed, SendsNow
<1>10. ASSUME NEW what \in {"error", "header"}, NEW s \in {"ok", "notfound"}, NEW n \in Nat,
              gfs' = Sending(what, Header(s, n)), what = "header" => fildes >= 0,
              s = Status(p), n = Length(p)
       PROVE  LoopInv'
  <2>1. PICK h \in Seq(Units) : h = Header(s, n) /\ Len(h) = 2 /\ Follows(h, Answer(p), 0)
    BY <1>4, <1>10, HeaderFollows
  <2>2. /\ gfs' \in ServerType /\ gfs'.at = "sending" /\ gfs'.what = what /\ gfs'.out = h
        /\ gfs'.ok = TRUE /\ gfs'.conn = k
    BY <1>1, <1>3, <1>10, <2>1 DEF Sending, ServerType
  <2>3. HandlerInv'
    BY <1>2, <1>5, <1>6, <1>7, <1>10, <2>2 DEF HandlerInv, Found, SendsNow
  <2>4. Handed' = 0
    BY <2>1, <2>2 DEF Handed, SendsNow
  <2> QED
    BY <1>1, <1>2, <1>3, <1>4, <1>6, <1>9, <2>1, <2>2, <2>3, <2>4, SameStreamStep
<1>11. CASE fildes < 0
  <2>1. ~InMap(p)
    BY <1>2, <1>5, <1>8, <1>11 DEF LookupIsRight, InMap
  <2>2. Status(p) = "notfound" /\ Length(p) = 0
    BY <1>5, <2>1 DEF Status, Length
  <2> QED
    BY <1>2, <1>10, <1>11, <2>2
<1>12. CASE ~(fildes < 0)
  <2>1. fildes >= 0
    BY <1>8, <1>12
  <2>2. Items[fildes + 1] = p /\ fildes \in 0..(nitems - 1)
    BY <1>2, <1>5, <1>8, <2>1 DEF LookupIsRight
  <2>3. InMap(p)
    <3>1. nitems \in Nat
      BY ItemsAssumption DEF nitems
    <3>2. fildes + 1 \in 1..nitems
      BY <2>2, <3>1
    <3> QED
      BY <2>2, <3>2 DEF InMap
  <2>4. Status(p) = "ok" /\ Length(p) = Size[p] /\ Size[p] \in Nat
    BY <2>3, ItemFields DEF Status, Length
  <2> QED
    BY <1>2, <1>10, <1>12, <2>1, <2>2, <2>4
<1> QED
  BY <1>11, <1>12

LEMMA HeaderSentKeeps ==
  ASSUME LoopInv, HeaderSent
  PROVE  LoopInv'
<1>1. PICK k \in Conns : k = gfs.conn
  BY DEF LoopInv, ServesOne, Busy, HeaderSent, Sent
<1>2. /\ gfs.at = "sending" /\ gfs.out = <<>> /\ gfs.what = "header"
      /\ UNCHANGED <<stream, lookup, clients>>
      /\ ctx' = [ctx EXCEPT !.expectSent = Size[Items[fildes + 1]], !.sentSoFar = 0]
      /\ gfs' = [gfs EXCEPT !.at = "load"]
  BY DEF HeaderSent, Sent
<1>3. Found
  BY <1>2 DEF Found, SendsNow
<1>4. PICK p : p = PathOf(k)
  OBVIOUS
<1>5. Items[fildes + 1] = p /\ Size[p] \in Nat
  BY <1>1, <1>3, <1>4, FoundFile
<1>6. gfs \in ServerType /\ ctx \in CtxType
  BY DEF LoopInv, TypeOK
<1>7. /\ ctx' \in CtxType /\ ctx'.live = ctx.live
      /\ ctx'.expectSent = Size[p] /\ ctx'.sentSoFar = 0
  <2>1. PICK n \in Nat : n = Size[p]
    BY <1>5
  <2>2. ctx' = [ctx EXCEPT !.expectSent = n, !.sentSoFar = 0]
    BY <1>2, <1>5, <2>1
  <2>3. ctx' = [live |-> ctx.live, expectSent |-> n, sentSoFar |-> 0] /\ ctx.live \in BOOLEAN
    BY <1>6, <2>2 DEF CtxType
  <2>4. n \in Int /\ 0 \in Int
    BY <2>1
  <2>5. ctx' \in CtxType
    BY <2>3, <2>4 DEF CtxType
  <2>6. ctx'.live = ctx.live /\ ctx'.expectSent = n /\ ctx'.sentSoFar = 0
    BY <2>3, Zenon
  <2> QED
    BY <2>1, <2>5, <2>6
<1>8. gfs' \in ServerType /\ gfs'.at = "load" /\ gfs'.conn = k
  BY <1>1, <1>2, <1>6 DEF ServerType
<1>9. LookupInv' /\ search' = search /\ fildes' = fildes /\ key' = key
  BY <1>2, SearchStays DEF LoopInv
<1>10. PathOf(k)' = p
  BY <1>2, <1>4, SamePaths DEF clients, files
<1>11. HandlerInv'
  <2>1. HandlerInv
    BY DEF LoopInv
  <2> QED
    BY <1>1, <1>3, <1>4, <1>5, <1>7, <1>8, <1>9, <1>10, <2>1 DEF HandlerInv, Found, SendsNow
<1>12. Handed = 2 /\ Handed' = 2
  <2>1. Len(gfs.out) = 0
    BY <1>2, EmptySeq
  <2> QED
    BY <1>2, <1>7, <1>8, <2>1 DEF Handed, SendsNow
<1> QED
  BY <1>1, <1>2, <1>7, <1>8, <1>9, <1>11, <1>12, SameStreamStep

\* What is left to send of a file, and what of it is sent in this turn.
LEMMA TurnFields ==
  ASSUME LoopInv, gfs.at = "load" \/ SendsNow("data"), NEW p, p = PathOf(gfs.conn)
  PROVE  /\ ctx.expectSent = Size[p] /\ Size[p] \in Nat /\ ctx.sentSoFar \in Nat /\ Turn \in Nat
         /\ ctx.sentSoFar + Turn <= Size[p]
         /\ gfs.at = "load" => ctx.sentSoFar = 0 \/ ctx.sentSoFar < Size[p]
         /\ InMap(p) /\ Length(p) = Size[p] /\ p \in Nat
<1>1. /\ ctx.expectSent = Size[p] /\ ctx.sentSoFar \in 0..ctx.expectSent
      /\ gfs.at = "load" => ctx.sentSoFar = 0 \/ ctx.sentSoFar < ctx.expectSent
  BY DEF LoopInv, HandlerInv
<1>2. Found
  BY DEF Found
<1>3. InMap(p) /\ Size[p] \in Nat /\ Length(p) = Size[p] /\ p \in Nat
  BY <1>2, FoundFile
<1>4. Chunk \in Nat \ {0}
  BY LoopAssumption
<1>5. PICK n \in Nat, m \in Nat, l \in Nat :
        n = Size[p] /\ m = ctx.sentSoFar /\ l = Chunk /\ m <= n
  BY <1>1, <1>3, <1>4
<1>6. Turn = IF n - m < l THEN n - m ELSE l
  BY <1>1, <1>5 DEF Turn
<1>7. Turn \in Nat /\ m + Turn <= n
  BY <1>5, <1>6
<1> QED
  BY <1>1, <1>3, <1>5, <1>7

LEMMA LoadKeeps ==
  ASSUME LoopInv, Load
  PROVE  LoopInv'
<1>1. PICK k \in Conns : k = gfs.conn
  BY DEF LoopInv, ServesOne, Busy, Load
<1>2. PICK p : p = PathOf(k)
  OBVIOUS
<1>3. gfs.at = "load" /\ UNCHANGED <<lookup, clients>>
  BY DEF Load
<1>4. PICK left : left = ctx.expectSent - ctx.sentSoFar
  OBVIOUS
<1>5. \/ /\ left > 0
         /\ gfs' = Sending("data", Data(Items[fildes + 1], ctx.sentSoFar, Turn))
         /\ UNCHANGED <<stream, ctx>>
      \/ Shut(k) /\ UNCHANGED ctx
      \/ /\ left = 0
         /\ gfs' = [gfs EXCEPT !.at = "select", !.conn = NoConn]
         /\ UNCHANGED stream /\ ctx' = NoCtx
  BY <1>1, <1>4 DEF Load, Turn
<1>6. /\ ctx.expectSent = Size[p] /\ Size[p] \in Nat /\ ctx.sentSoFar \in Nat /\ Turn \in Nat
      /\ ctx.sentSoFar + Turn <= Size[p]
      /\ ctx.sentSoFar = 0 \/ ctx.sentSoFar < Size[p]
      /\ InMap(p) /\ Length(p) = Size[p] /\ p \in Nat
  BY <1>1, <1>2, <1>3, TurnFields
<1>7. Found /\ Items[fildes + 1] = p
  <2>1. Found
    BY <1>3 DEF Found
  <2> QED
    BY <1>1, <1>2, <2>1, FoundFile
<1>8. gfs \in ServerType /\ ctx' \in CtxType /\ stream \in [Conns -> Streams(Units)]
  <2>1. NoCtx \in CtxType
    BY DEF NoCtx, CtxType
  <2> QED
    BY <1>5, <2>1 DEF LoopInv, TypeOK
<1>9. LookupInv' /\ search' = search /\ fildes' = fildes /\ key' = key
  BY <1>3, SearchStays DEF LoopInv
<1>10. PathOf(k)' = p
  BY <1>2, <1>3, SamePaths DEF clients, files
<1>11. CASE /\ left > 0
            /\ gfs' = Sending("data", Data(Items[fildes + 1], ctx.sentSoFar, Turn))
            /\ UNCHANGED <<stream, ctx>>
  <2>1. PICK m \in Nat, n \in Nat : m = ctx.sentSoFar /\ n = Turn /\ m + n <= Length(p)
    BY <1>6
  <2>2. PICK data \in Seq(Units) :
          data = Data(p, m, n) /\ Len(data) = n /\ Follows(data, Answer(p), 2 + m)
    BY <1>6, <2>1, DataFollows
  <2>3. gfs' = Sending("data", data)
    BY <1>7, <1>11, <2>1, <2>2
  <2>4. /\ gfs' \in ServerType /\ gfs'.at = "sending" /\ gfs'.what = "data" /\ gfs'.out = data
        /\ gfs'.ok = TRUE /\ gfs'.conn = k
    BY <1>1, <1>8, <2>3 DEF Sending, ServerType
  <2>5. ctx.sentSoFar < ctx.expectSent /\ ctx.sentSoFar \in 0..ctx.expectSent
    BY <1>4, <1>6, <1>11
  <2>6. HandlerInv'
    <3>1. HandlerInv
      BY DEF LoopInv
    <3> QED
      BY <1>1, <1>2, <1>3, <1>6, <1>7, <1>9, <1>10, <1>11, <2>4, <2>5, <3>1
         DEF HandlerInv, Found, SendsNow
  <2>7. Handed = 2 + m
    BY <1>3, <2>1 DEF Handed, SendsNow
  <2>8. Handed' = 2 + m
    <3>1. Turn' = n /\ ctx'.sentSoFar = m
      BY <1>11, <2>1 DEF Turn
    <3>2. Handed' = 2 + ctx'.sentSoFar + Turn' - Len(gfs'.out)
      BY <2>4 DEF Handed, SendsNow
    <3>3. 2 + m + n - n = 2 + m
      BY <2>1
    <3> QED
      BY <2>2, <2>4, <3>1, <3>2, <3>3
  <2>9. Follows(data, Answer(PathOf(k)), Handed)
    BY <1>2, <2>2, <2>7
  <2> QED
    BY <1>1, <1>3, <1>8, <1>9, <1>11, <2>4, <2>6, <2>7, <2>8, <2>9, SameStreamStep
<1>12. CASE Shut(k) /\ UNCHANGED ctx
  BY <1>1, <1>3, <1>8, <1>12, ShutKeeps
<1>13. CASE /\ left = 0
            /\ gfs' = [gfs EXCEPT !.at = "select", !.conn = NoConn]
            /\ UNCHANGED stream
  <2>1. gfs' \in ServerType /\ gfs'.at = "select" /\ gfs'.conn = NoConn /\ ~Busy'
    BY <1>8, <1>13 DEF ServerType, Busy
  <2>2. stream[k] \in Streams(Units) /\ stream[k].state["server"] = "open"
    BY <1>1, <1>3, <1>8 DEF LoopInv, ServesOne, Busy
  <2>3. stream' = [stream EXCEPT ![k] = stream[k]] /\ stream'[k] = stream[k]
    BY <1>8, <1>13
  <2>4. HandlerInv'
    BY <2>1 DEF HandlerInv, Found, SendsNow
  <2>5. Asked(k)'
    BY <2>1, <2>2, <2>3, NothingAwaited
  <2>6. ASSUME NEW c \in Clients, Waiting(c), Conn(c) = k
        PROVE  InOrder(c)'
    <3>1. Follows(stream[k].toward["client"], Answer(PathOf(k)), Taken(c))
      BY <2>6 DEF LoopInv, InOrder
    <3> QED
      BY <1>3, <2>1, <2>2, <2>3, <2>6, <3>1, StillInOrder
  <2> QED
    BY <1>1, <1>3, <1>8, <1>9, <2>1, <2>2, <2>3, <2>4, <2>5, <2>6, ServedStep
<1> QED
  BY <1>5, <1>11, <1>12, <1>13

LEMMA DataSentKeeps ==
  ASSUME LoopInv, DataSent
  PROVE  LoopInv'
<1>1. PICK k \in Conns : k = gfs.conn
  BY DEF LoopInv, ServesOne, Busy, DataSent, Sent
<1>2. PICK p : p = PathOf(k)
  OBVIOUS
<1>3. gfs.at = "sending" /\ gfs.out = <<>> /\ gfs.what = "data" /\ UNCHANGED <<lookup, clients>>
  BY DEF DataSent, Sent
<1>4. \/ /\ ctx.sentSoFar + Turn < ctx.expectSent
         /\ ctx' = [ctx EXCEPT !.sentSoFar = @ + Turn]
         /\ gfs' = [gfs EXCEPT !.at = "load"]
         /\ UNCHANGED stream
      \/ ctx' = [ctx EXCEPT !.sentSoFar = @ + Turn] /\ Shut(k)
      \/ Shut(k) /\ UNCHANGED ctx
  BY <1>1 DEF DataSent, Turn
<1>5. SendsNow("data") /\ Found
  BY <1>3 DEF SendsNow, Found
<1>6. /\ ctx.expectSent = Size[p] /\ Size[p] \in Nat /\ ctx.sentSoFar \in Nat /\ Turn \in Nat
      /\ ctx.sentSoFar + Turn <= Size[p]
      /\ InMap(p) /\ Length(p) = Size[p] /\ p \in Nat
  BY <1>1, <1>2, <1>5, TurnFields
<1>7. gfs \in ServerType /\ ctx \in CtxType
  BY DEF LoopInv, TypeOK
<1>8. PICK m \in Nat : m = ctx.sentSoFar + Turn
  BY <1>6
<1>9. CASE ctx' = [ctx EXCEPT !.sentSoFar = m] /\ Shut(k)
  <2>1. ctx' \in CtxType
    BY <1>7, <1>8, <1>9 DEF CtxType
  <2> QED
    BY <1>1, <1>3, <1>9, <2>1, ShutKeeps
<1>10. CASE Shut(k) /\ UNCHANGED ctx
  BY <1>1, <1>3, <1>7, <1>10, ShutKeeps
<1>11. CASE /\ m < ctx.expectSent
            /\ ctx' = [ctx EXCEPT !.sentSoFar = m]
            /\ gfs' = [gfs EXCEPT !.at = "load"]
            /\ UNCHANGED stream
  <2>1. /\ ctx' \in CtxType /\ ctx'.live = ctx.live
        /\ ctx'.expectSent = ctx.expectSent /\ ctx'.sentSoFar = m
    BY <1>7, <1>8, <1>11 DEF CtxType
  <2>2. gfs' \in ServerType /\ gfs'.at = "load" /\ gfs'.conn = k
    BY <1>1, <1>3, <1>7, <1>11 DEF ServerType
  <2>3. LookupInv' /\ search' = search /\ fildes' = fildes /\ key' = key
    BY <1>3, SearchStays DEF LoopInv
  <2>4. PathOf(k)' = p
    BY <1>2, <1>3, SamePaths DEF clients, files
  <2>5. m \in 0..ctx.expectSent
    BY <1>6, <1>8
  <2>6. HandlerInv'
    <3>1. HandlerInv
      BY DEF LoopInv
    <3> QED
      BY <1>1, <1>2, <1>5, <1>6, <1>11, <2>1, <2>2, <2>3, <2>4, <2>5, <3>1
         DEF HandlerInv, Found, SendsNow
  <2>7. Handed = 2 + m
    <3>1. Handed = 2 + ctx.sentSoFar + Turn - Len(gfs.out)
      BY <1>3 DEF Handed, SendsNow
    <3>2. Len(gfs.out) = 0
      BY <1>3, EmptySeq
    <3> QED
      BY <1>6, <1>8, <3>1, <3>2
  <2>8. Handed' = 2 + m
    BY <2>1, <2>2 DEF Handed, SendsNow
  <2> QED
    BY <1>1, <1>3, <1>11, <2>1, <2>2, <2>3, <2>6, <2>7, <2>8, SameStreamStep
<1>12. \/ /\ m < ctx.expectSent
          /\ ctx' = [ctx EXCEPT !.sentSoFar = m]
          /\ gfs' = [gfs EXCEPT !.at = "load"]
          /\ UNCHANGED stream
       \/ ctx' = [ctx EXCEPT !.sentSoFar = m] /\ Shut(k)
       \/ Shut(k) /\ UNCHANGED ctx
  BY <1>4, <1>8
<1> QED
  BY <1>9, <1>10, <1>11, <1>12

-----------------------------------------------------------------------------
(* The requests of a client.                                               *)

\* What a client has given to stdio is the beginning of its file, and with as many units as
\* the header has announced it is the whole file.
LEMMA FileIsBeginning ==
  ASSUME NEW p, InMap(p), NEW file \in Seq(Units), Follows(file, Answer(p), 2)
  PROVE  /\ Len(file) <= Size[p] /\ file = SubSeq(Whole(p), 1, Len(file))
         /\ Len(file) = Size[p] => file = Whole(p)
<1>1. p \in Nat /\ Size[p] \in Nat /\ Length(p) = Size[p]
  BY ItemFields DEF Length
<1>2. PICK n \in Nat : n = Size[p]
  BY <1>1
<1>3. PICK m \in Nat : m = Len(file)
  OBVIOUS
<1>4. Len(Answer(p)) = 2 + n /\ \A i \in 1..n : Answer(p)[2 + i] = <<"data", p, i>>
  BY <1>1, <1>2, AnswerFields
<1>5. 2 + m <= 2 + n /\ \A i \in 1..m : file[i] = Answer(p)[2 + i]
  BY <1>3, <1>4 DEF Follows
<1>6. m \in 0..n /\ \A i \in 1..m : file[i] = <<"data", p, i>>
  <2>1. m \in 0..n
    BY <1>5
  <2>2. \A i \in 1..m : i \in 1..n
    BY <2>1
  <2> QED
    BY <1>4, <1>5, <2>1, <2>2
<1>7. PICK w \in Seq(Units) : w = Whole(p) /\ Len(w) = n
  <2>1. 0 \in Nat /\ 0 + n <= Length(p)
    BY <1>1, <1>2
  <2>2. Data(p, 0, n) \in Seq(Units) /\ Len(Data(p, 0, n)) = n
    BY <1>1, <2>1, DataFollows
  <2> QED
    BY <1>2, <2>2 DEF Whole
<1>8. \A i \in 1..n : w[i] = <<"data", p, i>>
  <2>1. w = [i \in 1..n |-> <<"data", p, 0 + i>>]
    BY <1>2, <1>7 DEF Whole, Data
  <2>2. \A i \in 1..n : 0 + i = i
    OBVIOUS
  <2> QED
    BY <2>1, <2>2
<1>9. PICK b \in Seq(Units) : b = Before(w, m) /\ Len(b) = m /\ \A i \in 1..m : b[i] = w[i]
  <2>1. m \in 0..Len(w)
    BY <1>6, <1>7
  <2> QED
    BY <1>7, <2>1, BeforeFields
<1>10. \A i \in 1..m : file[i] = b[i]
  <2>1. \A i \in 1..m : i \in 1..n
    BY <1>6
  <2> QED
    BY <1>6, <1>8, <1>9, <2>1
<1>11. file = b
  BY <1>3, <1>9, <1>10, SeqEqual
<1>12. m = n => file = w
  <2>1. \A i \in 1..m : file[i] = w[i]
    BY <1>9, <1>10
  <2> QED
    BY <1>3, <1>7, <2>1, SeqEqual
<1>13. b = SubSeq(Whole(p), 1, Len(file))
  BY <1>3, <1>7, <1>9 DEF Before
<1> QED
  BY <1>2, <1>3, <1>6, <1>7, <1>11, <1>12, <1>13

\* A step of client c with its connection k, which then is as in j, and its file.
LEMMA ClientActs ==
  ASSUME LoopInv, NEW c \in Clients, client[c].at # "next", NEW k \in Conns, k = Conn(c),
         NEW m \in ClientType, client' = [client EXCEPT ![c] = m],
         NEW j \in Streams(Units), stream' = [stream EXCEPT ![k] = j],
         NEW file \in Seq(Units), given' = [given EXCEPT ![k] = file],
         UNCHANGED <<serverVars, workload>>,
         m.i = client[c].i, m.at # "connect",
         \/ m.reports = client[c].reports
         \/ \E r : m.reports = Append(client[c].reports, r),
         \/ j.state["server"] = stream[k].state["server"]
         \/ stream[k].state["server"] = "none" /\ j.state["server"] = "pending",
         stream[k].reset /\ stream[k].state["server"] # "none" => j.reset,
         Asked(k)', InOrder(c)',
         IsTrue(m.reports, m.i, PathOf(k), file), PartsOf(c, m, PathOf(k), file)
  PROVE  LoopInv'
<1>1. /\ stream \in [Conns -> Streams(Units)] /\ given \in [Conns -> Seq(Units)]
      /\ client \in [Clients -> ClientType] /\ gfs \in ServerType /\ ctx \in CtxType
      /\ workload \in Workloads
  BY DEF LoopInv, TypeOK
<1>2. /\ stream'[k] = j /\ \A l \in Conns \ {k} : stream'[l] = stream[l] /\ given'[l] = given[l]
      /\ given'[k] = file /\ client'[c] = m /\ \A d \in Clients \ {c} : client'[d] = client[d]
  BY <1>1
<1>3. gfs' = gfs /\ ctx' = ctx /\ workload' = workload
  BY DEF serverVars
<1>4. TypeOK'
  <2>1. stream' \in [Conns -> Streams(Units)] /\ given' \in [Conns -> Seq(Units)]
        /\ client' \in [Clients -> ClientType]
    BY <1>1
  <2> QED
    BY <1>1, <1>3, <2>1 DEF TypeOK
<1>5. ClientParts(c)
  BY DEF LoopInv
<1>6. k[1] = c /\ k[2] = client[c].i /\ k = <<c, client[c].i>>
  BY DEF Conn
<1>7. PathOf(k)' = PathOf(k) /\ Conn(c)' = k
  BY <1>2, <1>3, SamePaths DEF Conn
<1>8. ClientParts(c)'
  BY <1>2, <1>7 DEF ClientParts
<1>9. Fresh(k)'
  <2>1. client[c].i \in Nat
    BY <1>1 DEF ClientType
  <2> QED
    BY <1>2, <1>6, <2>1 DEF Fresh
<1>10. ReportIsTrue(k)'
  BY <1>2, <1>6, <1>7 DEF ReportIsTrue
<1>11. \A l \in Conns : l[1] = c /\ l # k => Asked(l)' /\ Fresh(l)' /\ ReportIsTrue(l)'
  <2>1. Len(client[c].reports) = client[c].i - 1
    BY <1>5 DEF ClientParts, PartsOf
  <2>2. client[c] \in ClientType /\ client'[c].i = client[c].i
    BY <1>1, <1>2
  <2>3. \/ client'[c].reports = client[c].reports
        \/ \E r : client'[c].reports = Append(client[c].reports, r)
    BY <1>2
  <2> QED
    BY <1>2, <1>3, <1>6, <2>1, <2>2, <2>3, OtherRequests
<1>12. \A l \in Conns : l[1] = c => Asked(l)' /\ Fresh(l)' /\ ReportIsTrue(l)'
  BY <1>9, <1>10, <1>11
<1>13. \/ stream'[k].state["server"] = stream[k].state["server"]
       \/ /\ stream[k].state["server"] \notin {"open", "shut"}
          /\ stream'[k].state["server"] \notin {"open", "shut"}
  BY <1>2
<1>14. stream[k].reset /\ stream[k].state["server"] # "none" => stream'[k].reset
  BY <1>2
<1> QED
  BY <1>2, <1>3, <1>4, <1>6, <1>8, <1>12, <1>13, <1>14, ClientStep

\* A client that sends nothing.
LEMMA AskedStays ==
  ASSUME LoopInv, NEW c \in Clients, NEW k \in Conns, k = Conn(c), gfs' = gfs, workload' = workload,
         client'[c].at # "request",
         stream'[k].state["server"] = stream[k].state["server"],
         stream'[k].toward["server"] = stream[k].toward["server"]
  PROVE  Asked(k)'
<1>1. Awaited(k)' = Awaited(k) /\ Heard(k)' = Heard(k) /\ PathOf(k)' = PathOf(k)
  BY SamePaths DEF Awaited, Heard
<1>2. Asked(k) /\ k[1] = c
  BY DEF LoopInv, Conn
<1> QED
  BY <1>1, <1>2 DEF Asked

\* A client does not wait.
LEMMA NobodyWaits ==
  ASSUME NEW c, client'[c].at \notin {"request", "response", "body"}
  PROVE  InOrder(c)'
BY DEF InOrder, Waiting

\* The report of the request that is under way is still to come, and its file is that
\* of its path.
LEMMA ReportToCome ==
  ASSUME LoopInv, NEW c \in Clients, client[c].at # "next", NEW k \in Conns, k = Conn(c)
  PROVE  /\ IsTrue(client[c].reports, client[c].i, PathOf(k), given[k])
         /\ \A file : (file \notin {NoFile, <<>>} =>
                         InMap(PathOf(k)) /\ file = SubSeq(Whole(PathOf(k)), 1, Len(file)))
              => IsTrue(client[c].reports, client[c].i, PathOf(k), file)
<1>1. ReportIsTrue(k) /\ k[1] = c /\ k[2] = client[c].i
  BY DEF LoopInv, Conn
<1>2. PICK n \in Nat : n = Len(client[c].reports) /\ client[c].i = n + 1
  <2>1. client[c] \in ClientType
    BY DEF LoopInv, TypeOK
  <2>2. Len(client[c].reports) \in Nat /\ client[c].i \in Nat
    BY <2>1 DEF ClientType
  <2>3. Len(client[c].reports) = client[c].i - 1
    BY DEF LoopInv, ClientParts, PartsOf
  <2> QED
    BY <2>2, <2>3
<1>3. ~(client[c].i <= Len(client[c].reports))
  BY <1>2
<1> QED
  BY <1>1, <1>3 DEF ReportIsTrue, IsTrue

\* The request, its file and its gfcrequest_t are there.
LEMMA RequestStarts ==
  ASSUME LoopInv, NEW c \in Clients, client[c].at = "next", client[c].i < Requests[c],
         client' = [client EXCEPT ![c] =
           [@ EXCEPT !.at = "connect", !.i = client[c].i + 1, !.counter = client[c].counter + 1,
                     !.out = <<<<"get", 0, 0>>, <<"path", GetPath(c), 0>>>>, !.text = <<>>,
                     !.ret = 0, !.status = "ok", !.fileLen = 0, !.received = 0]],
         given' = [given EXCEPT ![<<c, client[c].i + 1>>] = <<>>],
         UNCHANGED <<stream, serverVars, workload>>
  PROVE  LoopInv'
<1>1. /\ stream \in [Conns -> Streams(Units)] /\ given \in [Conns -> Seq(Units)]
      /\ client \in [Clients -> ClientType] /\ gfs \in ServerType /\ ctx \in CtxType
      /\ workload \in Workloads /\ Requests[c] \in Nat
  BY LoopAssumption DEF LoopInv, TypeOK
<1>2. PICK i \in Nat : i = client[c].i
  BY <1>1 DEF ClientType
<1>3. PICK k : k = <<c, i + 1>>
  OBVIOUS
<1>4. k \in Conns /\ k[1] = c /\ k[2] = i + 1
  <2>1. i + 1 \in 1..Requests[c]
    BY <1>1, <1>2
  <2> QED
    BY <1>3, <2>1, ConnFields
<1>5. ClientParts(c) /\ client[c].at = "next"
  BY DEF LoopInv
<1>6. client[c].counter = i /\ Len(client[c].reports) = i
  BY <1>2, <1>5 DEF ClientParts, PartsOf
<1>7. PICK p \in Nat : p = PathOf(k)
  BY <1>1, <1>4, PathInNat
<1>8. GetPath(c) = p
  <2>1. (i + 1) - 1 = i
    OBVIOUS
  <2> QED
    BY <1>4, <1>6, <1>7, <2>1 DEF GetPath, PathOf
<1>9. PICK m : m = [client[c] EXCEPT !.at = "connect", !.i = i + 1, !.counter = i + 1,
                      !.out = Request(p), !.text = <<>>, !.ret = 0, !.status = "ok",
                      !.fileLen = 0, !.received = 0]
  OBVIOUS
<1>10. Request(p) \in Seq(Units) /\ Len(Request(p)) = 2
  BY RequestFields
<1>11. PICK out \in Seq(Units) : out = Request(p)
  BY <1>10
<1>12. /\ m \in ClientType /\ m.at = "connect" /\ m.i = i + 1 /\ m.counter = i + 1 /\ m.out = out
       /\ m.text = <<>> /\ m.ret = 0 /\ m.status = "ok" /\ m.reports = client[c].reports
  <2>1. <<>> \in Seq(Units) /\ i + 1 \in Nat /\ "ok" \in Words
    BY EmptySeq DEF Words
  <2>2. client[c] \in ClientType
    BY <1>1
  <2>3. PICK reports : reports = client[c].reports
    OBVIOUS
  <2>4. reports \in Seq({0, -1} \X Words)
    BY <2>2, <2>3 DEF ClientType
  <2>5. m = [at |-> "connect", i |-> i + 1, counter |-> i + 1, out |-> out, text |-> <<>>,
             ret |-> 0, status |-> "ok", fileLen |-> 0, received |-> 0, reports |-> reports]
    BY <1>9, <1>11, <2>2, <2>3 DEF ClientType
  <2>6. 0 \in Nat /\ 0 \in {0, -1} /\ out \in Seq(Units)
    BY <1>11
  <2>7. m \in ClientType
    BY <2>1, <2>4, <2>5, <2>6 DEF ClientType
  <2>8. /\ m.at = "connect" /\ m.i = i + 1 /\ m.counter = i + 1 /\ m.out = out
        /\ m.text = <<>> /\ m.ret = 0 /\ m.status = "ok" /\ m.reports = reports
    BY <2>5, Zenon
  <2> QED
    BY <2>3, <2>7, <2>8
<1>13. client' = [client EXCEPT ![c] = m]
  BY <1>1, <1>2, <1>6, <1>8, <1>9 DEF Request
<1>14. given' = [given EXCEPT ![k] = <<>>] /\ UNCHANGED <<stream, serverVars, workload>>
  BY <1>2, <1>3
<1>15. /\ client'[c] = m /\ \A d \in Clients \ {c} : client'[d] = client[d]
       /\ given'[k] = <<>> /\ \A l \in Conns \ {k} : given'[l] = given[l]
       /\ gfs' = gfs /\ ctx' = ctx
  BY <1>1, <1>4, <1>13, <1>14 DEF serverVars
<1>16. TypeOK'
  <2>1. <<>> \in Seq(Units)
    BY EmptySeq
  <2>2. client' \in [Clients -> ClientType]
    BY <1>1, <1>12, <1>13
  <2>3. given' \in [Conns -> Seq(Units)]
    BY <1>1, <1>14, <2>1
  <2> QED
    BY <1>1, <1>14, <1>15, <2>2, <2>3 DEF TypeOK
<1>17. ASSUME NEW l \in Conns, l[1] = c
       PROVE  Asked(l)' /\ Fresh(l)' /\ ReportIsTrue(l)'
  <2>1. l[2] \in Nat /\ l[2] > 0 /\ l = <<c, l[2]>>
    BY <1>17, ConnFields, LoopAssumption
  <2>2. Awaited(l)' = Awaited(l) /\ Heard(l)' = Heard(l) /\ PathOf(l)' = PathOf(l)
    BY <1>14, <1>15, SamePaths DEF Awaited, Heard
  <2>3. Asked(l) /\ Fresh(l) /\ ReportIsTrue(l)
    BY DEF LoopInv
  <2>4. Asked(l)'
    <3>1. stream'[l] = stream[l] /\ client'[l[1]].at # "request"
      BY <1>12, <1>14, <1>15, <1>17
    <3> QED
      BY <2>2, <2>3, <3>1 DEF Asked
  <2>5. Fresh(l)'
    <3>1. CASE l[2] = i + 1
      BY <1>2, <1>3, <1>4, <1>12, <1>14, <1>15, <1>17, <2>1, <2>3, <3>1 DEF Fresh
    <3>2. CASE l[2] # i + 1
      <4>1. l # k
        BY <1>4, <3>2
      <4> QED
        BY <1>2, <1>12, <1>14, <1>15, <1>17, <2>1, <2>3, <3>2, <4>1 DEF Fresh
    <3> QED
      BY <3>1, <3>2
  <2>6. ReportIsTrue(l)'
    <3>1. CASE l = k
      <4>1. ~(i + 1 <= Len(client'[c].reports))
        BY <1>6, <1>12, <1>15
      <4>2. l[1] = c /\ l[2] = i + 1 /\ given'[l] = <<>>
        BY <1>4, <1>15, <3>1
      <4> QED
        BY <4>1, <4>2 DEF ReportIsTrue, IsTrue
    <3>2. CASE l # k
      BY <1>12, <1>15, <1>17, <2>2, <2>3, <3>2 DEF ReportIsTrue
    <3> QED
      BY <3>1, <3>2
  <2> QED
    BY <2>4, <2>5, <2>6
<1>18. InOrder(c)'
  BY <1>12, <1>15, NobodyWaits
<1>19. ClientParts(c)'
  <2>1. Conn(c)' = k /\ PathOf(k)' = p
    BY <1>3, <1>7, <1>12, <1>14, <1>15, SamePaths DEF Conn
  <2>2. i + 1 <= Requests[c]
    BY <1>1, <1>2
  <2>3. Follows(out, Request(p), 0)
    <3>1. Len(out) = 2 /\ 0 + 2 <= 2 /\ \A l \in 1..2 : 0 + l = l
      BY <1>10, <1>11
    <3> QED
      BY <1>11, <3>1 DEF Follows
  <2>4. Len(out) = 2 /\ i + 1 > 0 /\ (i + 1) - 1 = i /\ 2 - 2 = 0
    BY <1>10, <1>11
  <2>5. PartsOf(c, m, p, <<>>)
    BY <1>6, <1>12, <2>2, <2>3, <2>4 DEF PartsOf
  <2> QED
    BY <1>15, <2>1, <2>5 DEF ClientParts
<1>20. \A l \in Conns \ {k} : stream'[l] = stream[l]
  BY <1>14
<1> QED
  BY <1>4, <1>14, <1>15, <1>16, <1>17, <1>18, <1>19, <1>20, ClientStep

\* The client exits before it asks for anything.
LEMMA RequestGivenUp ==
  ASSUME LoopInv, NEW c \in Clients, client[c].at = "next", client[c].i < Requests[c],
         client' = [client EXCEPT ![c] =
           [@ EXCEPT !.at = "gone", !.i = client[c].i + 1, !.counter = client[c].counter + 1]],
         UNCHANGED <<stream, serverVars, given, workload>>
  PROVE  LoopInv'
<1>1. /\ stream \in [Conns -> Streams(Units)] /\ given \in [Conns -> Seq(Units)]
      /\ client \in [Clients -> ClientType] /\ gfs \in ServerType /\ ctx \in CtxType
      /\ workload \in Workloads /\ Requests[c] \in Nat
  BY LoopAssumption DEF LoopInv, TypeOK
<1>2. PICK i \in Nat : i = client[c].i /\ i < Requests[c]
  BY <1>1 DEF ClientType
<1>3. PICK k : k = <<c, i + 1>>
  OBVIOUS
<1>4. k \in Conns /\ k[1] = c /\ k[2] = i + 1
  <2>1. i + 1 \in 1..Requests[c]
    BY <1>1, <1>2
  <2> QED
    BY <1>3, <2>1, ConnFields
<1>5. ClientParts(c)
  BY DEF LoopInv
<1>6. client[c].counter = i /\ Len(client[c].reports) = i
  BY <1>2, <1>5 DEF ClientParts, PartsOf
<1>7. PICK m : m = [client[c] EXCEPT !.at = "gone", !.i = i + 1, !.counter = i + 1]
  OBVIOUS
<1>8. /\ m \in ClientType /\ m.at = "gone" /\ m.i = i + 1 /\ m.counter = i + 1
      /\ m.reports = client[c].reports
  <2>1. client[c] \in ClientType /\ i + 1 \in Nat
    BY <1>1
  <2> QED
    BY <1>7, <2>1 DEF ClientType
<1>9. client' = [client EXCEPT ![c] = m]
  BY <1>1, <1>2, <1>6, <1>7
<1>10. /\ client'[c] = m /\ \A d \in Clients \ {c} : client'[d] = client[d]
       /\ gfs' = gfs /\ ctx' = ctx
  BY <1>1, <1>9 DEF serverVars
<1>11. TypeOK'
  BY <1>1, <1>8, <1>9, <1>10 DEF TypeOK
<1>12. ASSUME NEW l \in Conns, l[1] = c
       PROVE  Asked(l)' /\ Fresh(l)' /\ ReportIsTrue(l)'
  <2>1. l[2] \in Nat
    BY ConnFields, LoopAssumption
  <2>2. Awaited(l)' = Awaited(l) /\ Heard(l)' = Heard(l) /\ PathOf(l)' = PathOf(l)
    BY <1>10, SamePaths DEF Awaited, Heard
  <2>3. Asked(l) /\ Fresh(l) /\ ReportIsTrue(l)
    BY DEF LoopInv
  <2>4. Asked(l)'
    BY <1>8, <1>10, <1>12, <2>2, <2>3 DEF Asked
  <2>5. Fresh(l)'
    BY <1>2, <1>8, <1>10, <1>12, <2>1, <2>3 DEF Fresh
  <2>6. ReportIsTrue(l)'
    BY <1>8, <1>10, <1>12, <2>2, <2>3 DEF ReportIsTrue
  <2> QED
    BY <2>4, <2>5, <2>6
<1>13. InOrder(c)'
  BY <1>8, <1>10, NobodyWaits
<1>14. ClientParts(c)'
  <2>1. i + 1 <= Requests[c] /\ i + 1 > 0 /\ (i + 1) - 1 = i
    BY <1>1, <1>2
  <2>2. \A q, file : PartsOf(c, m, q, file)
    BY <1>6, <1>8, <2>1 DEF PartsOf
  <2> QED
    BY <1>10, <2>2 DEF ClientParts
<1> QED
  BY <1>4, <1>10, <1>11, <1>12, <1>13, <1>14, ClientStep

LEMMA NextRequestKeeps ==
  ASSUME LoopInv, NEW c \in Clients, NextRequest(c)
  PROVE  LoopInv'
BY RequestStarts, RequestGivenUp DEF NextRequest

LEMMA ConnectKeeps ==
  ASSUME LoopInv, NEW c \in Clients, Connect(c)
  PROVE  LoopInv'
<1>1. /\ stream \in [Conns -> Streams(Units)] /\ given \in [Conns -> Seq(Units)]
      /\ client \in [Clients -> ClientType] /\ workload \in Workloads
  BY DEF LoopInv, TypeOK
<1>2. client[c].at = "connect" /\ client[c] \in ClientType /\ ClientParts(c)
      /\ UNCHANGED <<serverVars, given, workload>>
  BY <1>1 DEF Connect, LoopInv, files
<1>3. PICK k \in Conns : k = Conn(c)
  BY <1>2, ConnIsOwn DEF LoopInv
<1>4. k[1] = c /\ k[2] = client[c].i /\ PartsOf(c, client[c], PathOf(k), given[k])
  BY <1>2, <1>3 DEF ClientParts, Conn
<1>5. stream[k].state["server"] = "none"
  BY <1>2, <1>4 DEF LoopInv, Fresh
<1>6. given' = [given EXCEPT ![k] = given[k]] /\ given[k] \in Seq(Units) /\ gfs' = gfs
  BY <1>1, <1>2 DEF serverVars
<1>7. IsTrue(client[c].reports, client[c].i, PathOf(k), given[k])
  BY <1>2, <1>3, ReportToCome
<1>8. CASE gfs.socket # "listening"
  <2>1. PICK m : m = [client[c] EXCEPT !.at = "report", !.ret = -1]
    OBVIOUS
  <2>2. /\ m \in ClientType /\ m.at = "report" /\ m.ret = -1 /\ m.i = client[c].i
        /\ m.counter = client[c].counter /\ m.reports = client[c].reports
    BY <1>2, <2>1 DEF ClientType
  <2>3. client' = [client EXCEPT ![c] = m] /\ client'[c] = m /\ stream' = stream
    BY <1>1, <1>8, <2>1 DEF Connect, ClientType
  <2>4. stream' = [stream EXCEPT ![k] = stream[k]] /\ stream[k] \in Streams(Units)
    BY <1>1, <2>3
  <2>5. PartsOf(c, m, PathOf(k), given[k])
    BY <1>2, <1>4, <2>2 DEF PartsOf
  <2>6. Asked(k)' /\ InOrder(c)'
    BY <1>2, <1>3, <1>6, <2>2, <2>3, AskedStays, NobodyWaits
  <2> QED
    BY <1>2, <1>3, <1>6, <1>7, <2>2, <2>3, <2>4, <2>5, <2>6, ClientActs
<1>9. CASE gfs.socket = "listening"
  <2>1. PICK m : m = [client[c] EXCEPT !.at = "request"]
    OBVIOUS
  <2>2. /\ m \in ClientType /\ m.at = "request" /\ m.ret = client[c].ret /\ m.i = client[c].i
        /\ m.counter = client[c].counter /\ m.reports = client[c].reports
        /\ m.out = client[c].out /\ m.text = client[c].text /\ m.status = client[c].status
    BY <1>2, <2>1 DEF ClientType
  <2>3. PICK j : j = Connected
    OBVIOUS
  <2>4. /\ j \in Streams(Units) /\ j.state["client"] = "open" /\ j.state["server"] = "pending"
        /\ j.toward["client"] = <<>> /\ j.toward["server"] = <<>>
    BY <2>3, ConnectedFields DEF Sides
  <2>5. client' = [client EXCEPT ![c] = m] /\ client'[c] = m
    BY <1>1, <1>9, <2>1 DEF Connect
  <2>6. stream' = [stream EXCEPT ![k] = j] /\ stream'[k] = j
    BY <1>1, <1>3, <1>9, <2>3 DEF Connect
  <2>7. PartsOf(c, m, PathOf(k), given[k])
    BY <1>2, <1>4, <2>2 DEF PartsOf
  <2>8. gfs.at \in {"reading", "lookup", "sending", "load"} => gfs.conn # k
    BY <1>5 DEF LoopInv, ServesOne, Busy
  <2>9. PathOf(k)' = PathOf(k) /\ Conn(c)' = k
    BY <1>2, <1>3, <2>2, <2>5, SamePaths DEF Conn
  <2>10. PICK p \in Nat : p = PathOf(k)
    BY <1>1, PathInNat
  <2>11. Follows(<<>>, Request(p), 0) /\ Follows(<<>>, Answer(p), 0) /\ Len(<<>>) = 0
    <3>1. /\ Len(<<>>) = 0 /\ Len(Request(p)) = 2
          /\ Len(Answer(p)) = 2 + Length(p) /\ Length(p) \in Nat
      BY EmptySeq, RequestFields, AnswerFields, LengthInNat
    <3> QED
      BY <3>1 DEF Follows
  <2>12. Asked(k)'
    <3>1. Heard(k)' = <<>>
      BY <1>6, <2>8 DEF Heard
    <3>2. Len(m.out) = 2
      BY <1>2, <1>4, <2>2 DEF PartsOf
    <3>3. PICK e : e = <<>> /\ e = Heard(k)'
      BY <3>1
    <3>4. Len(e) = 0 /\ e = stream'[k].toward["server"] /\ Follows(e, Request(p), Len(e))
      BY <2>4, <2>6, <2>11, <3>3
    <3>5. Len(e) + Len(e) + Len(m.out) = 2
      BY <3>2, <3>4
    <3>6. client'[k[1]].out = m.out
      BY <1>4, <2>5
    <3>7. Request(PathOf(k)') = Request(p)
      BY <2>9, <2>10
    <3>8. /\ Follows(Heard(k)', Request(PathOf(k)'), 0)
          /\ Follows(stream'[k].toward["server"], Request(PathOf(k)'), Len(Heard(k)'))
          /\ Len(Heard(k)') + Len(stream'[k].toward["server"]) + Len(client'[k[1]].out) = 2
      BY <2>11, <3>3, <3>4, <3>5, <3>6, <3>7
    <3> QED
      BY <3>8 DEF Asked
  <2>13. InOrder(c)'
    <3>1. Taken(c)' = 0
      BY <2>2, <2>5 DEF Taken
    <3>2. ~(Busy' /\ gfs'.at # "drain" /\ gfs'.conn = k)
      BY <1>6, <2>8 DEF Busy
    <3> QED
      BY <2>4, <2>6, <2>9, <2>10, <2>11, <3>1, <3>2 DEF InOrder
  <2> QED
    BY <1>2, <1>3, <1>5, <1>6, <1>7, <2>2, <2>4, <2>5, <2>6, <2>7, <2>12, <2>13, ClientActs
<1> QED
  BY <1>8, <1>9

LEMMA CloseConnKeeps ==
  ASSUME LoopInv, NEW c \in Clients, CloseConn(c)
  PROVE  LoopInv'
<1>1. /\ stream \in [Conns -> Streams(Units)] /\ given \in [Conns -> Seq(Units)]
      /\ client \in [Clients -> ClientType]
  BY DEF LoopInv, TypeOK
<1>2. client[c].at = "close" /\ client[c] \in ClientType /\ ClientParts(c)
      /\ UNCHANGED <<serverVars, given, workload>>
  BY <1>1 DEF CloseConn, LoopInv, files
<1>3. PICK k \in Conns : k = Conn(c)
  BY <1>2, ConnIsOwn DEF LoopInv
<1>4. PartsOf(c, client[c], PathOf(k), given[k])
  BY <1>2, <1>3 DEF ClientParts
<1>5. given' = [given EXCEPT ![k] = given[k]] /\ given[k] \in Seq(Units) /\ gfs' = gfs
  BY <1>1, <1>2 DEF serverVars
<1>6. IsTrue(client[c].reports, client[c].i, PathOf(k), given[k])
  BY <1>2, <1>3, ReportToCome
<1>7. PICK m : m = [client[c] EXCEPT !.at = "report"]
  OBVIOUS
<1>8. /\ m \in ClientType /\ m.at = "report" /\ m.ret = client[c].ret /\ m.i = client[c].i
      /\ m.counter = client[c].counter /\ m.reports = client[c].reports
      /\ m.status = client[c].status
  BY <1>2, <1>7 DEF ClientType
<1>9. PICK j : j = Closed(stream[k], "client")
  OBVIOUS
<1>10. "client" \in Sides /\ Peer("client") = "server" /\ stream[k] \in Streams(Units)
  BY <1>1 DEF Sides, Peer
<1>11. /\ j \in Streams(Units) /\ j.state["server"] = stream[k].state["server"]
       /\ j.toward["server"] = stream[k].toward["server"] /\ (stream[k].reset => j.reset)
  <2>1. j.reset = (stream[k].reset \/ stream[k].toward["client"] # <<>>)
    BY <1>9, <1>10, ClosedFields
  <2>2. /\ j \in Streams(Units) /\ j.state["server"] = stream[k].state["server"]
        /\ j.toward["server"] = stream[k].toward["server"]
    BY <1>9, <1>10, ClosedFields
  <2>3. stream[k].reset => j.reset
    BY <2>1, Zenon
  <2> QED
    BY <2>2, <2>3
<1>12. client' = [client EXCEPT ![c] = m] /\ client'[c] = m
  BY <1>1, <1>7 DEF CloseConn
<1>13. stream' = [stream EXCEPT ![k] = j] /\ stream'[k] = j
  BY <1>1, <1>3, <1>9 DEF CloseConn
<1>14. PartsOf(c, m, PathOf(k), given[k])
  BY <1>2, <1>4, <1>8 DEF PartsOf
<1>15. Asked(k)' /\ InOrder(c)'
  BY <1>2, <1>3, <1>5, <1>8, <1>11, <1>12, <1>13, AskedStays, NobodyWaits
<1> QED
  BY <1>2, <1>3, <1>5, <1>6, <1>8, <1>11, <1>12, <1>13, <1>14, <1>15, ClientActs

LEMMA LeaveKeeps ==
  ASSUME LoopInv, NEW c \in Clients, Leave(c)
  PROVE  LoopInv'
<1>1. /\ stream \in [Conns -> Streams(Units)] /\ given \in [Conns -> Seq(Units)]
      /\ client \in [Clients -> ClientType]
  BY DEF LoopInv, TypeOK
<1>2. /\ client[c].at \in {"request", "response", "body"} /\ client[c] \in ClientType
      /\ ClientParts(c) /\ UNCHANGED <<serverVars, given, workload>>
  BY <1>1 DEF Leave, LoopInv, files
<1>3. PICK k \in Conns : k = Conn(c)
  BY <1>2, ConnIsOwn DEF LoopInv
<1>4. PartsOf(c, client[c], PathOf(k), given[k])
  BY <1>2, <1>3 DEF ClientParts
<1>5. given' = [given EXCEPT ![k] = given[k]] /\ given[k] \in Seq(Units) /\ gfs' = gfs
  BY <1>1, <1>2 DEF serverVars
<1>6. IsTrue(client[c].reports, client[c].i, PathOf(k), given[k])
  BY <1>2, <1>3, ReportToCome
<1>7. PICK m : m = [client[c] EXCEPT !.at = "gone"]
  OBVIOUS
<1>8. /\ m \in ClientType /\ m.at = "gone" /\ m.i = client[c].i
      /\ m.counter = client[c].counter /\ m.reports = client[c].reports
  BY <1>2, <1>7 DEF ClientType
<1>9. PICK j \in Departures(stream[k], "client") : stream' = [stream EXCEPT ![k] = j]
  BY <1>3 DEF Leave, Now
<1>10. "client" \in Sides /\ Peer("client") = "server" /\ stream[k] \in Streams(Units)
  BY <1>1 DEF Sides, Peer
<1>11. /\ j \in Streams(Units) /\ j.state["server"] = stream[k].state["server"]
       /\ j.toward["server"] = stream[k].toward["server"] /\ (stream[k].reset => j.reset)
  BY <1>10, DepartureFields
<1>12. client' = [client EXCEPT ![c] = m] /\ client'[c] = m
  BY <1>1, <1>7 DEF Leave
<1>13. stream'[k] = j
  BY <1>1, <1>9
<1>14. PartsOf(c, m, PathOf(k), given[k])
  BY <1>2, <1>4, <1>8 DEF PartsOf
<1>15. Asked(k)' /\ InOrder(c)'
  BY <1>2, <1>3, <1>5, <1>8, <1>11, <1>12, <1>13, AskedStays, NobodyWaits
<1> QED
  BY <1>2, <1>3, <1>5, <1>6, <1>8, <1>9, <1>11, <1>12, <1>14, <1>15, ClientActs

\* A step of client c that waits on, in which the server does nothing.
LEMMA WaitsOn ==
  ASSUME LoopInv, UNCHANGED <<serverVars, workload>>, NEW c \in Clients, Waiting(c),
         NEW k \in Conns, k = Conn(c), Conn(c)' = k,
         stream'[k].state = stream[k].state, stream[k].reset => stream'[k].reset,
         Taken(c)' + Len(stream'[k].toward["client"]) = Taken(c) + Len(stream[k].toward["client"]),
         Follows(stream'[k].toward["client"], Answer(PathOf(k)), Taken(c)')
  PROVE  InOrder(c)'
<1>1. gfs' = gfs /\ ctx' = ctx /\ PathOf(k)' = PathOf(k)
  BY SamePaths DEF serverVars
<1>2. Handed' = Handed /\ Busy' = Busy
  BY <1>1 DEF Handed, SendsNow, Turn, Busy
<1>3. InOrder(c)
  BY DEF LoopInv
<1>4. stream'[k].state["client"] = "open"
  BY <1>3 DEF InOrder
<1>5. stream'[k].state["server"] = "pending" => Taken(c)' + Len(stream'[k].toward["client"]) = 0
  BY <1>3 DEF InOrder
<1>6. Busy' /\ gfs'.at # "drain" /\ gfs'.conn = k /\ ~stream'[k].reset =>
        /\ Taken(c)' + Len(stream'[k].toward["client"]) = Handed'
        /\ gfs'.at = "sending" => Follows(gfs'.out, Answer(PathOf(k)), Handed')
  BY <1>1, <1>2, <1>3 DEF InOrder
<1> QED
  BY <1>1, <1>4, <1>5, <1>6 DEF InOrder

LEMMA SendRequestKeeps ==
  ASSUME LoopInv, NEW c \in Clients, SendRequest(c)
  PROVE  LoopInv'
<1>1. /\ stream \in [Conns -> Streams(Units)] /\ given \in [Conns -> Seq(Units)]
      /\ client \in [Clients -> ClientType] /\ workload \in Workloads
  BY DEF LoopInv, TypeOK
<1>2. client[c].at = "request" /\ client[c] \in ClientType /\ ClientParts(c)
      /\ UNCHANGED <<serverVars, given, workload>>
  BY <1>1 DEF SendRequest, LoopInv, files
<1>3. PICK k \in Conns : k = Conn(c)
  BY <1>2, ConnIsOwn DEF LoopInv
<1>4. k[1] = c /\ k[2] = client[c].i /\ PartsOf(c, client[c], PathOf(k), given[k])
  BY <1>2, <1>3 DEF ClientParts, Conn
<1>5. given' = [given EXCEPT ![k] = given[k]] /\ given[k] \in Seq(Units) /\ gfs' = gfs
  BY <1>1, <1>2 DEF serverVars
<1>6. IsTrue(client[c].reports, client[c].i, PathOf(k), given[k])
  BY <1>2, <1>3, ReportToCome
<1>7. PICK p \in Nat : p = PathOf(k)
  BY <1>1, PathInNat
<1>8. PICK out \in Seq(Units) : out = client[c].out
  BY <1>2 DEF ClientType
<1>9. PICK r \in Sends(stream[k], "client", out) :
        /\ stream' = [stream EXCEPT ![k] = r.stream]
        /\ client' = [client EXCEPT ![c] =
             IF r.ret < 0 THEN [client[c] EXCEPT !.at = "close", !.ret = -1]
             ELSE [client[c] EXCEPT !.out = After(out, r.ret),
                                    !.at = IF r.ret = Len(out) THEN "response" ELSE "request"]]
  BY <1>3, <1>8 DEF SendRequest, Now, After
<1>10. PICK j : j = r.stream
  OBVIOUS
<1>11. "client" \in Sides /\ "server" \in Sides /\ Peer("client") = "server"
       /\ stream[k] \in Streams(Units)
  BY <1>1 DEF Sides, Peer
<1>12. /\ j \in Streams(Units)
       /\ j.state = stream[k].state /\ j.toward["client"] = stream[k].toward["client"]
       /\ stream[k].reset => r.ret = -1 /\ j = stream[k]
       /\ ~stream[k].reset => r.ret \in 0..Len(out)
       /\ ~stream[k].reset /\ stream[k].state["server"] # "closed" =>
            Joins(j.toward["server"], stream[k].toward["server"], Before(out, r.ret))
  <2>1. r \in Sends(stream[k], "client", out)
    BY <1>9
  <2> QED
    BY <1>10, <1>11, <2>1, SendsFields
<1>13. stream' = [stream EXCEPT ![k] = j] /\ stream'[k] = j
  BY <1>1, <1>9, <1>10
<1>14. stream[k].reset \in BOOLEAN
  BY <1>11 DEF Streams
<1>15. CASE r.ret < 0
  <2>1. PICK m : m = [client[c] EXCEPT !.at = "close", !.ret = -1]
    OBVIOUS
  <2>2. /\ m \in ClientType /\ m.at = "close" /\ m.ret = -1 /\ m.i = client[c].i
        /\ m.counter = client[c].counter /\ m.reports = client[c].reports
    BY <1>2, <2>1 DEF ClientType
  <2>3. client' = [client EXCEPT ![c] = m] /\ client'[c] = m
    BY <1>1, <1>9, <1>15, <2>1
  <2>4. j = stream[k]
    BY <1>12, <1>14, <1>15
  <2>5. PartsOf(c, m, PathOf(k), given[k])
    BY <1>2, <1>4, <2>2 DEF PartsOf
  <2>6. Asked(k)' /\ InOrder(c)'
    BY <1>2, <1>3, <1>5, <1>13, <2>2, <2>3, <2>4, AskedStays, NobodyWaits
  <2> QED
    BY <1>2, <1>3, <1>5, <1>6, <1>12, <1>13, <2>2, <2>3, <2>4, <2>5, <2>6, ClientActs
<1>16. CASE ~(r.ret < 0)
  <2>1. ~stream[k].reset
    BY <1>12, <1>16
  <2>2. PICK n \in 0..Len(out) : n = r.ret
    BY <1>12, <2>1
  <2>3. PICK rest \in Seq(Units) : rest = After(out, n) /\ Len(rest) = Len(out) - n
    BY <2>2, AfterFields
  <2>4. PICK at \in {"request", "response"} :
          at = IF r.ret = Len(out) THEN "response" ELSE "request"
    OBVIOUS
  <2>5. PICK m : m = [client[c] EXCEPT !.out = rest, !.at = at]
    OBVIOUS
  <2>6. /\ m \in ClientType /\ m.at = at /\ m.ret = client[c].ret /\ m.i = client[c].i
        /\ m.counter = client[c].counter /\ m.reports = client[c].reports
        /\ m.out = rest /\ m.text = client[c].text /\ m.status = client[c].status
    BY <1>2, <2>3, <2>4, <2>5 DEF ClientType
  <2>7. client' = [client EXCEPT ![c] = m] /\ client'[c] = m
    BY <1>1, <1>9, <1>16, <2>2, <2>3, <2>4, <2>5
  <2>8. PICK u \in Seq(Units) : u = Request(p) /\ Len(u) = 2
    BY <1>7, RequestFields
  <2>9. Len(out) <= 2 /\ Follows(out, u, 2 - Len(out)) /\ client[c].text = <<>>
    BY <1>2, <1>4, <1>7, <1>8, <2>8 DEF PartsOf
  <2>10. Follows(<<>>, Answer(p), 0) /\ Len(<<>>) = 0
    <3>1. Len(<<>>) = 0 /\ Len(Answer(p)) = 2 + Length(p) /\ Length(p) \in Nat
      BY EmptySeq, AnswerFields, LengthInNat
    <3> QED
      BY <3>1 DEF Follows
  <2>11. Len(rest) <= 2 /\ Follows(rest, u, 2 - Len(rest))
    <3>1. PICK b \in Seq(Units) : b = Before(out, n) /\ Len(b) = n
      BY <2>2, BeforeFields
    <3>2. Joins(out, b, rest)
      BY <2>2, <2>3, <3>1, BothJoin
    <3>3. PICK l \in Nat : l = Len(out) /\ l <= 2
      BY <2>9
    <3>4. 2 - l \in Nat /\ (2 - l) + n = 2 - (l - n) /\ l - n <= 2
      BY <2>2, <3>3
    <3>5. Follows(rest, u, (2 - l) + Len(b))
      <4>1. Follows(out, u, 2 - l) /\ 2 - l \in Nat
        BY <2>9, <3>3, <3>4
      <4> QED
        BY <3>2, <4>1, FollowsSplit
    <3> QED
      BY <2>3, <3>1, <3>3, <3>4, <3>5
  <2>12. PartsOf(c, m, PathOf(k), given[k])
    <3>1. m.at \in {"request", "response"} /\ m.text = <<>>
      BY <2>4, <2>6, <2>9
    <3>2. Len(m.out) <= 2 /\ Follows(m.out, Request(p), 2 - Len(m.out))
          /\ Follows(m.text, Answer(p), 0)
      BY <2>6, <2>8, <2>10, <2>11, <3>1
    <3> QED
      BY <1>2, <1>4, <1>7, <2>6, <3>1, <3>2 DEF PartsOf
  <2>13. PathOf(k)' = PathOf(k) /\ Conn(c)' = k
    BY <1>2, <1>3, <2>6, <2>7, SamePaths DEF Conn
  <2>14. Asked(k)'
    <3>1. Awaited(k)' = Awaited(k) /\ Heard(k)' = Heard(k)
      <4>1. stream'[k].state["server"] = stream[k].state["server"]
        BY <1>12, <1>13
      <4> QED
        BY <1>5, <4>1 DEF Awaited, Heard
    <3>2. SUFFICES ASSUME Awaited(k)
                   PROVE  Asked(k)'
      BY <3>1 DEF Asked
    <3>3. stream[k].state["server"] # "closed"
      BY <3>2 DEF Awaited, LoopInv, ServesOne, Busy
    <3>4. PICK h \in Seq(Units) : h = Heard(k)
      <4>1. gfs.text \in Seq(Units) /\ <<>> \in Seq(Units)
        BY EmptySeq DEF LoopInv, TypeOK, ServerType
      <4> QED
        BY <4>1 DEF Heard
    <3>5. PICK in \in Seq(Units) : in = stream[k].toward["server"]
      BY <1>11 DEF Streams
    <3>6. Follows(h, u, 0) /\ Follows(in, u, Len(h)) /\ Len(h) + Len(in) + Len(out) = 2
      BY <1>2, <1>4, <1>7, <1>8, <2>8, <3>2, <3>4, <3>5 DEF LoopInv, Asked
    <3>7. PICK all : all = j.toward["server"]
      OBVIOUS
    <3>8. Joins(all, in, Before(out, n))
      BY <1>12, <2>1, <2>2, <3>3, <3>5, <3>7
    <3>9. PICK a, b, d \in Nat : a = Len(h) /\ b = Len(in) /\ d = Len(out)
      OBVIOUS
    <3>10. Follows(out, u, a + b) /\ Follows(in, u, a) /\ a + b + d = 2
      <4>1. a + b + d = 2
        BY <3>6, <3>9
      <4>2. a + b = 2 - d
        BY <4>1
      <4> QED
        BY <2>9, <3>6, <3>9, <4>1, <4>2
    <3>11. all \in Seq(Units) /\ Len(all) + Len(rest) = b + d /\ Follows(all, u, a)
      <4>1. /\ all \in Seq(Units) /\ Len(all) + Len(After(out, n)) = Len(in) + Len(out)
            /\ Follows(all, u, a)
        BY <2>2, <3>8, <3>9, <3>10, SendMoves, SMTT(30)
      <4> QED
        BY <2>3, <3>9, <4>1
    <3>12. a + Len(all) + Len(rest) = 2
      <4>1. PICK e, f \in Nat : e = Len(all) /\ f = Len(rest)
        BY <3>11
      <4> QED
        BY <3>10, <3>11, <4>1
    <3>13. /\ Heard(k)' = h /\ stream'[k].toward["server"] = all /\ client'[k[1]].out = rest
           /\ Request(PathOf(k)') = u
      BY <1>4, <1>7, <1>13, <2>6, <2>7, <2>8, <2>13, <3>1, <3>4, <3>7
    <3>14. /\ Follows(Heard(k)', Request(PathOf(k)'), 0)
           /\ Follows(stream'[k].toward["server"], Request(PathOf(k)'), Len(Heard(k)'))
           /\ Len(Heard(k)') + Len(stream'[k].toward["server"]) + Len(client'[k[1]].out) = 2
      BY <3>6, <3>9, <3>11, <3>12, <3>13
    <3> QED
      BY <3>14 DEF Asked
  <2>15. InOrder(c)'
    <3>1. Taken(c)' = 0 /\ Taken(c) = 0 /\ Waiting(c)
      BY <1>2, <2>4, <2>6, <2>7, <2>9, <2>10 DEF Taken, Waiting
    <3>2. Follows(stream[k].toward["client"], Answer(PathOf(k)), 0)
      BY <1>3, <3>1 DEF LoopInv, InOrder
    <3>3. stream'[k].state = stream[k].state /\ (stream[k].reset => stream'[k].reset)
          /\ stream'[k].toward["client"] = stream[k].toward["client"]
      BY <1>12, <1>13, <2>1
    <3> QED
      BY <1>2, <1>3, <2>13, <3>1, <3>2, <3>3, WaitsOn
  <2>16. m.at # "connect" /\ j.state["server"] = stream[k].state["server"]
    BY <1>12, <2>4, <2>6
  <2> QED
    BY <1>2, <1>3, <1>5, <1>6, <1>12, <1>13, <2>1, <2>6, <2>7, <2>12, <2>14, <2>15, <2>16,
       ClientActs
<1> QED
  BY <1>15, <1>16

LEMMA ReadResponseKeeps ==
  ASSUME LoopInv, NEW c \in Clients, ReadResponse(c)
  PROVE  LoopInv'
<1>1. /\ stream \in [Conns -> Streams(Units)] /\ given \in [Conns -> Seq(Units)]
      /\ client \in [Clients -> ClientType] /\ workload \in Workloads
  BY DEF LoopInv, TypeOK
<1>2. client[c].at = "response" /\ client[c] \in ClientType /\ ClientParts(c)
      /\ UNCHANGED <<serverVars, workload>>
  BY <1>1 DEF ReadResponse, LoopInv, files
<1>3. PICK k \in Conns : k = Conn(c)
  BY <1>2, ConnIsOwn DEF LoopInv
<1>4. PartsOf(c, client[c], PathOf(k), given[k])
  BY <1>2, <1>3 DEF ClientParts
<1>5. given[k] = <<>> /\ given[k] \in Seq(Units) /\ gfs' = gfs
  BY <1>1, <1>2, <1>4 DEF serverVars, PartsOf
<1>6. IsTrue(client[c].reports, client[c].i, PathOf(k), given[k])
  BY <1>2, <1>3, ReportToCome
<1>7. PICK p \in Nat : p = PathOf(k)
  BY <1>1, PathInNat
<1>8. PICK old \in Seq(Units) : old = client[c].text
  BY <1>2 DEF ClientType
<1>9. PICK r \in Receives(stream[k], "client", Chunk) :
        LET text == old \o r.data
            tail == SubSeq(text, 3, Len(text))
        IN
        /\ stream' = [stream EXCEPT ![k] = r.stream]
        /\ \/ /\ Len(text) < 2
              /\ client' = [client EXCEPT ![c].text = text]
              /\ UNCHANGED given
           \/ /\ client' = [client EXCEPT ![c] =
                   [client[c] EXCEPT !.at = "close", !.ret = -1, !.status = "invalid"]]
              /\ UNCHANGED given
           \/ /\ Len(text) >= 2 /\ text[2][1] # "ok"
              /\ client' = [client EXCEPT ![c] =
                   [client[c] EXCEPT !.at = "close", !.status = text[2][1]]]
              /\ UNCHANGED given
           \/ /\ Len(text) >= 2 /\ text[2][1] = "ok"
              /\ client' = [client EXCEPT ![c] =
                   [client[c] EXCEPT !.at = "body", !.fileLen = text[2][2],
                                     !.received = Len(tail)]]
              /\ given' = [given EXCEPT ![k] = @ \o tail]
  BY <1>3, <1>8 DEF ReadResponse, Now, Puts, files
<1>10. PICK text, tail, j : /\ text = old \o r.data /\ j = r.stream
                            /\ tail = SubSeq(text, 3, Len(text))
  OBVIOUS
<1>11. "client" \in Sides /\ "server" \in Sides /\ Peer("client") = "server"
       /\ stream[k] \in Streams(Units) /\ Chunk \in Nat \ {0}
  BY <1>1, LoopAssumption DEF Sides, Peer
<1>12. /\ j \in Streams(Units) /\ j.state = stream[k].state /\ j.reset = stream[k].reset
       /\ j.toward["server"] = stream[k].toward["server"]
       /\ r.data \in Seq(Units) /\ Joins(stream[k].toward["client"], r.data, j.toward["client"])
  <2>1. r \in Receives(stream[k], "client", Chunk) /\ j = r.stream
    BY <1>9, <1>10
  <2> QED
    BY <1>11, <2>1, ReceivesFields
<1>13. stream' = [stream EXCEPT ![k] = j] /\ stream'[k] = j
  BY <1>1, <1>9, <1>10
<1>14. PICK u \in Seq(Units) : u = Answer(p)
  BY AnswerFields
<1>15. PICK in \in Seq(Units) : in = stream[k].toward["client"]
  BY <1>11 DEF Streams
<1>16. PICK rest \in Seq(Units) : rest = j.toward["client"]
  BY <1>11, <1>12 DEF Streams
<1>17. Waiting(c) /\ Taken(c) = Len(old) /\ Follows(old, u, 0) /\ Follows(in, u, 0 + Len(old))
  <2>1. Waiting(c) /\ Taken(c) = Len(old)
    BY <1>2, <1>8 DEF Waiting, Taken
  <2>2. Follows(old, u, 0)
    BY <1>2, <1>4, <1>7, <1>8, <1>14 DEF PartsOf
  <2>3. Follows(in, u, Len(old))
    BY <1>3, <1>7, <1>14, <1>15, <2>1 DEF LoopInv, InOrder
  <2>4. 0 + Len(old) = Len(old)
    OBVIOUS
  <2> QED
    BY <2>1, <2>2, <2>3, <2>4
<1>18. /\ text \in Seq(Units) /\ Len(text) + Len(rest) = Len(old) + Len(in)
       /\ Follows(text, u, 0) /\ Follows(rest, u, Len(text))
  <2>1. Joins(text, old, r.data) /\ Joins(in, r.data, rest) /\ r.data \in Seq(Units) /\ 0 \in Nat
    <3>1. Joins(text, old, r.data)
      BY <1>10 DEF Joins
    <3> QED
      BY <1>12, <1>15, <1>16, <3>1
  <2>2. /\ text \in Seq(Units) /\ Len(text) + Len(rest) = Len(old) + Len(in)
        /\ Follows(text, u, 0) /\ Follows(rest, u, 0 + Len(text))
    BY <1>17, <2>1, ReceiveMoves
  <2>3. 0 + Len(text) = Len(text)
    BY <2>2
  <2> QED
    BY <2>2, <2>3
<1>19. ASSUME NEW m \in ClientType, client' = [client EXCEPT ![c] = m],
              NEW file \in Seq(Units), given' = [given EXCEPT ![k] = file],
              m.i = client[c].i, m.reports = client[c].reports,
              IsTrue(client[c].reports, client[c].i, PathOf(k), file),
              PartsOf(c, m, PathOf(k), file),
              \/ m.at = "close"
              \/ m.at = "response" /\ Len(m.text) = Len(text)
              \/ m.at = "body" /\ 2 + m.received = Len(text)
       PROVE  LoopInv'
  <2>1. client'[c] = m /\ client'[c].at # "request" /\ m.at # "connect"
    BY <1>1, <1>19
  <2>2. Asked(k)'
    BY <1>2, <1>3, <1>5, <1>12, <1>13, <2>1, AskedStays
  <2>3. InOrder(c)'
    <3>1. CASE m.at = "close"
      BY <2>1, <3>1, NobodyWaits
    <3>2. CASE m.at # "close"
      <4>1. Taken(c)' = Len(text)
        BY <1>19, <2>1, <3>2 DEF Taken
      <4>2. Conn(c)' = k
        BY <1>3, <1>19, <2>1 DEF Conn
      <4>3. Taken(c)' + Len(stream'[k].toward["client"])
              = Taken(c) + Len(stream[k].toward["client"])
        BY <1>13, <1>15, <1>16, <1>17, <1>18, <4>1
      <4>4. Follows(stream'[k].toward["client"], Answer(PathOf(k)), Taken(c)')
        BY <1>7, <1>13, <1>14, <1>16, <1>18, <4>1
      <4>5. stream'[k].state = stream[k].state /\ (stream[k].reset => stream'[k].reset)
        BY <1>12, <1>13
      <4> QED
        BY <1>2, <1>3, <1>17, <4>2, <4>3, <4>4, <4>5, WaitsOn
    <3> QED
      BY <3>1, <3>2
  <2>4. j.state["server"] = stream[k].state["server"] /\ (stream[k].reset => j.reset)
    BY <1>12
  <2> QED
    BY <1>2, <1>3, <1>12, <1>13, <1>19, <2>1, <2>2, <2>3, <2>4, ClientActs
<1>20. given' = given => given' = [given EXCEPT ![k] = given[k]]
  BY <1>1
<1>21. Len(text) >= 2 => /\ text[2] = <<Status(p), Length(p), 0>> /\ text[2][1] = Status(p)
                         /\ text[2][2] = Length(p)
  <2>1. PICK n \in Nat : n = Len(text)
    BY <1>18
  <2>2. \A i \in 1..n : text[i] = u[0 + i]
    <3>1. Follows(text, u, 0)
      BY <1>18
    <3> QED
      BY <2>1, <3>1 DEF Follows
  <2>3. u[2] = <<Status(p), Length(p), 0>> /\ 0 + 2 = 2
    <3>1. u[2] = <<Status(p), Length(p), 0>>
      BY <1>14, AnswerFields, Zenon
    <3> QED
      BY <3>1
  <2>4. n >= 2 => 2 \in 1..n
    OBVIOUS
  <2> QED
    BY <2>1, <2>2, <2>3, <2>4
<1>22. CASE Len(text) < 2 /\ client' = [client EXCEPT ![c].text = text] /\ UNCHANGED given
  <2>1. PICK m : m = [client[c] EXCEPT !.text = text]
    OBVIOUS
  <2>2. /\ m \in ClientType /\ m.at = "response" /\ m.ret = client[c].ret /\ m.i = client[c].i
        /\ m.counter = client[c].counter /\ m.reports = client[c].reports
        /\ m.text = text /\ m.status = client[c].status
    BY <1>2, <1>18, <2>1 DEF ClientType
  <2>3. client' = [client EXCEPT ![c] = m]
    BY <1>1, <1>22, <2>1
  <2>4. PartsOf(c, m, PathOf(k), given[k])
    BY <1>2, <1>4, <1>7, <1>14, <1>18, <2>2 DEF PartsOf
  <2> QED
    BY <1>5, <1>6, <1>19, <1>20, <1>22, <2>2, <2>3, <2>4
<1>23. CASE /\ client' = [client EXCEPT ![c] =
                 [client[c] EXCEPT !.at = "close", !.ret = -1, !.status = "invalid"]]
            /\ UNCHANGED given
  <2>1. PICK m : m = [client[c] EXCEPT !.at = "close", !.ret = -1, !.status = "invalid"]
    OBVIOUS
  <2>2. /\ m \in ClientType /\ m.at = "close" /\ m.ret = -1 /\ m.i = client[c].i
        /\ m.counter = client[c].counter /\ m.reports = client[c].reports
    BY <1>2, <2>1 DEF ClientType, Words
  <2>3. client' = [client EXCEPT ![c] = m]
    BY <1>23, <2>1
  <2>4. PartsOf(c, m, PathOf(k), given[k])
    BY <1>2, <1>4, <2>2 DEF PartsOf
  <2> QED
    BY <1>5, <1>6, <1>19, <1>20, <1>23, <2>2, <2>3, <2>4
<1>24. CASE /\ Len(text) >= 2 /\ text[2][1] # "ok"
            /\ client' = [client EXCEPT ![c] =
                 [client[c] EXCEPT !.at = "close", !.status = text[2][1]]]
            /\ UNCHANGED given
  <2>1. PICK m : m = [client[c] EXCEPT !.at = "close", !.status = Status(p)]
    OBVIOUS
  <2>2. Status(p) \in Words /\ ~InMap(p)
    BY <1>21, <1>24, LengthInNat DEF Words
  <2>3. /\ m \in ClientType /\ m.at = "close" /\ m.i = client[c].i
        /\ m.counter = client[c].counter /\ m.reports = client[c].reports
        /\ m.status = Status(p)
    BY <1>2, <2>1, <2>2 DEF ClientType
  <2>4. client' = [client EXCEPT ![c] = m]
    BY <1>21, <1>24, <2>1
  <2>5. PartsOf(c, m, PathOf(k), given[k])
    BY <1>2, <1>4, <1>7, <2>2, <2>3 DEF PartsOf
  <2> QED
    BY <1>5, <1>6, <1>19, <1>20, <1>24, <2>3, <2>4, <2>5
<1>25. CASE /\ Len(text) >= 2 /\ text[2][1] = "ok"
            /\ client' = [client EXCEPT ![c] =
                 [client[c] EXCEPT !.at = "body", !.fileLen = text[2][2], !.received = Len(tail)]]
            /\ given' = [given EXCEPT ![k] = @ \o tail]
  <2>1. PICK n \in Nat : n = Len(text) /\ n >= 2
    <3>1. Len(text) >= 2
      BY <1>25, Zenon
    <3>2. text \in Seq(Units)
      BY <1>18
    <3> QED
      BY <3>1, <3>2
  <2>2. InMap(p) /\ Length(p) = Size[p] /\ Size[p] \in Nat
    BY <1>21, <1>25, LengthInNat, ItemFields DEF Length
  <2>3. PICK file \in Seq(Units) : file = After(text, 2) /\ file = tail /\ Len(file) = n - 2
    <3>1. 2 \in 0..Len(text)
      BY <2>1
    <3>2. After(text, 2) = tail
      BY <1>10, <1>18 DEF After
    <3> QED
      BY <1>18, <2>1, <3>1, <3>2, AfterFields
  <2>4. Follows(file, u, 2)
    <3>1. 2 \in 0..Len(text) /\ text \in Seq(Units)
      BY <1>18, <2>1
    <3>2. PICK b \in Seq(Units) : b = Before(text, 2) /\ Len(b) = 2
      <4>1. Before(text, 2) \in Seq(Units) /\ Len(Before(text, 2)) = 2
        BY <3>1, BeforeFields
      <4> QED
        BY <4>1
    <3>3. Joins(text, b, file)
      BY <2>3, <3>1, <3>2, BothJoin
    <3>4. Follows(file, u, 0 + Len(b))
      <4>1. 0 \in Nat /\ Follows(text, u, 0)
        BY <1>18
      <4> QED
        BY <3>3, <4>1, FollowsSplit
    <3>5. 0 + 2 = 2
      OBVIOUS
    <3> QED
      BY <3>2, <3>4, <3>5
  <2>5. given' = [given EXCEPT ![k] = file]
    <3>1. <<>> \o file = file
      BY <2>3
    <3> QED
      BY <1>1, <1>5, <1>25, <2>3, <3>1
  <2>6. PICK m : m = [client[c] EXCEPT !.at = "body", !.fileLen = Length(p), !.received = n - 2]
    OBVIOUS
  <2>7. n - 2 \in Nat /\ 2 + (n - 2) = n /\ Length(p) \in Nat
    BY <2>1, <2>2
  <2>8. /\ m \in ClientType /\ m.at = "body" /\ m.ret = client[c].ret /\ m.i = client[c].i
        /\ m.counter = client[c].counter /\ m.reports = client[c].reports
        /\ m.fileLen = Length(p) /\ m.received = n - 2 /\ m.status = client[c].status
    BY <1>2, <2>6, <2>7 DEF ClientType
  <2>9. client' = [client EXCEPT ![c] = m]
    BY <1>21, <1>25, <2>3, <2>6
  <2>10. PartsOf(c, m, PathOf(k), file)
    BY <1>2, <1>4, <1>7, <1>14, <2>2, <2>3, <2>4, <2>8 DEF PartsOf
  <2>11. IsTrue(client[c].reports, client[c].i, PathOf(k), file)
    BY <1>2, <1>3, <1>7, <1>14, <2>2, <2>4, FileIsBeginning, ReportToCome
  <2> QED
    BY <1>19, <2>1, <2>5, <2>7, <2>8, <2>9, <2>10, <2>11
<1>26. \/ Len(text) < 2 /\ client' = [client EXCEPT ![c].text = text] /\ UNCHANGED given
       \/ /\ client' = [client EXCEPT ![c] =
               [client[c] EXCEPT !.at = "close", !.ret = -1, !.status = "invalid"]]
          /\ UNCHANGED given
       \/ /\ Len(text) >= 2 /\ text[2][1] # "ok"
          /\ client' = [client EXCEPT ![c] =
               [client[c] EXCEPT !.at = "close", !.status = text[2][1]]]
          /\ UNCHANGED given
       \/ /\ Len(text) >= 2 /\ text[2][1] = "ok"
          /\ client' = [client EXCEPT ![c] =
               [client[c] EXCEPT !.at = "body", !.fileLen = text[2][2], !.received = Len(tail)]]
          /\ given' = [given EXCEPT ![k] = @ \o tail]
  BY <1>9, <1>10
<1> QED
  BY <1>22, <1>23, <1>24, <1>25, <1>26

LEMMA FinishReceivingKeeps ==
  ASSUME LoopInv, NEW c \in Clients, FinishReceiving(c)
  PROVE  LoopInv'
<1>1. /\ stream \in [Conns -> Streams(Units)] /\ given \in [Conns -> Seq(Units)]
      /\ client \in [Clients -> ClientType] /\ workload \in Workloads
  BY DEF LoopInv, TypeOK
<1>2. client[c].at = "body" /\ client[c] \in ClientType /\ ClientParts(c)
      /\ UNCHANGED <<serverVars, workload>>
  BY <1>1 DEF FinishReceiving, LoopInv, files
<1>3. PICK k \in Conns : k = Conn(c)
  BY <1>2, ConnIsOwn DEF LoopInv
<1>4. PartsOf(c, client[c], PathOf(k), given[k])
  BY <1>2, <1>3 DEF ClientParts
<1>5. PICK p \in Nat : p = PathOf(k)
  BY <1>1, PathInNat
<1>6. PICK old \in Seq(Units) : old = given[k]
  BY <1>1
<1>7. PICK u \in Seq(Units) : u = Answer(p)
  BY AnswerFields
<1>8. /\ InMap(p) /\ client[c].fileLen = Size[p] /\ client[c].received = Len(old)
      /\ Follows(old, u, 2) /\ client[c].ret = 0 /\ client[c].status = "ok"
  BY <1>2, <1>4, <1>5, <1>6, <1>7 DEF PartsOf
<1>9. gfs' = gfs /\ stream[k] \in Streams(Units) /\ Size[p] \in Nat
  BY <1>1, <1>2, <1>8, ItemFields DEF serverVars
<1>10. IsTrue(client[c].reports, client[c].i, PathOf(k), given[k])
  BY <1>2, <1>3, ReportToCome
<1>11. ASSUME NEW m \in ClientType, client' = [client EXCEPT ![c] = m], m.at = "close",
              m.i = client[c].i, m.counter = client[c].counter, m.reports = client[c].reports,
              \/ m.ret = -1
              \/ m.status = Status(p) /\ (InMap(p) => old = Whole(p)),
              given' = given, NEW j \in Streams(Units), stream' = [stream EXCEPT ![k] = j],
              j.state = stream[k].state, j.reset = stream[k].reset,
              j.toward["server"] = stream[k].toward["server"]
       PROVE  LoopInv'
  <2>1. client'[c] = m /\ stream'[k] = j /\ given' = [given EXCEPT ![k] = old]
    BY <1>1, <1>6, <1>11
  <2>2. PartsOf(c, m, PathOf(k), old)
    BY <1>2, <1>4, <1>5, <1>11 DEF PartsOf
  <2>3. Asked(k)' /\ InOrder(c)'
    BY <1>2, <1>3, <1>9, <1>11, <2>1, AskedStays, NobodyWaits
  <2>4. j.state["server"] = stream[k].state["server"] /\ (stream[k].reset => j.reset)
    BY <1>11
  <2> QED
    BY <1>2, <1>3, <1>6, <1>10, <1>11, <2>1, <2>2, <2>3, <2>4, ClientActs
<1>12. CASE /\ client[c].received = client[c].fileLen
            /\ client' = [client EXCEPT ![c].at = "close"]
            /\ UNCHANGED <<stream, given>>
  <2>1. PICK m : m = [client[c] EXCEPT !.at = "close"]
    OBVIOUS
  <2>2. /\ m \in ClientType /\ m.at = "close" /\ m.i = client[c].i
        /\ m.counter = client[c].counter /\ m.reports = client[c].reports
        /\ m.status = client[c].status
    BY <1>2, <2>1 DEF ClientType
  <2>3. client' = [client EXCEPT ![c] = m] /\ stream' = [stream EXCEPT ![k] = stream[k]]
    BY <1>1, <1>12, <2>1
  <2>4. m.status = Status(p) /\ old = Whole(p)
    <3>1. Len(old) = Size[p]
      BY <1>8, <1>12
    <3> QED
      BY <1>7, <1>8, <2>2, <3>1, FileIsBeginning, LengthInNat
  <2> QED
    BY <1>9, <1>11, <1>12, <2>2, <2>3, <2>4
<1>13. CASE client[c].received < client[c].fileLen
  <2>1. PICK max \in Nat \ {0} :
          max = IF client[c].fileLen - client[c].received < Chunk
                THEN client[c].fileLen - client[c].received ELSE Chunk
    <3>1. client[c].fileLen \in Nat /\ client[c].received \in Nat /\ Chunk \in Nat \ {0}
      BY <1>2, LoopAssumption DEF ClientType
    <3> QED
      BY <1>13, <3>1
  <2>2. PICK r \in Receives(stream[k], "client", max) :
          /\ stream' = [stream EXCEPT ![k] = r.stream]
          /\ IF r.ret > 0
               THEN /\ given' = [given EXCEPT ![k] = @ \o r.data]
                    /\ client' = [client EXCEPT ![c].received = @ + r.ret]
               ELSE /\ client' = [client EXCEPT ![c].at = "close", ![c].ret = -1]
                    /\ UNCHANGED given
    <3>1. ~(client[c].received = client[c].fileLen)
      BY <1>2, <1>13 DEF ClientType
    <3> QED
      BY <1>3, <2>1, <3>1 DEF FinishReceiving, Now, Puts, files
  <2>3. PICK j : j = r.stream
    OBVIOUS
  <2>4. "client" \in Sides /\ "server" \in Sides /\ Peer("client") = "server"
    BY DEF Sides, Peer
  <2>5. /\ j \in Streams(Units) /\ j.state = stream[k].state /\ j.reset = stream[k].reset
        /\ j.toward["server"] = stream[k].toward["server"]
        /\ r.data \in Seq(Units)
        /\ Joins(stream[k].toward["client"], r.data, j.toward["client"])
        /\ (r.ret \in 1..max /\ Len(r.data) = r.ret) \/ r.ret = 0 \/ r.ret = -1
    <3>1. r \in Receives(stream[k], "client", max) /\ j = r.stream
      BY <2>2, <2>3
    <3> QED
      BY <1>9, <2>4, <3>1, ReceivesFields
  <2>6. stream' = [stream EXCEPT ![k] = j] /\ stream'[k] = j
    BY <1>1, <2>2, <2>3
  <2>7. CASE ~(r.ret > 0)
    <3>1. PICK m : m = [client[c] EXCEPT !.at = "close", !.ret = -1]
      OBVIOUS
    <3>2. /\ m \in ClientType /\ m.at = "close" /\ m.ret = -1 /\ m.i = client[c].i
          /\ m.counter = client[c].counter /\ m.reports = client[c].reports
      BY <1>2, <3>1 DEF ClientType
    <3>3. client' = [client EXCEPT ![c] = m] /\ given' = given
      BY <1>1, <2>2, <2>7, <3>1 DEF ClientType
    <3> QED
      BY <1>11, <2>5, <2>6, <3>2, <3>3
  <2>8. CASE r.ret > 0
    <3>1. PICK n \in Nat : n = r.ret /\ Len(r.data) = n
      BY <2>1, <2>5, <2>8
    <3>2. PICK in \in Seq(Units) : in = stream[k].toward["client"]
      BY <1>9, <2>4 DEF Streams
    <3>3. PICK rest \in Seq(Units) : rest = j.toward["client"]
      BY <2>4, <2>5 DEF Streams
    <3>4. PICK file : file = old \o r.data
      OBVIOUS
    <3>5. Waiting(c) /\ Taken(c) = 2 + Len(old) /\ Follows(in, u, 2 + Len(old))
      <4>1. Waiting(c) /\ Taken(c) = 2 + Len(old)
        BY <1>2, <1>8 DEF Waiting, Taken
      <4> QED
        BY <1>3, <1>5, <1>7, <3>2, <4>1 DEF LoopInv, InOrder
    <3>6. /\ file \in Seq(Units) /\ Len(file) = Len(old) + n
          /\ Len(file) + Len(rest) = Len(old) + Len(in)
          /\ Follows(file, u, 2) /\ Follows(rest, u, 2 + Len(file))
      <4>1. Joins(file, old, r.data) /\ Joins(in, r.data, rest) /\ r.data \in Seq(Units)
            /\ 2 \in Nat
        <5>1. Joins(file, old, r.data)
          BY <3>4 DEF Joins
        <5> QED
          BY <2>5, <3>2, <3>3, <5>1
      <4>2. Follows(old, u, 2) /\ Follows(in, u, 2 + Len(old))
        BY <1>8, <3>5
      <4>3. /\ file \in Seq(Units) /\ Len(file) = Len(old) + Len(r.data)
            /\ Len(file) + Len(rest) = Len(old) + Len(in)
            /\ Follows(file, u, 2) /\ Follows(rest, u, 2 + Len(file))
        BY <4>1, <4>2, ReceiveMoves, SMTT(60)
      <4> QED
        BY <3>1, <4>3
    <3>7. given' = [given EXCEPT ![k] = file]
      BY <1>1, <1>6, <2>2, <2>8, <3>4
    <3>8. PICK total \in Nat : total = Len(file) /\ total = client[c].received + r.ret
      <4>1. Len(file) \in Nat /\ Len(file) = Len(old) + n
        BY <3>6
      <4>2. Len(old) = client[c].received /\ n = r.ret
        BY <1>8, <3>1
      <4> QED
        BY <4>1, <4>2
    <3>9. PICK m : m = [client[c] EXCEPT !.received = total]
      OBVIOUS
    <3>10. /\ m \in ClientType /\ m.at = "body" /\ m.ret = client[c].ret /\ m.i = client[c].i
           /\ m.counter = client[c].counter /\ m.reports = client[c].reports
           /\ m.fileLen = client[c].fileLen /\ m.received = total
           /\ m.status = client[c].status
      BY <1>2, <3>9 DEF ClientType
    <3>11. client' = [client EXCEPT ![c] = m] /\ client'[c] = m
      BY <1>1, <2>2, <2>8, <3>8, <3>9 DEF ClientType
    <3>12. PartsOf(c, m, PathOf(k), file)
      BY <1>2, <1>4, <1>5, <1>7, <1>8, <3>6, <3>8, <3>10 DEF PartsOf
    <3>13. IsTrue(client[c].reports, client[c].i, PathOf(k), file)
      BY <1>2, <1>3, <1>5, <1>7, <1>8, <3>6, FileIsBeginning, ReportToCome
    <3>14. Asked(k)'
      BY <1>2, <1>3, <1>9, <2>5, <2>6, <3>10, <3>11, AskedStays
    <3>15. InOrder(c)'
      <4>1. Taken(c)' = 2 + Len(file)
        BY <3>8, <3>10, <3>11 DEF Taken
      <4>2. Conn(c)' = k
        BY <1>3, <3>10, <3>11 DEF Conn
      <4>3. 2 + Len(file) + Len(rest) = 2 + Len(old) + Len(in)
        <5>1. PICK a, b, d, e \in Nat :
                a = Len(file) /\ b = Len(rest) /\ d = Len(old) /\ e = Len(in)
          BY <3>6
        <5>2. a + b = d + e
          BY <3>6, <5>1
        <5>3. 2 + a + b = 2 + d + e
          BY <5>2
        <5> QED
          BY <5>1, <5>3
      <4>4. Taken(c)' + Len(stream'[k].toward["client"])
              = Taken(c) + Len(stream[k].toward["client"])
        BY <2>6, <3>2, <3>3, <3>5, <4>1, <4>3
      <4>5. Follows(stream'[k].toward["client"], Answer(PathOf(k)), Taken(c)')
        BY <1>5, <1>7, <2>6, <3>3, <3>6, <4>1
      <4>6. stream'[k].state = stream[k].state /\ (stream[k].reset => stream'[k].reset)
        BY <2>5, <2>6
      <4> QED
        BY <1>2, <1>3, <3>5, <4>2, <4>4, <4>5, <4>6, WaitsOn
    <3>16. m.at # "connect" /\ j.state["server"] = stream[k].state["server"]
           /\ (stream[k].reset => j.reset) /\ file \in Seq(Units)
      BY <2>5, <3>6, <3>10
    <3> QED
      BY <1>2, <1>3, <2>5, <2>6, <3>7, <3>10, <3>11, <3>12, <3>13, <3>14, <3>15, <3>16,
         ClientActs
  <2> QED
    BY <2>7, <2>8
<1> QED
  BY <1>12, <1>13 DEF FinishReceiving, files

LEMMA ReportKeeps ==
  ASSUME LoopInv, NEW c \in Clients, Report(c)
  PROVE  LoopInv'
<1>1. /\ stream \in [Conns -> Streams(Units)] /\ given \in [Conns -> Seq(Units)]
      /\ client \in [Clients -> ClientType] /\ workload \in Workloads
  BY DEF LoopInv, TypeOK
<1>2. client[c].at = "report" /\ client[c] \in ClientType /\ ClientParts(c)
      /\ UNCHANGED <<stream, serverVars, workload>>
  BY <1>1 DEF Report, LoopInv, files
<1>3. PICK k \in Conns : k = Conn(c)
  BY <1>2, ConnIsOwn DEF LoopInv
<1>4. k[1] = c /\ k[2] = client[c].i /\ PartsOf(c, client[c], PathOf(k), given[k])
  BY <1>2, <1>3 DEF ClientParts, Conn
<1>5. PICK p \in Nat : p = PathOf(k)
  BY <1>1, PathInNat
<1>6. PICK i \in Nat : i = client[c].i /\ i > 0 /\ i <= Requests[c]
  BY <1>2, <1>4 DEF PartsOf, ClientType
<1>7. PICK ret \in {0, -1}, status \in Words : ret = client[c].ret /\ status = client[c].status
  BY <1>2 DEF ClientType
<1>8. ret = 0 => status = Status(p) /\ (InMap(p) => given[k] = Whole(p))
  BY <1>2, <1>4, <1>5, <1>7 DEF PartsOf
<1>9. PICK old \in Seq({0, -1} \X Words) : old = client[c].reports /\ Len(old) = i - 1
  BY <1>2, <1>4, <1>6 DEF PartsOf, ClientType
<1>10. PICK new : new = Append(old, <<ret, status>>)
  OBVIOUS
<1>11. new \in Seq({0, -1} \X Words) /\ Len(new) = i /\ new[i] = <<ret, status>>
  <2>1. <<ret, status>> \in {0, -1} \X Words
    OBVIOUS
  <2>2. Len(old) + 1 = i
    BY <1>6, <1>9
  <2> QED
    BY <1>10, <2>1, <2>2, AppendProperties
<1>12. PICK file : file = IF ret < 0 \/ status # "ok" THEN NoFile ELSE given[k]
  OBVIOUS
<1>13. NoFile \in Seq(Units)
  <2>1. <<"none", 0, 0>> \in Units
    BY DEF Units, Words
  <2> QED
    BY <2>1 DEF NoFile
<1>14. file \in Seq(Units)
  BY <1>1, <1>12, <1>13
<1>15. given' = [given EXCEPT ![k] = file] /\ gfs' = gfs /\ workload' = workload
       /\ stream' = [stream EXCEPT ![k] = stream[k]] /\ stream'[k] = stream[k]
       /\ stream[k] \in Streams(Units)
  BY <1>1, <1>2, <1>3, <1>7, <1>12 DEF Report, Settles, serverVars
<1>16. PICK m : m = [client[c] EXCEPT !.at = "next", !.reports = new]
  OBVIOUS
<1>17. /\ m \in ClientType /\ m.at = "next" /\ m.i = i /\ m.counter = client[c].counter
       /\ m.reports = new
  BY <1>2, <1>6, <1>11, <1>16 DEF ClientType
<1>18. client' = [client EXCEPT ![c] = m] /\ client'[c] = m
  BY <1>1, <1>7, <1>9, <1>10, <1>16 DEF Report, Reports, ClientType
<1>19. PartsOf(c, m, PathOf(k), file)
  BY <1>2, <1>4, <1>6, <1>11, <1>17 DEF PartsOf
<1>20. IsTrue(new, i, p, file)
  <2>1. CASE ret < 0
    BY <1>7, <1>11, <1>12, <2>1 DEF IsTrue
  <2>2. CASE ret = 0 /\ status = "ok"
    <3>1. InMap(p) /\ file = Whole(p)
      BY <1>8, <1>12, <2>2, LengthInNat
    <3>2. IsTrue(client[c].reports, client[c].i, p, file)
      BY <1>2, <1>3, <1>5, <1>12, <2>2, ReportToCome
    <3> QED
      BY <1>11, <2>2, <3>1, <3>2 DEF IsTrue
  <2>3. CASE ret = 0 /\ status # "ok"
    <3>1. file = NoFile
      BY <1>12, <2>3
    <3>2. \/ status = "notfound" /\ p # 0 /\ ~InMap(p)
          \/ status = "invalid" /\ p = 0
      BY <1>8, <2>3, LengthInNat
    <3> QED
      BY <1>11, <2>3, <3>1, <3>2 DEF IsTrue
  <2> QED
    BY <1>7, <2>1, <2>2, <2>3
<1>21. Asked(k)' /\ InOrder(c)'
  BY <1>2, <1>3, <1>15, <1>17, <1>18, AskedStays, NobodyWaits
<1>22. \E r : m.reports = Append(client[c].reports, r)
  BY <1>9, <1>10, <1>17
<1> QED
  BY <1>2, <1>3, <1>5, <1>6, <1>14, <1>15, <1>17, <1>18, <1>19, <1>20, <1>21, <1>22, ClientActs

-----------------------------------------------------------------------------
(* The programs.                                                           *)

LEMMA LoopInit ==
  ASSUME Init
  PROVE  LoopInv
<1>1. <<>> \in Seq(Units) /\ <<>> \in Seq({0, -1} \X Words) /\ Len(<<>>) = 0
  BY EmptySeq
<1>2. NoFile \in Seq(Units)
  <2>1. <<"none", 0, 0>> \in Units
    BY DEF Units, Words
  <2> QED
    BY <2>1 DEF NoFile
<1>3. \A c \in Clients :
        /\ client[c].at = "next" /\ client[c].i = 0 /\ client[c].counter = 0
        /\ client[c].reports = <<>>
  BY DEF Init
<1>4. \A k \in Conns : stream[k] = NoStream /\ stream[k].state["server"] = "none"
  BY NoStreamFields DEF Init, Sides
<1>5. gfs.at = "bind" /\ gfs.conn = NoConn
  BY DEF Init
<1>6. TypeOK
  <2>1. NoStream \in Streams(Units)
    BY NoStreamFields
  <2>2. stream \in [Conns -> Streams(Units)]
    BY <2>1 DEF Init
  <2>3. gfs \in ServerType
    BY <1>1 DEF Init, ServerType
  <2>4. ctx \in CtxType
    BY DEF Init, NoCtx, CtxType
  <2>5. client \in [Clients -> ClientType]
    <3>1. PICK m : m = [at |-> "next", i |-> 0, counter |-> 0, out |-> <<>>, text |-> <<>>,
                        ret |-> 0, status |-> "ok", fileLen |-> 0, received |-> 0,
                        reports |-> <<>>]
      OBVIOUS
    <3>2. m \in ClientType
      BY <1>1, <3>1 DEF ClientType, Words
    <3> QED
      BY <3>1, <3>2 DEF Init
  <2>6. given \in [Conns -> Seq(Units)]
    BY <1>2 DEF Init
  <2> QED
    BY <2>2, <2>3, <2>4, <2>5, <2>6 DEF TypeOK, Init
<1>7. LookupInv
  BY ItemsAssumption DEF Init, LookupInit, LookupInv, SearchInv, LookupIsRight, nitems
<1>8. ServesOne
  BY <1>4, <1>5 DEF ServesOne, Busy
<1>9. HandlerInv
  BY <1>5 DEF HandlerInv, Found, SendsNow
<1>10. ASSUME NEW k \in Conns
       PROVE  Asked(k) /\ Fresh(k) /\ ReportIsTrue(k)
  <2>1. k[1] \in Clients /\ k[2] \in Nat /\ k[2] > 0
    BY ConnFields, LoopAssumption
  <2>2. given[k] = NoFile
    BY DEF Init
  <2>3. client[k[1]].reports = <<>> /\ ~(k[2] <= Len(client[k[1]].reports))
    BY <1>1, <1>3, <2>1
  <2>4. Asked(k)
    BY <1>4, <1>5 DEF Asked, Awaited
  <2>5. Fresh(k)
    BY <1>4, <2>2 DEF Fresh
  <2>6. ReportIsTrue(k)
    BY <2>2, <2>3 DEF ReportIsTrue, IsTrue
  <2> QED
    BY <2>4, <2>5, <2>6
<1>11. ASSUME NEW c \in Clients
       PROVE  InOrder(c) /\ ClientParts(c)
  <2>1. InOrder(c)
    BY <1>3 DEF InOrder, Waiting
  <2>2. Requests[c] \in Nat
    BY LoopAssumption
  <2>3. Len(client[c].reports) = 0
    BY <1>1, <1>3
  <2>4. PartsOf(c, client[c], PathOf(Conn(c)), given[Conn(c)])
    BY <1>3, <2>2, <2>3 DEF PartsOf
  <2> QED
    BY <2>1, <2>4 DEF ClientParts
<1> QED
  BY <1>6, <1>7, <1>8, <1>9, <1>10, <1>11 DEF LoopInv

LEMMA StutterKeeps ==
  ASSUME LoopInv, UNCHANGED vars
  PROVE  LoopInv'
<1>1. /\ stream' = stream /\ gfs' = gfs /\ ctx' = ctx /\ client' = client /\ given' = given
      /\ workload' = workload /\ UNCHANGED lookup
  BY DEF vars, serverVars, files
<1>2. Busy' = Busy /\ Handed' = Handed /\ SendsNow("header")' = SendsNow("header")
      /\ SendsNow("data")' = SendsNow("data") /\ Found' = Found
  BY <1>1 DEF Busy, Handed, SendsNow, Turn, Found
<1>3. LookupInv' /\ search' = search /\ fildes' = fildes /\ key' = key
  BY <1>1, SearchStays DEF LoopInv
<1>4. \A k : PathOf(k)' = PathOf(k)
  BY <1>1, SamePaths
<1>5. TypeOK'
  BY <1>1 DEF LoopInv, TypeOK
<1>6. ServesOne'
  BY <1>1, <1>2, <1>4 DEF LoopInv, ServesOne
<1>7. HandlerInv'
  BY <1>1, <1>2, <1>3, <1>4 DEF LoopInv, HandlerInv
<1>8. ASSUME NEW k \in Conns
      PROVE  Asked(k)'
  <2>1. Awaited(k)' = Awaited(k) /\ Heard(k)' = Heard(k) /\ Asked(k)
    BY <1>1 DEF Awaited, Heard, LoopInv
  <2> QED
    BY <1>1, <1>4, <2>1 DEF Asked
<1>9. ASSUME NEW c \in Clients
      PROVE  InOrder(c)'
  <2>1. Waiting(c)' = Waiting(c) /\ Taken(c)' = Taken(c) /\ Conn(c)' = Conn(c) /\ InOrder(c)
    BY <1>1 DEF Waiting, Taken, Conn, LoopInv
  <2> QED
    BY <1>1, <1>2, <1>4, <2>1 DEF InOrder
<1> QED
  BY <1>1, <1>3, <1>5, <1>6, <1>7, <1>8, <1>9, ServerStep

\* Every step of the programs keeps the inductive invariant.
LEMMA LoopStep ==
  ASSUME LoopInv, [Next]_vars
  PROVE  LoopInv'
<1>1. CASE Serve
  <2>1. CASE CallHandler
    BY <2>1, ContentGetKeeps, RespondKeeps, HeaderSentKeeps, LoadKeeps, DataSentKeeps
       DEF CallHandler
  <2>2. CASE HandleConnection
    BY <2>1, <2>2, ReadRequestKeeps, SendAllKeeps, ErrorSentKeeps, DrainKeeps
       DEF HandleConnection
  <2>3. ASSUME NEW k \in Conns, Accept(k)
        PROVE  LoopInv'
    BY <2>3, AcceptKeeps
  <2> QED
    BY <1>1, <2>2, <2>3, CreateAndBindKeeps, ListenKeeps DEF Serve
<1>2. CASE Stop
  BY <1>2, StopKeeps
<1>3. CASE Unlisten
  BY <1>3, UnlistenKeeps
<1>4. ASSUME NEW c \in Clients, NextRequest(c) \/ Perform(c) \/ Report(c) \/ Leave(c)
      PROVE  LoopInv'
  <2>1. CASE Perform(c)
    BY <2>1, ConnectKeeps, SendRequestKeeps, ReadResponseKeeps, FinishReceivingKeeps,
       CloseConnKeeps DEF Perform
  <2> QED
    BY <1>4, <2>1, NextRequestKeeps, ReportKeeps, LeaveKeeps
<1>5. CASE UNCHANGED vars
  BY <1>5, StutterKeeps
<1> QED
  BY <1>1, <1>2, <1>3, <1>4, <1>5 DEF Next

-----------------------------------------------------------------------------
(* Whose the connections and the contexts are.                             *)

Accepts(j) == j.state["server"] \in {"open", "shut"}

\* What ConnectionsHaveOwner says, that a connection which is served is none that
\* the handler has kept, and that it was not called while the request is read.
OwnedInv ==
  /\ kept \subseteq Conns
  /\ \A k \in kept : InMap(PathOf(k)) /\ Size[PathOf(k)] = 0
  /\ gfs.at # "killed" =>
       /\ \A k \in Conns : Accepts(stream[k]) <=> gfs.conn = k \/ k \in kept
       /\ gfs.conn \notin kept
       /\ ctx.live <=> Called
  /\ gfs.at = "reading" => Len(gfs.text) < 2

\* A step that neither begins nor ends the service of a connection, and does not
\* call the handler.
LEMMA OwnedStays ==
  ASSUME OwnedInv, workload' = workload, kept' = kept, gfs'.conn = gfs.conn,
         ctx'.live = ctx.live, gfs'.at # "killed" => gfs.at # "killed",
         gfs.conn = NoConn \/ (Len(gfs'.text) = 2 <=> Len(gfs.text) = 2),
         gfs'.at = "reading" => Len(gfs'.text) < 2,
         gfs'.at # "killed" => \A k \in Conns : Accepts(stream'[k]) <=> Accepts(stream[k])
  PROVE  OwnedInv'
<1>1. \A k : PathOf(k)' = PathOf(k)
  BY SamePaths
<1>2. \A k \in kept' : InMap(PathOf(k)') /\ Size[PathOf(k)'] = 0
  BY <1>1 DEF OwnedInv
<1>3. Called' <=> Called
  BY DEF Called
<1>4. gfs'.at # "killed" =>
        /\ \A k \in Conns : Accepts(stream'[k]) <=> gfs'.conn = k \/ k \in kept'
        /\ gfs'.conn \notin kept'
        /\ ctx'.live <=> Called'
  BY <1>3 DEF OwnedInv
<1> QED
  BY <1>2, <1>4 DEF OwnedInv, Accepts, InMap

\* The connection that is served before and after a step of the server is open.
LEMMA ServedIsOpen ==
  ASSUME LoopInv, LoopInv', Busy, Busy', gfs'.conn = gfs.conn,
         \A k \in Conns : k # gfs.conn => stream'[k] = stream[k]
  PROVE  \A k \in Conns : Accepts(stream'[k]) <=> Accepts(stream[k])
<1>1. Accepts(stream[gfs.conn]) /\ Accepts(stream'[gfs'.conn])
  BY DEF LoopInv, ServesOne, Accepts, Busy
<1> QED
  BY <1>1

\* A step of the server that goes on with its connection.
LEMMA ServiceGoesOn ==
  ASSUME LoopInv, LoopInv', OwnedInv,
         SendAll \/ ErrorSent \/ ContentGet \/ Respond \/ HeaderSent \/ DataSent,
         gfs'.at # "killed"
  PROVE  OwnedInv'
<1>1. gfs \in ServerType /\ ctx \in CtxType /\ stream \in [Conns -> Streams(Units)]
  BY DEF LoopInv, TypeOK
<1>2. workload' = workload /\ kept' = kept
  BY DEF SendAll, ErrorSent, ContentGet, Respond, HeaderSent, DataSent, clients
<1>3. gfs.at \in {"sending", "lookup"}
  BY DEF SendAll, ErrorSent, ContentGet, Respond, HeaderSent, DataSent, Sent
<1>4. /\ gfs'.at \in {"sending", "lookup", "load", "drain"}
      /\ gfs'.conn = gfs.conn /\ gfs'.text = gfs.text
  <2>1. CASE SendAll
    BY <1>1, <2>1 DEF SendAll, Killed, ServerType
  <2>2. CASE ErrorSent
    BY <1>1, <2>2 DEF ErrorSent, Shut, ServerType
  <2>3. CASE ContentGet
    BY <1>3, <2>3 DEF ContentGet
  <2>4. CASE Respond
    BY <1>1, <2>4 DEF Respond, Sending, ServerType
  <2>5. CASE HeaderSent
    BY <1>1, <2>5 DEF HeaderSent, ServerType
  <2>6. CASE DataSent
    <3>1. gfs' = [gfs EXCEPT !.at = "load"] \/ gfs' = [gfs EXCEPT !.at = "drain"]
      BY <2>6 DEF DataSent, Shut
    <3> QED
      BY <1>1, <3>1 DEF ServerType
  <2> QED
    BY <2>1, <2>2, <2>3, <2>4, <2>5, <2>6
<1>5. ctx'.live = ctx.live
  <2>1. CASE SendAll \/ ErrorSent \/ ContentGet \/ Respond
    BY <2>1 DEF SendAll, ErrorSent, ContentGet, Respond
  <2>2. CASE HeaderSent
    BY <1>1, <2>2 DEF HeaderSent, CtxType
  <2>3. CASE DataSent
    BY <1>1, <2>3 DEF DataSent, CtxType
  <2> QED
    BY <2>1, <2>2, <2>3
<1>6. \A k \in Conns : k # gfs.conn => stream'[k] = stream[k]
  <2>1. CASE SendAll
    <3>1. ~Killed
      BY <1>1, <1>4 DEF Killed, ServerType
    <3>2. stream' = stream \/ \E j : stream' = [stream EXCEPT ![gfs.conn] = j]
      BY <2>1, <3>1 DEF SendAll
    <3> QED
      BY <1>1, <3>2
  <2>2. CASE ErrorSent
    BY <1>1, <2>2 DEF ErrorSent, Shut
  <2>3. CASE ContentGet \/ Respond \/ HeaderSent
    BY <2>3 DEF ContentGet, Respond, HeaderSent
  <2>4. CASE DataSent
    BY <1>1, <2>4 DEF DataSent, Shut
  <2> QED
    BY <2>1, <2>2, <2>3, <2>4
<1>7. Busy /\ Busy'
  BY <1>3, <1>4 DEF Busy
<1>8. \A k \in Conns : Accepts(stream'[k]) <=> Accepts(stream[k])
  BY <1>4, <1>6, <1>7, ServedIsOpen
<1> QED
  BY <1>2, <1>3, <1>4, <1>5, <1>8, OwnedStays

\* A connection begins to be served.
LEMMA AcceptOwns ==
  ASSUME LoopInv, OwnedInv, NEW k \in Conns, Accept(k)
  PROVE  OwnedInv'
<1>1. gfs \in ServerType /\ stream \in [Conns -> Streams(Units)]
  BY DEF LoopInv, TypeOK
<1>2. gfs.at = "select" /\ gfs.conn = NoConn
  BY DEF Accept, LoopInv, ServesOne, Busy
<1>3. /\ gfs' = [gfs EXCEPT !.at = "reading", !.conn = k, !.text = <<>>]
      /\ ctx' = ctx /\ kept' = kept /\ workload' = workload
      /\ stream' = [stream EXCEPT ![k] = Accepted(@)]
      /\ stream[k].state["server"] = "pending"
  BY DEF Accept, clients, IsPending
<1>4. gfs'.at = "reading" /\ gfs'.conn = k /\ Len(gfs'.text) = 0
  <2>1. gfs'.at = "reading" /\ gfs'.conn = k /\ gfs'.text = <<>>
    BY <1>1, <1>3 DEF ServerType
  <2> QED
    BY <2>1, EmptySeq
<1>5. Accepts(stream'[k]) /\ ~Accepts(stream[k])
  <2>1. stream'[k].state["server"] = "open"
    BY <1>1, <1>3, AcceptedFields
  <2> QED
    BY <1>3, <2>1 DEF Accepts
<1>6. \A l \in Conns : l # k => stream'[l] = stream[l]
  BY <1>1, <1>3
<1>7. \A l \in Conns : Accepts(stream[l]) <=> l \in kept
  BY <1>2, NobodyIsConn DEF OwnedInv
<1>8. ~ctx.live
  BY <1>2 DEF OwnedInv, Called
<1>9. \A l : PathOf(l)' = PathOf(l)
  BY <1>3, SamePaths
<1>10. \A l \in kept' : InMap(PathOf(l)') /\ Size[PathOf(l)'] = 0
  BY <1>3, <1>9 DEF OwnedInv
<1>11. ~Called' /\ Len(gfs'.text) < 2
  BY <1>4 DEF Called
<1>12. \A l \in Conns : Accepts(stream'[l]) <=> gfs'.conn = l \/ l \in kept'
  BY <1>3, <1>4, <1>5, <1>6, <1>7
<1>13. gfs'.conn \notin kept' /\ ~ctx'.live
  BY <1>3, <1>4, <1>5, <1>7, <1>8
<1> QED
  BY <1>3, <1>10, <1>11, <1>12, <1>13 DEF OwnedInv, Accepts, InMap

\* The handler is called when the request is all there.
LEMMA ReadRequestOwns ==
  ASSUME LoopInv, LoopInv', OwnedInv, ReadRequest
  PROVE  OwnedInv'
<1>1. /\ gfs \in ServerType /\ ctx \in CtxType /\ stream \in [Conns -> Streams(Units)]
      /\ gfs.at = "reading" /\ gfs.conn \in Conns
  BY DEF LoopInv, TypeOK, ReadRequest, ServesOne, Busy
<1>2. workload' = workload /\ kept' = kept
  BY DEF ReadRequest, clients
<1>3. PICK text, j :
        /\ stream' = [stream EXCEPT ![gfs.conn] = j]
        /\ \/ \E s : gfs' = Sending("error", Header(s, 0)) /\ ctx' = ctx
           \/ gfs' = [gfs EXCEPT !.text = text] /\ Len(text) < 2 /\ ctx' = ctx
           \/ /\ Len(text) = 2
              /\ gfs' = [gfs EXCEPT !.at = "lookup", !.text = text]
              /\ ctx' = [NoCtx EXCEPT !.live = TRUE]
  <2>1. PICK r \in Receives(stream[gfs.conn], "server", Chunk) :
          /\ stream' = [stream EXCEPT ![gfs.conn] = r.stream]
          /\ \/ gfs' = Sending("error", Header("error", 0)) /\ ctx' = ctx
             \/ gfs' = Sending("error", Header("invalid", 0)) /\ ctx' = ctx
             \/ /\ gfs' = [gfs EXCEPT !.text = gfs.text \o r.data]
                /\ Len(gfs.text \o r.data) < 2 /\ ctx' = ctx
             \/ /\ Len(gfs.text \o r.data) = 2
                /\ gfs' = [gfs EXCEPT !.at = "lookup", !.text = gfs.text \o r.data]
                /\ ctx' = [NoCtx EXCEPT !.live = TRUE]
    BY DEF ReadRequest
  <2> QED
    BY <2>1, Zenon
<1>4. Len(gfs.text) < 2 /\ Len(gfs.text) # 2
  <2>1. Len(gfs.text) \in Nat
    BY <1>1 DEF ServerType
  <2>2. Len(gfs.text) < 2
    BY <1>1 DEF OwnedInv
  <2> QED
    BY <2>1, <2>2
<1>5. gfs'.conn = gfs.conn /\ gfs'.at \in {"sending", "reading", "lookup"}
  <2>1. CASE \E s : gfs' = Sending("error", Header(s, 0)) /\ ctx' = ctx
    BY <1>1, <2>1 DEF Sending, ServerType
  <2>2. CASE gfs' = [gfs EXCEPT !.text = text]
    BY <1>1, <2>2 DEF ServerType
  <2>3. CASE gfs' = [gfs EXCEPT !.at = "lookup", !.text = text]
    BY <1>1, <2>3 DEF ServerType
  <2> QED
    BY <1>3, <2>1, <2>2, <2>3
<1>6. \A k \in Conns : Accepts(stream'[k]) <=> Accepts(stream[k])
  <2>1. Busy /\ Busy'
    BY <1>1, <1>5 DEF Busy
  <2>2. \A k \in Conns : k # gfs.conn => stream'[k] = stream[k]
    BY <1>1, <1>3
  <2> QED
    BY <1>5, <2>1, <2>2, ServedIsOpen
<1>7. CASE \E s : gfs' = Sending("error", Header(s, 0)) /\ ctx' = ctx
  <2>1. gfs'.text = gfs.text /\ gfs'.at = "sending"
    BY <1>1, <1>7 DEF Sending, ServerType
  <2> QED
    BY <1>1, <1>2, <1>5, <1>6, <1>7, <2>1, OwnedStays
<1>8. CASE gfs' = [gfs EXCEPT !.text = text] /\ Len(text) < 2 /\ ctx' = ctx
  <2>1. gfs'.text = text /\ Len(text) # 2
    <3>1. gfs'.text = text
      BY <1>1, <1>8 DEF ServerType
    <3>2. Len(gfs'.text) \in Nat
      BY DEF LoopInv, TypeOK, ServerType
    <3> QED
      BY <1>8, <3>1, <3>2
  <2> QED
    BY <1>1, <1>2, <1>4, <1>5, <1>6, <1>8, <2>1, OwnedStays
<1>9. CASE /\ Len(text) = 2
           /\ gfs' = [gfs EXCEPT !.at = "lookup", !.text = text]
           /\ ctx' = [NoCtx EXCEPT !.live = TRUE]
  <2>1. gfs'.text = text /\ gfs'.at = "lookup" /\ ctx'.live
    BY <1>1, <1>9 DEF ServerType, NoCtx
  <2>2. Called'
    BY <1>1, <1>5, <1>9, <2>1, NobodyIsConn DEF Called
  <2>3. \A k : PathOf(k)' = PathOf(k)
    BY <1>2, SamePaths
  <2>4. \A k \in kept' : InMap(PathOf(k)') /\ Size[PathOf(k)'] = 0
    BY <1>2, <2>3 DEF OwnedInv
  <2>5. \A k \in Conns : Accepts(stream'[k]) <=> gfs'.conn = k \/ k \in kept'
    BY <1>1, <1>2, <1>5, <1>6 DEF OwnedInv
  <2>6. kept' \subseteq Conns /\ gfs'.conn \notin kept'
    BY <1>1, <1>2, <1>5 DEF OwnedInv
  <2> QED
    BY <2>1, <2>2, <2>4, <2>5, <2>6 DEF OwnedInv, Accepts, InMap
<1> QED
  BY <1>3, <1>7, <1>8, <1>9

\* The connection is closed, or kept by the handler.
LEMMA ServiceEnds ==
  ASSUME OwnedInv, workload' = workload, gfs'.at = "select", gfs'.conn = NoConn,
         ctx' = NoCtx, NEW k \in Conns, k = gfs.conn, gfs.at # "killed",
         \A l \in Conns : l # k => stream'[l] = stream[l],
         \/ kept' = kept /\ ~Accepts(stream'[k])
         \/ /\ kept' = kept \cup {k} /\ Accepts(stream'[k])
            /\ InMap(PathOf(k)) /\ Size[PathOf(k)] = 0
  PROVE  OwnedInv'
<1>1. \A l : PathOf(l)' = PathOf(l)
  BY SamePaths
<1>2. kept' \subseteq Conns
  BY DEF OwnedInv
<1>3. \A l \in kept' : InMap(PathOf(l)') /\ Size[PathOf(l)'] = 0
  BY <1>1 DEF OwnedInv
<1>4. k \notin kept
  BY DEF OwnedInv
<1>5. ASSUME NEW l \in Conns
      PROVE  Accepts(stream'[l]) <=> gfs'.conn = l \/ l \in kept'
  <2>1. CASE l = k
    BY <1>4, <2>1, NobodyIsConn
  <2>2. CASE l # k
    BY <2>2, NobodyIsConn DEF OwnedInv
  <2> QED
    BY <2>1, <2>2
<1>6. gfs'.conn \notin kept' /\ ~ctx'.live /\ ~Called'
  BY <1>2, NobodyIsConn DEF NoCtx, Called
<1> QED
  BY <1>2, <1>3, <1>5, <1>6 DEF OwnedInv, Accepts, InMap

LEMMA DrainOwns ==
  ASSUME LoopInv, LoopInv', OwnedInv, Drain
  PROVE  OwnedInv'
<1>1. /\ gfs \in ServerType /\ stream \in [Conns -> Streams(Units)]
      /\ gfs.at = "drain" /\ gfs.conn \in Conns
  BY DEF LoopInv, TypeOK, Drain, ServesOne, Busy
<1>2. workload' = workload /\ kept' = kept
  BY DEF Drain, clients
<1>3. PICK r \in Receives(stream[gfs.conn], "server", Chunk) :
        IF r.ret > 0
          THEN stream' = [stream EXCEPT ![gfs.conn] = r.stream] /\ UNCHANGED <<gfs, ctx>>
          ELSE /\ stream' = [stream EXCEPT ![gfs.conn] = Closed(@, "server")]
               /\ gfs' = [gfs EXCEPT !.at = "select", !.conn = NoConn]
               /\ ctx' = NoCtx
  BY DEF Drain
<1>4. \A k \in Conns : k # gfs.conn => stream'[k] = stream[k]
  BY <1>1, <1>3
<1>5. CASE r.ret > 0
  <2>1. gfs' = gfs /\ ctx' = ctx
    BY <1>3, <1>5
  <2>2. \A k \in Conns : Accepts(stream'[k]) <=> Accepts(stream[k])
    BY <1>1, <1>4, <2>1, ServedIsOpen DEF Busy
  <2> QED
    BY <1>1, <1>2, <2>1, <2>2, OwnedStays
<1>6. CASE ~(r.ret > 0)
  <2>1. /\ stream'[gfs.conn] = Closed(stream[gfs.conn], "server") /\ ctx' = NoCtx
        /\ gfs'.at = "select" /\ gfs'.conn = NoConn
    BY <1>1, <1>3, <1>6 DEF ServerType
  <2>2. ~Accepts(stream'[gfs.conn])
    <3>1. "server" \in Sides /\ stream[gfs.conn] \in Streams(Units)
      BY <1>1 DEF Sides
    <3>2. stream'[gfs.conn].state["server"] = "closed"
      BY <2>1, <3>1, ClosedFields
    <3> QED
      BY <3>2 DEF Accepts
  <2> QED
    BY <1>1, <1>2, <1>4, <2>1, <2>2, ServiceEnds
<1> QED
  BY <1>5, <1>6

LEMMA LoadOwns ==
  ASSUME LoopInv, LoopInv', OwnedInv, Load
  PROVE  OwnedInv'
<1>1. /\ gfs \in ServerType /\ stream \in [Conns -> Streams(Units)]
      /\ gfs.at = "load" /\ gfs.conn \in Conns
  BY DEF LoopInv, TypeOK, Load, ServesOne, Busy
<1>2. workload' = workload
  BY DEF Load, clients
<1>3. PICK left : left = ctx.expectSent - ctx.sentSoFar
  OBVIOUS
<1>4. \/ /\ \E data : gfs' = Sending("data", data)
         /\ UNCHANGED <<stream, ctx, kept>>
      \/ Shut(gfs.conn) /\ UNCHANGED <<ctx, kept>>
      \/ /\ left = 0 /\ gfs' = [gfs EXCEPT !.at = "select", !.conn = NoConn]
         /\ ctx' = NoCtx /\ kept' = kept \cup {gfs.conn} /\ UNCHANGED stream
  BY <1>3 DEF Load
<1>5. CASE \/ (\E data : gfs' = Sending("data", data)) /\ UNCHANGED <<stream, ctx, kept>>
           \/ Shut(gfs.conn) /\ UNCHANGED <<ctx, kept>>
  <2>1. /\ gfs'.at \in {"sending", "drain"} /\ gfs'.conn = gfs.conn /\ gfs'.text = gfs.text
        /\ ctx' = ctx /\ kept' = kept
    BY <1>1, <1>5 DEF Sending, Shut, ServerType
  <2>2. \A k \in Conns : k # gfs.conn => stream'[k] = stream[k]
    BY <1>1, <1>5 DEF Shut
  <2>3. \A k \in Conns : Accepts(stream'[k]) <=> Accepts(stream[k])
    BY <1>1, <2>1, <2>2, ServedIsOpen DEF Busy
  <2> QED
    BY <1>1, <1>2, <2>1, <2>3, OwnedStays
<1>6. CASE /\ left = 0 /\ gfs' = [gfs EXCEPT !.at = "select", !.conn = NoConn]
           /\ ctx' = NoCtx /\ kept' = kept \cup {gfs.conn} /\ UNCHANGED stream
  <2>1. gfs'.at = "select" /\ gfs'.conn = NoConn
    BY <1>1, <1>6 DEF ServerType
  <2>2. Accepts(stream'[gfs.conn])
    BY <1>1, <1>6 DEF LoopInv, ServesOne, Busy, Accepts
  <2>3. InMap(PathOf(gfs.conn)) /\ Size[PathOf(gfs.conn)] = 0
    <3>1. PICK p : p = PathOf(gfs.conn)
      OBVIOUS
    <3>2. /\ ctx.expectSent = Size[p] /\ Size[p] \in Nat /\ ctx.sentSoFar \in Nat /\ InMap(p)
          /\ ctx.sentSoFar = 0 \/ ctx.sentSoFar < Size[p]
      BY <1>1, <3>1, TurnFields
    <3> QED
      BY <1>3, <1>6, <3>1, <3>2
  <2> QED
    BY <1>1, <1>2, <1>6, <2>1, <2>2, <2>3, ServiceEnds
<1> QED
  BY <1>4, <1>5, <1>6

\* The server begins or ends to listen, or is killed.
LEMMA ListenerOwns ==
  ASSUME LoopInv, OwnedInv, CreateAndBind \/ Listen \/ Stop \/ Unlisten
  PROVE  OwnedInv'
<1>1. gfs \in ServerType /\ stream \in [Conns -> Streams(Units)]
  BY DEF LoopInv, TypeOK
<1>2. workload' = workload /\ kept' = kept /\ ctx' = ctx
  BY DEF CreateAndBind, Listen, Stop, Unlisten, clients
<1>3. gfs.at \in {"bind", "listen", "select", "unlisten"}
  BY DEF CreateAndBind, Listen, Stop, Unlisten
<1>4. gfs'.at \in {"bind", "listen", "select", "unlisten", "done"} /\ gfs'.conn = gfs.conn
      /\ gfs'.text = gfs.text
  <2>1. CASE CreateAndBind
    <3>1. PICK a : a = gfs.address + 1
      OBVIOUS
    <3>2. \/ gfs' = [gfs EXCEPT !.at = "listen", !.socket = "bound"]
          \/ gfs.at = "bind" /\ gfs' = [gfs EXCEPT !.address = a]
          \/ gfs' = [gfs EXCEPT !.at = "unlisten"]
      BY <2>1, <3>1 DEF CreateAndBind
    <3> QED
      BY <1>1, <3>2 DEF ServerType
  <2>2. CASE Listen \/ Stop \/ Unlisten
    BY <1>1, <2>2 DEF Listen, Stop, Unlisten, ServerType
  <2> QED
    BY <2>1, <2>2
<1>5. ASSUME NEW k \in Conns
      PROVE  Accepts(stream'[k]) <=> Accepts(stream[k])
  <2>1. CASE Unlisten
    <3>1. stream'[k] = Unlistened(stream[k])
      BY <2>1 DEF Unlisten
    <3>2. CASE IsPending(stream[k])
      BY <1>1, <3>1, <3>2, UnlistenedFields DEF IsPending, Accepts
    <3>3. CASE ~IsPending(stream[k])
      BY <1>1, <3>1, <3>3, UnlistenedFields
    <3> QED
      BY <3>2, <3>3
  <2>2. CASE CreateAndBind \/ Listen \/ Stop
    BY <2>2 DEF CreateAndBind, Listen, Stop
  <2> QED
    BY <2>1, <2>2
<1> QED
  BY <1>2, <1>3, <1>4, <1>5, OwnedStays

\* The steps of the clients do not change who serves a connection.
LEMMA ClientOwns ==
  ASSUME LoopInv, OwnedInv, NEW c \in Clients,
         NextRequest(c) \/ Perform(c) \/ Report(c) \/ Leave(c)
  PROVE  OwnedInv'
<1>1. stream \in [Conns -> Streams(Units)] /\ client \in [Clients -> ClientType]
  BY DEF LoopInv, TypeOK
<1>2. gfs' = gfs /\ ctx' = ctx /\ kept' = kept /\ workload' = workload
  BY DEF NextRequest, Perform, Report, Leave, Connect, SendRequest, ReadResponse,
         FinishReceiving, CloseConn, serverVars
<1>3. CASE NextRequest(c) \/ Report(c)
  <2>1. stream' = stream
    BY <1>3 DEF NextRequest, Report
  <2> QED
    BY <1>2, <2>1, OwnedStays DEF OwnedInv
<1>4. CASE Perform(c) \/ Leave(c)
  <2>1. client[c].at # "next"
    BY <1>4 DEF Perform, Leave, Connect, SendRequest, ReadResponse, FinishReceiving, CloseConn
  <2>2. PICK k \in Conns : k = Conn(c) /\ k[1] = c /\ k[2] = client[c].i
    BY <2>1, ConnIsOwn DEF LoopInv
  <2>3. stream[k] \in Streams(Units) /\ "client" \in Sides /\ "server" \in Sides
        /\ Peer("client") = "server"
    BY <1>1 DEF Sides, Peer
  <2>4. PICK j : /\ stream' = [stream EXCEPT ![k] = j]
                 /\ \/ j.state["server"] = stream[k].state["server"]
                    \/ /\ stream[k].state["server"] = "none"
                       /\ j.state["server"] = "pending"
    <3>1. CASE Connect(c)
      <4>1. stream[k].state["server"] = "none"
        BY <2>2, <3>1 DEF Connect, LoopInv, Fresh
      <4>2. Connected.state["server"] = "pending"
        BY ConnectedFields
      <4>3. \/ stream' = [stream EXCEPT ![k] = Connected]
            \/ stream' = [stream EXCEPT ![k] = stream[k]]
        BY <1>1, <2>2, <3>1 DEF Connect
      <4> QED
        BY <4>1, <4>2, <4>3
    <3>2. CASE SendRequest(c)
      <4>1. PICK r \in Sends(stream[k], "client", client[c].out) :
              stream' = [stream EXCEPT ![k] = r.stream]
        BY <2>2, <3>2 DEF SendRequest, Now
      <4>2. client[c].out \in Seq(Units)
        BY <1>1 DEF ClientType
      <4>3. r.stream.state = stream[k].state
        BY <2>3, <4>1, <4>2, SendsFields
      <4> QED
        BY <4>1, <4>3
    <3>3. CASE ReadResponse(c)
      <4>1. PICK r \in Receives(stream[k], "client", Chunk) :
              stream' = [stream EXCEPT ![k] = r.stream]
        BY <2>2, <3>3 DEF ReadResponse, Now
      <4>2. r.stream.state = stream[k].state
        BY <2>3, <4>1, LoopAssumption, ReceivesFields
      <4> QED
        BY <4>1, <4>2
    <3>4. CASE FinishReceiving(c)
      <4>1. CASE stream' = stream
        BY <1>1, <4>1
      <4>2. CASE client[c].received < client[c].fileLen
        <5>1. PICK max \in Nat \ {0} :
                max = IF client[c].fileLen - client[c].received < Chunk
                      THEN client[c].fileLen - client[c].received ELSE Chunk
          <6>1. client[c].fileLen \in Nat /\ client[c].received \in Nat /\ Chunk \in Nat \ {0}
            BY <1>1, LoopAssumption DEF ClientType
          <6> QED
            BY <4>2, <6>1
        <5>2. PICK r \in Receives(stream[k], "client", max) :
                stream' = [stream EXCEPT ![k] = r.stream]
          <6>1. ~(client[c].received = client[c].fileLen)
            BY <1>1, <4>2 DEF ClientType
          <6> QED
            BY <2>2, <3>4, <5>1, <6>1 DEF FinishReceiving, Now
        <5>3. r.stream.state = stream[k].state
          BY <2>3, <5>2, ReceivesFields
        <5> QED
          BY <5>2, <5>3
      <4> QED
        BY <3>4, <4>1, <4>2 DEF FinishReceiving
    <3>5. CASE CloseConn(c)
      <4>1. stream' = [stream EXCEPT ![k] = Closed(stream[k], "client")]
        BY <2>2, <3>5 DEF CloseConn
      <4>2. Closed(stream[k], "client").state["server"] = stream[k].state["server"]
        BY <2>3, ClosedFields
      <4> QED
        BY <4>1, <4>2
    <3>6. CASE Leave(c)
      <4>1. PICK j \in Departures(stream[k], "client") : stream' = [stream EXCEPT ![k] = j]
        BY <2>2, <3>6 DEF Leave, Now
      <4>2. j.state["server"] = stream[k].state["server"]
        BY <2>3, DepartureFields
      <4> QED
        BY <4>1, <4>2
    <3> QED
      BY <1>4, <3>1, <3>2, <3>3, <3>4, <3>5, <3>6 DEF Perform
  <2>5. \A l \in Conns : Accepts(stream'[l]) <=> Accepts(stream[l])
    BY <1>1, <2>4 DEF Accepts
  <2> QED
    BY <1>2, <2>5, OwnedStays DEF OwnedInv
<1> QED
  BY <1>3, <1>4

\* Every step of the programs keeps it.
LEMMA OwnedStep ==
  ASSUME LoopInv, LoopInv', OwnedInv, [Next]_vars
  PROVE  OwnedInv'
<1>1. gfs \in ServerType
  BY DEF LoopInv, TypeOK
<1>2. CASE SendAll \/ ErrorSent \/ ContentGet \/ Respond \/ HeaderSent \/ DataSent
  <2>1. CASE gfs'.at # "killed"
    BY <1>2, <2>1, ServiceGoesOn
  <2>2. CASE gfs'.at = "killed"
    <3>1. workload' = workload /\ kept' = kept
      BY <1>2 DEF SendAll, ErrorSent, ContentGet, Respond, HeaderSent, DataSent, clients
    <3>2. \A k : PathOf(k)' = PathOf(k)
      BY <3>1, SamePaths
    <3>3. kept' \subseteq Conns /\ \A k \in kept' : InMap(PathOf(k)') /\ Size[PathOf(k)'] = 0
      BY <3>1, <3>2 DEF OwnedInv
    <3> QED
      BY <2>2, <3>3 DEF OwnedInv, InMap
  <2> QED
    BY <2>1, <2>2
<1>3. ASSUME NEW k \in Conns, Accept(k)
      PROVE  OwnedInv'
  BY <1>3, AcceptOwns
<1>4. CASE UNCHANGED vars
  <2>1. /\ stream' = stream /\ gfs' = gfs /\ ctx' = ctx /\ kept' = kept
        /\ workload' = workload
    BY <1>4 DEF vars, serverVars
  <2> QED
    BY <2>1, OwnedStays DEF OwnedInv
<1>5. CASE Serve
  BY <1>2, <1>3, <1>5, ListenerOwns, ReadRequestOwns, DrainOwns, LoadOwns
     DEF Serve, HandleConnection, CallHandler
<1> QED
  BY <1>4, <1>5, ListenerOwns, ClientOwns DEF Next

LEMMA OwnedInit ==
  ASSUME Init
  PROVE  OwnedInv
<1>1. /\ kept = {} /\ gfs.at = "bind" /\ gfs.conn = NoConn /\ ctx = NoCtx
      /\ \A k \in Conns : stream[k].state["server"] = "none"
  BY NoStreamFields DEF Init, Sides
<1>2. ~ctx.live /\ ~Called
  BY <1>1 DEF NoCtx, Called
<1> QED
  BY <1>1, <1>2, NobodyIsConn DEF OwnedInv, Accepts

-----------------------------------------------------------------------------
(* What becomes of the local files.                                        *)

\* What ReportsAreTrue says of the local file of k and of what it was given.
FileKept(k) ==
  /\ disk[k] = given[k] \/ k \in short
  /\ given[k] = NoFile => disk[k] = NoFile
  /\ given[k] # NoFile => SomeOf(disk[k], given[k])

FilesInv ==
  /\ disk \in [Conns -> Seq(Units)] /\ short \subseteq Conns
  /\ \A k \in Conns : FileKept(k)

NoFileUnits ==
  /\ NoFile \in Seq(Units) /\ Len(NoFile) = 1 /\ NoFile[1] = <<"none", 0, 0>>
  /\ <<>> \in Seq(Units) /\ NoFile # <<>>

LEMMA NoFileFields == NoFileUnits
<1>1. <<"none", 0, 0>> \in Units
  BY DEF Units, Words
<1>2. NoFile \in Seq(Units) /\ Len(NoFile) = 1 /\ NoFile[1] = <<"none", 0, 0>>
  BY <1>1 DEF NoFile
<1>3. <<>> \in Seq(Units) /\ Len(<<>>) = 0
  BY EmptySeq
<1>4. NoFile # <<>>
  <2>1. NoFile = <<>> => Len(NoFile) = Len(<<>>)
    OBVIOUS
  <2> QED
    BY <1>2, <1>3, <2>1
<1> QED
  BY <1>2, <1>3, <1>4 DEF NoFileUnits

\* The units of a file that was given to stdio have their places in them.
LEMMA GivenInOrder ==
  ASSUME NEW p, InMap(p), NEW file \in Seq(Units), Follows(file, Answer(p), 2)
  PROVE  file # NoFile /\ \A i \in 1..Len(file) : file[i][3] = i
<1>1. PICK n \in Nat : n = Size[p] /\ Length(p) = n /\ p \in Nat
  BY ItemFields DEF Length
<1>2. Len(Answer(p)) = 2 + n /\ \A i \in 1..n : Answer(p)[2 + i] = <<"data", p, i>>
  BY <1>1, AnswerFields
<1>3. PICK m \in Nat : m = Len(file)
  OBVIOUS
<1>4. m <= n /\ \A i \in 1..m : file[i] = Answer(p)[2 + i]
  BY <1>2, <1>3 DEF Follows
<1>5. \A i \in 1..m : file[i] = <<"data", p, i>>
  BY <1>2, <1>4
<1>6. file # NoFile
  <2>1. file = NoFile => m = 1 /\ file[1] = <<"none", 0, 0>>
    BY <1>3, NoFileFields DEF NoFileUnits
  <2>2. m = 1 => file[1] = <<"data", p, 1>>
    BY <1>5
  <2>3. "data" # "none"
    OBVIOUS
  <2> QED
    BY <2>1, <2>2, <2>3
<1> QED
  BY <1>3, <1>5, <1>6

\* The beginning of what has some of the units of a file has some of them.
LEMMA BeginningTaken ==
  ASSUME NEW part \in Seq(Units), NEW whole, SomeOf(part, whole), NEW m \in 0..Len(part),
         NEW new, new = Before(part, m)
  PROVE  new \in Seq(Units) /\ SomeOf(new, whole) /\ (m = Len(part) => new = part)
<1>1. new \in Seq(Units) /\ Len(new) = m /\ \A i \in 1..m : new[i] = part[i]
  BY BeforeFields
<1>2. m \in Nat /\ m <= Len(part) /\ Len(part) \in Nat
  BY LenProperties
<1>3. \A i \in 1..m : i \in 1..Len(part)
  BY <1>2
<1>4. SomeOf(new, whole)
  BY <1>1, <1>3 DEF SomeOf
<1>5. m = Len(part) => new = part
  BY <1>1, SeqEqual
<1> QED
  BY <1>1, <1>4, <1>5

\* What has some of the units of a file, with the first n of those that come next.
LEMMA AppendTaken ==
  ASSUME NEW part \in Seq(Units), NEW whole \in Seq(Units), SomeOf(part, whole),
         NEW data \in Seq(Units), NEW n \in 0..Len(data),
         NEW all, Joins(all, whole, data), \A i \in 1..Len(all) : all[i][3] = i,
         NEW new, Joins(new, part, Before(data, n))
  PROVE  new \in Seq(Units) /\ SomeOf(new, all)
<1>1. PICK v : v = Before(data, n)
  OBVIOUS
<1>2. v \in Seq(Units) /\ Len(v) = n /\ \A i \in 1..n : v[i] = data[i]
  BY <1>1, BeforeFields
<1>3. PICK l \in Nat, w \in Nat, d \in Nat : l = Len(part) /\ w = Len(whole) /\ d = Len(data)
  BY LenProperties
<1>4. n \in Nat /\ n <= d
  BY <1>3
<1>5. /\ new \in Seq(Units) /\ Len(new) = l + n
      /\ \A i \in 1..(l + n) : new[i] = IF i <= l THEN part[i] ELSE v[i - l]
  <2>1. new = part \o v
    BY <1>1 DEF Joins
  <2> QED
    BY <1>2, <1>3, <2>1, ConcatProperties
<1>6. /\ Len(all) = w + d
      /\ \A i \in 1..(w + d) : all[i] = IF i <= w THEN whole[i] ELSE data[i - w]
  BY <1>3, ConcatProperties DEF Joins
<1>7. \A i \in 1..l : /\ part[i][3] \in 1..w /\ part[i] = whole[part[i][3]]
                      /\ \A j \in 1..l : i < j => part[i][3] < part[j][3]
  BY <1>3 DEF SomeOf
<1>8. ASSUME NEW i \in 1..(l + n), i <= l
      PROVE  /\ i \in 1..l /\ new[i] = part[i] /\ new[i][3] \in 1..w
             /\ new[i] = all[new[i][3]]
  <2>1. i \in 1..l /\ new[i] = part[i]
    BY <1>5, <1>8
  <2>2. PICK t \in 1..w : t = part[i][3] /\ part[i] = whole[t]
    BY <1>7, <2>1
  <2>3. t \in 1..(w + d) /\ t <= w
    OBVIOUS
  <2>4. all[t] = whole[t]
    BY <1>6, <2>3
  <2> QED
    BY <2>1, <2>2, <2>4
<1>9. ASSUME NEW i \in 1..(l + n), i > l
      PROVE  new[i][3] = w + (i - l) /\ new[i] = all[w + (i - l)]
  <2>1. i - l \in 1..n /\ i - l \in 1..d /\ w + (i - l) \in 1..(w + d)
        /\ ~(w + (i - l) <= w) /\ (w + (i - l)) - w = i - l
    BY <1>4, <1>9
  <2>2. new[i] = data[i - l]
    BY <1>2, <1>5, <1>9, <2>1
  <2>3. all[w + (i - l)] = data[i - l]
    BY <1>6, <2>1
  <2>4. all[w + (i - l)][3] = w + (i - l)
    BY <1>6, <2>1
  <2> QED
    BY <2>2, <2>3, <2>4
<1>10. ASSUME NEW i \in 1..(l + n)
       PROVE  /\ new[i][3] \in 1..(w + d) /\ new[i] = all[new[i][3]]
              /\ \A j \in 1..(l + n) : i < j => new[i][3] < new[j][3]
  <2>1. CASE i > l
    <3>1. new[i][3] = w + (i - l) /\ w + (i - l) \in 1..(w + d)
      BY <1>4, <1>9, <2>1
    <3>2. \A j \in 1..(l + n) : i < j => new[j][3] = w + (j - l)
      BY <1>9, <2>1
    <3> QED
      BY <1>9, <2>1, <3>1, <3>2
  <2>2. CASE i <= l
    <3>1. i \in 1..l /\ new[i] = part[i] /\ new[i][3] \in 1..w /\ new[i] = all[new[i][3]]
      BY <1>8, <2>2
    <3>2. ASSUME NEW j \in 1..(l + n), i < j
          PROVE  new[i][3] < new[j][3]
      <4>1. CASE j <= l
        BY <1>7, <1>8, <3>1, <3>2, <4>1
      <4>2. CASE j > l
        <5>1. new[j][3] = w + (j - l)
          BY <1>9, <4>2
        <5> QED
          BY <3>1, <4>2, <5>1
      <4> QED
        BY <4>1, <4>2
    <3> QED
      BY <3>1, <3>2
  <2> QED
    BY <2>1, <2>2
<1> QED
  BY <1>5, <1>6, <1>10 DEF SomeOf

\* One file changes.
LEMMA FileStep ==
  ASSUME LoopInv, FilesInv, NEW k \in Conns, NEW d \in Seq(Units), NEW g,
         disk' = [disk EXCEPT ![k] = d], given' = [given EXCEPT ![k] = g],
         short' = short \/ short' = short \cup {k},
         d = g \/ k \in short', g = NoFile => d = NoFile, g # NoFile => SomeOf(d, g)
  PROVE  FilesInv'
<1>1. given \in [Conns -> Seq(Units)] /\ disk \in [Conns -> Seq(Units)] /\ short \subseteq Conns
  BY DEF LoopInv, TypeOK, FilesInv
<1>2. disk' \in [Conns -> Seq(Units)] /\ short' \subseteq Conns
  BY <1>1
<1>3. ASSUME NEW l \in Conns
      PROVE  FileKept(l)'
  <2>1. CASE l = k
    <3>1. disk'[l] = d /\ given'[l] = g
      BY <1>1, <2>1
    <3>2. disk'[l] = given'[l] \/ l \in short'
      BY <2>1, <3>1
    <3> QED
      BY <3>1, <3>2 DEF FileKept, SomeOf
  <2>2. CASE l # k
    <3>1. disk'[l] = disk[l] /\ given'[l] = given[l] /\ (l \in short' <=> l \in short)
      BY <1>1, <2>2
    <3>2. FileKept(l)
      BY DEF FilesInv
    <3> QED
      BY <3>1, <3>2 DEF FileKept, SomeOf
  <2> QED
    BY <2>1, <2>2
<1> QED
  BY <1>2, <1>3 DEF FilesInv

\* writecb.
LEMMA PutsKept ==
  ASSUME LoopInv, FilesInv, NEW c \in Clients, NEW k \in Conns, k = Conn(c),
         NEW data \in Seq(Units), Puts(c, data), given[k] # NoFile, given'[k] # NoFile,
         \A i \in 1..Len(given'[k]) : given'[k][i][3] = i
  PROVE  FilesInv'
<1>1. given \in [Conns -> Seq(Units)] /\ disk \in [Conns -> Seq(Units)]
  BY DEF LoopInv, TypeOK, FilesInv
<1>2. PICK part \in Seq(Units), whole \in Seq(Units) : part = disk[k] /\ whole = given[k]
  BY <1>1
<1>3. SomeOf(part, whole) /\ (part = whole \/ k \in short)
  BY <1>2 DEF FilesInv, FileKept
<1>4. PICK all : all = whole \o data
  OBVIOUS
<1>5. given' = [given EXCEPT ![k] = all] /\ given'[k] = all
  BY <1>1, <1>2, <1>4 DEF Puts
<1>6. PICK n \in Written(Len(data)) :
        /\ disk' = [disk EXCEPT ![k] = part \o Before(data, n)]
        /\ short' = IF Len(data) - n > 0 THEN short \cup {k} ELSE short
  BY <1>2 DEF Puts, Keeps, Before
<1>7. n \in 0..Len(data)
  <2>1. Len(data) \in Nat
    BY LenProperties
  <2> QED
    BY <2>1 DEF Written
<1>8. PICK new : new = part \o Before(data, n)
  OBVIOUS
<1>9. new \in Seq(Units) /\ SomeOf(new, all)
  BY <1>3, <1>4, <1>5, <1>7, <1>8, AppendTaken DEF Joins
<1>10. new = all \/ k \in short'
  <2>1. Len(data) \in Nat /\ n \in Nat /\ n <= Len(data)
    BY <1>7, LenProperties
  <2>2. CASE n = Len(data)
    <3>1. Before(data, n) = data
      <4>1. Before(data, n) \in Seq(Units) /\ Len(Before(data, n)) = n
            /\ \A i \in 1..n : Before(data, n)[i] = data[i]
        BY <1>7, BeforeFields
      <4> QED
        BY <2>2, <4>1, SeqEqual
    <3>2. k \in short => k \in short'
      BY <1>6
    <3> QED
      BY <1>3, <1>4, <1>8, <3>1, <3>2
  <2>3. CASE n # Len(data)
    BY <1>6, <2>1, <2>3
  <2> QED
    BY <2>2, <2>3
<1> QED
  BY <1>5, <1>6, <1>8, <1>9, <1>10, FileStep

\* fclose, and unlink or not.
LEMMA SettlesKept ==
  ASSUME LoopInv, FilesInv, NEW c \in Clients, NEW k \in Conns, k = Conn(c),
         NEW keep \in BOOLEAN, Settles(c, keep), keep => given[k] # NoFile
  PROVE  FilesInv'
<1>1. given \in [Conns -> Seq(Units)] /\ disk \in [Conns -> Seq(Units)]
  BY DEF LoopInv, TypeOK, FilesInv
<1>2. CASE ~keep
  <2>1. /\ disk' = [disk EXCEPT ![k] = NoFile] /\ given' = [given EXCEPT ![k] = NoFile]
        /\ short' = short
    BY <1>2 DEF Settles, Keeps
  <2>2. NoFile \in Seq(Units)
    BY NoFileFields DEF NoFileUnits
  <2> QED
    BY <2>1, <2>2, FileStep
<1>3. CASE keep
  <2>1. PICK part \in Seq(Units) : part = disk[k]
    BY <1>1
  <2>2. SomeOf(part, given[k]) /\ (part = given[k] \/ k \in short)
    BY <1>3, <2>1 DEF FilesInv, FileKept
  <2>3. PICK n \in Written(Len(part)) :
          /\ disk' = [disk EXCEPT ![k] = Before(part, n)] /\ given' = given
          /\ short' = IF Len(part) - n > 0 THEN short \cup {k} ELSE short
    BY <1>3, <2>1 DEF Settles, Keeps, Before
  <2>4. Len(part) \in Nat /\ n \in 0..Len(part)
    <3>1. Len(part) \in Nat
      BY LenProperties
    <3> QED
      BY <3>1 DEF Written
  <2>5. PICK new : new = Before(part, n)
    OBVIOUS
  <2>6. new \in Seq(Units) /\ SomeOf(new, given[k]) /\ (n = Len(part) => new = part)
    BY <2>2, <2>4, <2>5, BeginningTaken
  <2>7. new = given[k] \/ k \in short'
    <3>1. CASE n = Len(part)
      BY <2>2, <2>3, <2>6, <3>1
    <3>2. CASE n # Len(part)
      BY <2>3, <2>4, <3>2
    <3> QED
      BY <3>1, <3>2
  <2>8. given' = [given EXCEPT ![k] = given[k]]
    BY <1>1, <2>3
  <2> QED
    BY <1>3, <2>3, <2>5, <2>6, <2>7, <2>8, FileStep
<1> QED
  BY <1>2, <1>3

\* A file that is being received, before a step and after it.
LEMMA BodyBefore ==
  ASSUME LoopInv, NEW c \in Clients, client[c].at = "body", NEW k \in Conns, k = Conn(c)
  PROVE  given[k] # NoFile
<1>1. given[k] \in Seq(Units)
  BY DEF LoopInv, TypeOK
<1>2. InMap(PathOf(k)) /\ Follows(given[k], Answer(PathOf(k)), 2)
  BY DEF LoopInv, ClientParts, PartsOf
<1> QED
  BY <1>1, <1>2, GivenInOrder

LEMMA BodyAfter ==
  ASSUME LoopInv', NEW c \in Clients, client'[c].at = "body", client'[c].i = client[c].i,
         NEW k \in Conns, k = Conn(c)
  PROVE  given'[k] # NoFile /\ \A i \in 1..Len(given'[k]) : given'[k][i][3] = i
<1>1. given'[k] \in Seq(Units)
  BY DEF LoopInv, TypeOK
<1>2. Conn(c)' = k
  BY DEF Conn
<1>3. InMap(PathOf(k)') /\ Follows(given'[k], Answer(PathOf(k)'), 2)
  <2>1. ClientParts(c)'
    BY DEF LoopInv
  <2> QED
    BY <1>2, <2>1 DEF ClientParts, PartsOf, InMap, Answer, Status, Length
<1> QED
  BY <1>1, <1>3, GivenInOrder

\* Steps that leave the files alone.
LEMMA FilesStay ==
  ASSUME FilesInv, UNCHANGED files
  PROVE  FilesInv'
<1>1. disk' = disk /\ given' = given /\ short' = short
  BY DEF files
<1>2. \A k \in Conns : FileKept(k)'
  BY <1>1 DEF FilesInv, FileKept, SomeOf
<1> QED
  BY <1>1, <1>2 DEF FilesInv

LEMMA ReadResponseFiles ==
  ASSUME LoopInv, LoopInv', FilesInv, NEW c \in Clients, ReadResponse(c)
  PROVE  FilesInv'
<1>1. /\ stream \in [Conns -> Streams(Units)] /\ client \in [Clients -> ClientType]
      /\ client[c].at = "response" /\ client[c].text \in Seq(Units)
  BY DEF LoopInv, TypeOK, ReadResponse, ClientType
<1>2. PICK k \in Conns : k = Conn(c)
  BY <1>1, ConnIsOwn DEF LoopInv
<1>3. PICK r \in Receives(stream[k], "client", Chunk) :
        LET text == client[c].text \o r.data IN
        \/ UNCHANGED files
        \/ /\ Len(text) >= 2
           /\ Puts(c, SubSeq(text, 3, Len(text)))
           /\ client' = [client EXCEPT ![c] =
                [@ EXCEPT !.at = "body", !.fileLen = text[2][2],
                          !.received = Len(SubSeq(text, 3, Len(text)))]]
  BY <1>2 DEF ReadResponse, Now
<1>4. SUFFICES ASSUME NEW text, NEW length, NEW received,
                      text = client[c].text \o r.data, Len(text) >= 2,
                      Puts(c, SubSeq(text, 3, Len(text))),
                      client' = [client EXCEPT ![c] =
                        [@ EXCEPT !.at = "body", !.fileLen = length,
                                  !.received = received]]
               PROVE  FilesInv'
  BY <1>3, FilesStay, Zenon
<1>5. text \in Seq(Units)
  <2>1. r.data \in Seq(Units)
    <3>1. stream[k] \in Streams(Units) /\ "client" \in Sides /\ Chunk \in Nat \ {0}
      BY <1>1, LoopAssumption DEF Sides
    <3> QED
      BY <3>1, ReceivesFields
  <2> QED
    BY <1>1, <1>4, <2>1
<1>6. SubSeq(text, 3, Len(text)) \in Seq(Units)
  <2>1. 2 \in 0..Len(text)
    <3>1. Len(text) \in Nat
      BY <1>5, LenProperties
    <3>2. Len(text) >= 2
      BY <1>4, Zenon
    <3> QED
      BY <3>1, <3>2
  <2>2. After(text, 2) \in Seq(Units)
    BY <1>5, <2>1, AfterFields
  <2> QED
    BY <2>2 DEF After
<1>7. client'[c].at = "body" /\ client'[c].i = client[c].i
  BY <1>1, <1>4 DEF ClientType
<1>8. given[k] # NoFile
  <2>1. given[k] = <<>>
    BY <1>1, <1>2 DEF LoopInv, ClientParts, PartsOf
  <2> QED
    BY <2>1, NoFileFields DEF NoFileUnits
<1> QED
  BY <1>2, <1>4, <1>6, <1>7, <1>8, BodyAfter, PutsKept

LEMMA FinishReceivingFiles ==
  ASSUME LoopInv, LoopInv', FilesInv, NEW c \in Clients, FinishReceiving(c)
  PROVE  FilesInv'
<1>1. /\ stream \in [Conns -> Streams(Units)] /\ client \in [Clients -> ClientType]
      /\ client[c].at = "body"
  BY DEF LoopInv, TypeOK, FinishReceiving
<1>2. PICK k \in Conns : k = Conn(c)
  BY <1>1, ConnIsOwn DEF LoopInv
<1>3. CASE UNCHANGED files
  BY <1>3, FilesStay
<1>4. ASSUME NEW max \in Nat \ {0}, NEW r \in Receives(stream[k], "client", max),
             Puts(c, r.data), client' = [client EXCEPT ![c].received = @ + r.ret]
      PROVE  FilesInv'
  <2>1. r.data \in Seq(Units)
    <3>1. stream[k] \in Streams(Units) /\ "client" \in Sides
      BY <1>1 DEF Sides
    <3> QED
      BY <1>4, <3>1, ReceivesFields
  <2>2. client'[c].at = "body" /\ client'[c].i = client[c].i
    BY <1>1, <1>4 DEF ClientType
  <2> QED
    BY <1>1, <1>2, <1>4, <2>1, <2>2, BodyBefore, BodyAfter, PutsKept
<1>5. CASE client[c].received < client[c].fileLen
  <2>1. client[c].fileLen \in Nat /\ client[c].received \in Nat /\ Chunk \in Nat \ {0}
    BY <1>1, LoopAssumption DEF ClientType
  <2>2. PICK max \in Nat \ {0} :
          max = IF client[c].fileLen - client[c].received < Chunk
                THEN client[c].fileLen - client[c].received ELSE Chunk
    BY <1>5, <2>1
  <2>3. ~(client[c].received = client[c].fileLen)
    BY <1>5, <2>1
  <2>4. \E r \in Receives(stream[k], "client", max) :
          \/ UNCHANGED files
          \/ Puts(c, r.data) /\ client' = [client EXCEPT ![c].received = @ + r.ret]
    BY <1>2, <2>2, <2>3 DEF FinishReceiving, Now
  <2> QED
    BY <1>3, <1>4, <2>4
<1> QED
  BY <1>3, <1>5 DEF FinishReceiving

LEMMA ReportFiles ==
  ASSUME LoopInv, FilesInv, NEW c \in Clients, Report(c)
  PROVE  FilesInv'
<1>1. client[c].at = "report" /\ client[c] \in ClientType
  BY DEF LoopInv, TypeOK, Report
<1>2. PICK k \in Conns : k = Conn(c)
  BY <1>1, ConnIsOwn DEF LoopInv
<1>3. CASE client[c].ret >= 0 /\ client[c].status = "ok"
  <2>1. client[c].ret = 0 /\ client[c].status = "ok"
    BY <1>1, <1>3 DEF ClientType
  <2>2. PICK p \in Nat : p = PathOf(k)
    <3>1. workload \in Workloads
      BY DEF LoopInv, TypeOK
    <3> QED
      BY <3>1, PathInNat
  <2>3. Status(p) = "ok" /\ (InMap(p) => given[k] = Whole(p))
    BY <1>1, <1>2, <2>1, <2>2 DEF LoopInv, ClientParts, PartsOf
  <2>4. InMap(p) /\ given[k] = Whole(p)
    BY <2>3, LengthInNat
  <2>5. PICK n \in Nat : n = Size[p]
    BY <2>4, ItemFields
  <2>6. given[k] = [i \in 1..n |-> <<"data", p, 0 + i>>]
    BY <2>4, <2>5 DEF Whole, Data
  <2>7. given[k] # NoFile
    <3>1. CASE n = 1
      <4>1. given[k][1] = <<"data", p, 0 + 1>>
        BY <2>6, <3>1
      <4>2. given[k][1][1] = "data" /\ NoFile[1][1] = "none"
        BY <4>1, NoFileFields DEF NoFileUnits
      <4> QED
        BY <4>2
    <3>2. CASE n # 1
      <4>1. given[k] \in Seq(Units)
        BY DEF LoopInv, TypeOK
      <4>2. Len(given[k]) = n
        BY <2>6, <4>1
      <4> QED
        BY <3>2, <4>2, NoFileFields DEF NoFileUnits
    <3> QED
      BY <3>1, <3>2
  <2>8. Settles(c, TRUE)
    BY <1>3 DEF Report, Settles
  <2> QED
    BY <1>2, <2>7, <2>8, SettlesKept
<1>4. CASE ~(client[c].ret >= 0 /\ client[c].status = "ok")
  <2>1. Settles(c, FALSE)
    BY <1>4 DEF Report, Settles
  <2> QED
    BY <1>2, <2>1, SettlesKept
<1> QED
  BY <1>3, <1>4

\* Every step of the programs keeps it.
LEMMA FilesStep ==
  ASSUME LoopInv, LoopInv', FilesInv, [Next]_vars
  PROVE  FilesInv'
<1>1. CASE Serve \/ Stop \/ Unlisten
  <2>1. UNCHANGED clients
    BY <1>1 DEF Serve, Stop, Unlisten, HandleConnection, CallHandler, CreateAndBind, Listen,
                Accept, ReadRequest, SendAll, ErrorSent, Drain, ContentGet, Respond,
                HeaderSent, Load, DataSent
  <2> QED
    BY <2>1, FilesStay DEF clients
<1>2. ASSUME NEW c \in Clients, NextRequest(c)
      PROVE  FilesInv'
  <2>1. PICK i \in Nat : i = client[c].i /\ i < Requests[c] /\ Requests[c] \in Nat
    <3>1. client \in [Clients -> ClientType] /\ Requests[c] \in Nat
      BY LoopAssumption DEF LoopInv, TypeOK
    <3> QED
      BY <1>2, <3>1 DEF NextRequest, ClientType
  <2>2. PICK k \in Conns : k = <<c, i + 1>>
    <3>1. i + 1 \in 1..Requests[c]
      BY <2>1
    <3> QED
      BY <3>1, ConnFields
  <2>3. CASE disk' = [disk EXCEPT ![k] = <<>>] /\ given' = [given EXCEPT ![k] = <<>>]
    <3>1. <<>> \in Seq(Units) /\ <<>> # NoFile
      BY NoFileFields DEF NoFileUnits
    <3>2. SomeOf(<<>>, <<>>)
      BY EmptySeq DEF SomeOf
    <3>3. short' = short
      BY <1>2 DEF NextRequest
    <3> QED
      BY <2>3, <3>1, <3>2, <3>3, FileStep
  <2>4. CASE UNCHANGED <<disk, given>>
    <3>1. UNCHANGED files
      BY <1>2, <2>4 DEF NextRequest, files
    <3> QED
      BY <3>1, FilesStay
  <2> QED
    BY <1>2, <2>1, <2>2, <2>3, <2>4 DEF NextRequest
<1>3. ASSUME NEW c \in Clients, Perform(c) \/ Report(c) \/ Leave(c)
      PROVE  FilesInv'
  <2>1. CASE Connect(c) \/ SendRequest(c) \/ CloseConn(c) \/ Leave(c)
    BY <2>1, FilesStay DEF Connect, SendRequest, CloseConn, Leave
  <2> QED
    BY <1>3, <2>1, ReadResponseFiles, FinishReceivingFiles, ReportFiles DEF Perform
<1>4. CASE UNCHANGED vars
  BY <1>4, FilesStay DEF vars
<1> QED
  BY <1>1, <1>2, <1>3, <1>4 DEF Next

LEMMA FilesInit ==
  ASSUME Init
  PROVE  FilesInv
<1>1. /\ disk = [k \in Conns |-> NoFile] /\ given = disk /\ short = {}
  BY DEF Init
<1>2. NoFile \in Seq(Units)
  BY NoFileFields DEF NoFileUnits
<1> QED
  BY <1>1, <1>2 DEF FilesInv, FileKept

-----------------------------------------------------------------------------
(* The theorems.                                                           *)

\* Whatever a download tells its user is true, and when the disk takes everything it is
\* given the local files are those that are reported: for any clients, any workloads,
\* content map and sizes of files, in every order of steps of the server and the
\* downloads, with clients that leave, reads that fail and a server that ends at any
\* time.  Where fwrite or fclose took less, which nobody looks at, success is reported
\* and the local file has only some of the units, in their order.
THEOREM GetfileReportsAreTrue == Spec => []ReportsAreTrue
<1>1. Init => LoopInv /\ FilesInv
  BY LoopInit, FilesInit
<1>2. LoopInv /\ FilesInv /\ [Next]_vars => LoopInv' /\ FilesInv'
  BY LoopStep, FilesStep
<1>3. LoopInv /\ FilesInv => ReportsAreTrue
  <2> SUFFICES ASSUME LoopInv, FilesInv, NEW k \in Conns
               PROVE  /\ IsTrue(client[k[1]].reports, k[2], PathOf(k), given[k])
                      /\ \/ disk[k] = given[k]
                         \/ k \in short /\ given[k] # NoFile /\ SomeOf(disk[k], given[k])
    BY DEF ReportsAreTrue
  <2>1. IsTrue(client[k[1]].reports, k[2], PathOf(k), given[k])
    BY DEF LoopInv, ReportIsTrue
  <2>2. FileKept(k)
    BY DEF FilesInv
  <2> QED
    BY <2>1, <2>2 DEF FileKept
<1> QED
  BY <1>1, <1>2, <1>3, PTL DEF Spec

\* An accepted connection is open exactly while the server serves it, and its context
\* live exactly from the call of the handler until the connection is closed; those that
\* stay open are connections of empty files, whose contexts the handler has kept.
THEOREM GetfileConnectionsHaveOwner == Spec => []ConnectionsHaveOwner
<1>1. Init => LoopInv /\ OwnedInv
  BY LoopInit, OwnedInit
<1>2. LoopInv /\ OwnedInv /\ [Next]_vars => LoopInv' /\ OwnedInv'
  BY LoopStep, OwnedStep
<1>3. LoopInv /\ OwnedInv => ConnectionsHaveOwner
  <2> SUFFICES ASSUME LoopInv, OwnedInv
               PROVE  ConnectionsHaveOwner
    OBVIOUS
  <2>1. gfs.at # "killed" =>
          /\ \A k \in Conns : stream[k].state["server"] \in {"open", "shut"} <=>
                                 gfs.conn = k \/ k \in kept
          /\ ctx.live <=> Called
    BY DEF OwnedInv, Accepts
  <2>2. \A k \in kept : InMap(PathOf(k)) /\ Size[PathOf(k)] = 0
    BY DEF OwnedInv
  <2>3. gfs.at \in {"lookup", "load"} => ctx.live
    BY DEF LoopInv, HandlerInv, Found
  <2>4. gfs.at = "load" => ctx.sentSoFar \in 0..ctx.expectSent
    BY DEF LoopInv, HandlerInv
  <2> QED
    BY <2>1, <2>2, <2>3, <2>4 DEF ConnectionsHaveOwner
<1> QED
  BY <1>1, <1>2, <1>3, PTL DEF Spec

\* Between the steps of everybody else too content_get returns a file of the path it
\* was called with, or -1 when there is none.
THEOREM GetfileLookupRight == Spec => []LookupIsRight
<1>1. Init => LoopInv
  BY LoopInit
<1>2. LoopInv /\ [Next]_vars => LoopInv'
  BY LoopStep
<1>3. LoopInv => LookupIsRight
  BY DEF LoopInv, LookupInv
<1> QED
  BY <1>1, <1>2, <1>3, PTL DEF Spec
================================================================================
