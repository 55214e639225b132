------------------------- MODULE GetfileServerProofs -------------------------
(***************************************************************************)
(* What GetfileServer promises, for any number of connections and workers, *)
(* any files and every fault: the argument follows one connection from     *)
(* accept, through the hands of the boss, the queue and one worker, to the *)
(* end of shutdown_.                                                       *)
(***************************************************************************)
EXTENDS GetfileServer, SequenceTheorems, FiniteSetTheorems, TLAPS

\* No client of a file goes away before it has the file, and no file is empty:
\* where this does not hold the assert of mth_task_destroy_ fails.
Patient ==
  /\ \A c \in Leavers : Request[c] \notin Paths
  /\ \A p \in Paths : Size[p] # 0

\* The first n units of file p.
FirstUnits(p, n) == [i \in 1..n |-> <<p, i>>]

NewGot == [status |-> "none", size |-> 0, data |-> <<>>]

\* What a client has received.
Got == [status : Statuses \cup {"none"}, size : Nat, data : Seq(Paths \X Nat)]

\* The local state of mth_do_work_.
LocalState ==
  [at : {"idle", "start", "notfound", "header", "loop", "send", "drain", "end", "exited"},
   conn : Conns \cup {NoConn}, size : Nat, sent : Nat, numRead : Nat, read : Nat]

\* The four functions of the state that a step changes for one connection only.
SameConn(c) == got'[c] = got[c] /\ sock'[c] = sock[c] /\ ctx'[c] = ctx[c] /\ task'[c] = task[c]

\* The client that waits for a file has not left.
Still(c) == Patient /\ Request[c] \in Paths => client[c] # "left"

\* A request that was read whole, and whose client is still there.
Waits(c) == client[c] \in {"asked", "left"} /\ Request[c] # Malformed /\ Still(c)

\* Neither the handler nor the client has anything of c yet.
Blank(c) == ctx[c].state = "none" /\ task[c].state = "none" /\ got[c] = NewGot

\* A task that owns the context, which owns the socket.
TaskOwns(c) ==
  /\ task[c] = [state |-> "live", path |-> Request[c], ctx |-> TRUE]
  /\ ctx[c].state = "live"
  /\ sock[c] = "open"

\* What c is where nobody has it: not accepted yet, or closed for good.
AtRest(c) ==
  \/ sock[c] = "none" /\ Blank(c) /\ Still(c)
  \/ sock[c] = "closed" /\ ctx[c].state # "live" /\ task[c].state # "live"

BossStage(c, at) ==
  /\ ctx[c].state = "none" /\ task[c].state = "none"
  /\ at \in {"reading", "call", "error", "invalid"} => sock[c] = "open" /\ got[c] = NewGot /\ Still(c)
  /\ at = "call" => tokPath = Request[c] /\ Waits(c)
  /\ at = "drain" => sock[c] = "shut"

QueueStage(c) == TaskOwns(c) /\ Waits(c) /\ got[c] = NewGot

\* The loop of mth_do_work_ and the context count alike; while the client is there,
\* it has received what was sent, and something is missing.
InStep(c, me) ==
  /\ ctx[c].expectSent = me.size
  /\ 0 <= ctx[c].sentSoFar /\ ctx[c].sentSoFar <= me.sent /\ me.sent <= me.size
  /\ ~Gone(c) =>
       /\ got[c].status = "ok" /\ got[c].size = me.size
       /\ ctx[c].sentSoFar = me.sent /\ Len(got[c].data) = me.sent
       /\ me.size # 0 => me.sent < me.size

\* Where a worker is with c, me being its local state.
WorkerStage(c, me) ==
  /\ task[c].state = "live" /\ sock[c] # "none"
  /\ me.at \in {"start", "notfound", "header", "loop", "send"} => TaskOwns(c) /\ Waits(c)
  /\ me.at \in {"start", "notfound", "header"} => got[c] = NewGot
  /\ me.at \in {"start", "header"} => me.sent = 0 /\ me.numRead = 0
  /\ me.at = "notfound" => Request[c] = Missing \/ "stat" \in Faults
  /\ me.at \in {"header", "loop", "send"} =>
       /\ Request[c] \in Paths
       /\ len[Request[c]] <= me.size /\ me.size <= Size[Request[c]]
       /\ Patient => me.size # 0
  /\ me.at \in {"loop", "send"} => InStep(c, me)
  /\ me.at = "loop" => me.numRead = me.sent
  /\ me.at = "send" => me.numRead = me.sent + me.read /\ me.sent + me.read <= me.size /\ me.sent < me.size
  /\ me.at = "drain" => sock[c] = "shut" /\ ctx[c].state = "live" /\ task[c].ctx
  /\ me.at = "end" => /\ ~task[c].ctx => sock[c] = "closed" /\ ctx[c].state # "live"
                      /\ Patient => ~task[c].ctx

\* What c has received, from one server and one file.
ResponseOK(c) ==
  /\ got[c].status = "ok" =>
       /\ Request[c] \in Paths
       /\ len[Request[c]] <= got[c].size /\ got[c].size <= Size[Request[c]]
  /\ got[c].status = "notfound" => Request[c] = Missing \/ "stat" \in Faults
  /\ got[c].data = FirstUnits(Request[c], Len(got[c].data))
  /\ got[c].data # <<>> => got[c].status = "ok" /\ Len(got[c].data) <= got[c].size

WholeOK(c) ==
  Patient /\ sock[c] \in {"shut", "closed"} /\ got[c].status = "ok" /\ "read" \notin Faults
    => Len(got[c].data) = got[c].size

Queued(c) == \E i \in 1..Len(queue) : queue[i] = c
Held(c)   == \E w \in Workers : worker[w].conn = c

\* A file is never longer than it was, and never becomes empty.
LenOK == \A p \in Paths : len[p] <= Size[p] /\ (Size[p] # 0 => len[p] # 0)

\* A worker has a connection just while it runs mth_do_work_, and nobody shares it.
HandsOK ==
  /\ \A w \in Workers : worker[w].conn = NoConn <=> worker[w].at \in {"idle", "exited"}
  /\ \A v, w \in Workers : worker[v].conn = worker[w].conn /\ worker[v].conn # NoConn => v = w

\* The boss has a connection just while it runs handle_connection_.
BossOK ==
  /\ boss.conn = NoConn <=> boss.at \in {"accept", "finish", "done"}
  /\ \A c \in Conns : boss.conn = c => BossStage(c, boss.at) /\ ~Queued(c) /\ ~Held(c)

\* The queue has a connection once, and nobody else has it.
QueueOK ==
  /\ \A i, j \in 1..Len(queue) : queue[i] = queue[j] => i = j
  /\ \A c \in Conns : Queued(c) => QueueStage(c) /\ ~Held(c)

WorkersOK == \A w \in Workers : worker[w].conn \in Conns => WorkerStage(worker[w].conn, worker[w])

RestOK == \A c \in Conns : boss.conn # c /\ ~Queued(c) /\ ~Held(c) => AtRest(c)

\* No worker leaves before the queue is empty for good.
ExitOK ==
  /\ \A w \in Workers : worker[w].at = "exited" => boss.at \in {"finish", "done"} /\ queue = <<>>
  /\ boss.at = "done" => \A w \in Workers : worker[w].at = "exited"

PlacesOK == HandsOK /\ BossOK /\ QueueOK /\ WorkersOK /\ RestOK /\ ExitOK

IInv ==
  /\ TypeOK /\ LenOK
  /\ \A c \in Conns : ResponseOK(c)
  /\ Patient => process # "aborted"
  /\ process # "aborted" => PlacesOK /\ \A c \in Conns : WholeOK(c)

-----------------------------------------------------------------------------
(* Lemmas about one connection.                                            *)

\* Nothing is connected, and nobody has anything.
LEMMA InitOK == Init => IInv
<1> SUFFICES ASSUME Init PROVE IInv
  OBVIOUS
<1> USE ServerAssumption
<1>1. TypeOK
  BY EmptySeq DEF Init, TypeOK, NoCtx, Idle
<1>2. LenOK
  BY DEF Init, LenOK
<1>3. ASSUME NEW c \in Conns
      PROVE  AtRest(c) /\ ResponseOK(c) /\ WholeOK(c) /\ ~Queued(c) /\ ~Held(c)
  <2>1. AtRest(c)
    BY DEF Init, AtRest, Blank, NewGot, NoCtx, Still
  <2>2. got[c].data = <<>> /\ got[c].status = "none" /\ sock[c] = "none"
    BY DEF Init
  <2>3. Len(got[c].data) = 0 /\ FirstUnits(Request[c], 0) = <<>>
    BY <2>2 DEF FirstUnits
  <2>4. ResponseOK(c) /\ WholeOK(c)
    BY <2>2, <2>3 DEF ResponseOK, WholeOK
  <2>5. ~Queued(c) /\ ~Held(c)
    BY DEF Init, Queued, Held, Idle
  <2> QED
    BY <2>1, <2>4, <2>5
<1>4. HandsOK /\ BossOK /\ QueueOK /\ WorkersOK /\ ExitOK
  BY <1>3 DEF Init, HandsOK, BossOK, QueueOK, WorkersOK, ExitOK, Idle
<1>5. RestOK
  BY <1>3 DEF RestOK
<1>6. process = "runs"
  BY DEF Init
<1> QED
  BY <1>1, <1>2, <1>3, <1>4, <1>5, <1>6 DEF IInv, PlacesOK

\* What a client has received of a file grows at its end.
LEMMA UnitsGrow ==
  ASSUME NEW p, NEW b \in Nat, NEW n \in Nat
  PROVE  FirstUnits(p, b) \o [i \in 1..n |-> <<p, b + i>>] = FirstUnits(p, b + n)
<1> DEFINE S == {p} \X Nat
           more == [i \in 1..n |-> <<p, b + i>>]
<1>1. /\ FirstUnits(p, b) \in Seq(S) /\ Len(FirstUnits(p, b)) = b
      /\ \A i \in 1..b : FirstUnits(p, b)[i] = <<p, i>>
  BY DEF FirstUnits
<1>2. more \in Seq(S) /\ Len(more) = n /\ \A i \in 1..n : more[i] = <<p, b + i>>
  OBVIOUS
<1>3. /\ FirstUnits(p, b + n) \in Seq(S) /\ Len(FirstUnits(p, b + n)) = b + n
      /\ \A i \in 1..(b + n) : FirstUnits(p, b + n)[i] = <<p, i>>
  BY DEF FirstUnits
<1> HIDE DEF more, S
<1>4. /\ FirstUnits(p, b) \o more \in Seq(S) /\ Len(FirstUnits(p, b) \o more) = b + n
      /\ \A i \in 1..(b + n) : (FirstUnits(p, b) \o more)[i]
                                = IF i <= b THEN FirstUnits(p, b)[i] ELSE more[i - b]
  <2>1. /\ FirstUnits(p, b) \o more \in Seq(S) /\ Len(FirstUnits(p, b) \o more) = Len(FirstUnits(p, b)) + Len(more)
        /\ \A i \in 1..Len(FirstUnits(p, b)) + Len(more) :
             (FirstUnits(p, b) \o more)[i] = IF i <= Len(FirstUnits(p, b)) THEN FirstUnits(p, b)[i] ELSE more[i - Len(FirstUnits(p, b))]
    BY <1>1, <1>2, ConcatProperties, Zenon
  <2> QED
    BY <1>1, <1>2, <2>1
<1>5. \A i \in 1..(b + n) : i > b => i - b \in 1..n /\ b + (i - b) = i
  OBVIOUS
<1>6. \A i \in 1..(b + n) : (FirstUnits(p, b) \o more)[i] = <<p, i>>
  BY <1>1, <1>2, <1>4, <1>5
<1>7. FirstUnits(p, b) \o more = FirstUnits(p, b + n)
  BY <1>3, <1>4, <1>6, SeqEqual
<1> QED
  BY <1>7 DEF more

\* A step that changes nothing of d leaves it where it is.
LEMMA ConnStays ==
  ASSUME NEW d \in Conns, SameConn(d), client' = client, len' = len
  PROVE  /\ AtRest(d)' <=> AtRest(d)
         /\ QueueStage(d)' <=> QueueStage(d)
         /\ \A me : WorkerStage(d, me)' <=> WorkerStage(d, me)
         /\ ResponseOK(d)' <=> ResponseOK(d)
         /\ WholeOK(d)' <=> WholeOK(d)
<1>1. AtRest(d)' <=> AtRest(d)
  BY DEF SameConn, AtRest, Blank, NewGot, Still
<1>2. QueueStage(d)' <=> QueueStage(d)
  BY DEF SameConn, QueueStage, TaskOwns, Waits, Still, NewGot
<1>3. ASSUME NEW me
      PROVE  WorkerStage(d, me)' <=> WorkerStage(d, me)
  <2>1. InStep(d, me)' <=> InStep(d, me)
    BY DEF SameConn, InStep, Gone
  <2>2. TaskOwns(d)' /\ Waits(d)' <=> TaskOwns(d) /\ Waits(d)
    BY DEF SameConn, TaskOwns, Waits, Still
  <2> QED
    BY <2>1, <2>2 DEF SameConn, WorkerStage, NewGot
<1>4. ResponseOK(d)' <=> ResponseOK(d)
  BY DEF SameConn, ResponseOK, FirstUnits
<1>5. WholeOK(d)' <=> WholeOK(d)
  BY DEF SameConn, WholeOK
<1> QED
  BY <1>1, <1>2, <1>3, <1>4, <1>5

\* A worker that goes on with its connection, or leaves it at rest, disturbs no
\* other one.
LEMMA OneConnection ==
  ASSUME IInv, process = "runs", NEW w \in Workers, NEW c \in Conns, worker[w].conn = c,
         NEW x, worker' = [worker EXCEPT ![w] = x],
         UNCHANGED <<client, len, boss, tokPath, queue>>,
         process' # "aborted", TypeOK', ResponseOK(c)', WholeOK(c)',
         \A d \in Conns \ {c} : SameConn(d),
         \/ x.conn = NoConn /\ x.at = "idle" /\ AtRest(c)'
         \/ x.conn = c /\ x.at \notin {"idle", "exited"} /\ WorkerStage(c, x)'
  PROVE  IInv'
<1> USE ServerAssumption
<1>1. PlacesOK /\ \A d \in Conns : ResponseOK(d) /\ WholeOK(d)
  BY DEF IInv
<1>2. /\ worker'[w] = x
      /\ \A v \in Workers \ {w} : worker'[v] = worker[v]
      /\ \A v \in Workers : worker[v].conn \in Conns \cup {NoConn}
      /\ c # NoConn
      /\ worker[w].at \notin {"idle", "exited"}
  <2>1. /\ worker'[w] = x
        /\ \A v \in Workers \ {w} : worker'[v] = worker[v]
        /\ \A v \in Workers : worker[v].conn \in Conns \cup {NoConn}
    BY DEF IInv, TypeOK
  <2>2. worker[w].at \notin {"idle", "exited"}
    BY <1>1 DEF PlacesOK, HandsOK
  <2> QED
    BY <2>1, <2>2
<1>3. Held(c) /\ ~Queued(c) /\ boss.conn # c
  BY <1>1 DEF Held, PlacesOK, QueueOK, BossOK
<1>4. \A d \in Conns : Queued(d)' <=> Queued(d)
  BY DEF Queued
<1>5. ASSUME NEW d \in Conns \ {c}
      PROVE  /\ Held(d)' <=> Held(d)
             /\ AtRest(d)' <=> AtRest(d)
             /\ QueueStage(d)' <=> QueueStage(d)
             /\ \A me : WorkerStage(d, me)' <=> WorkerStage(d, me)
             /\ ResponseOK(d)' /\ WholeOK(d)'
             /\ \A at : BossStage(d, at)' <=> BossStage(d, at)
  <2>1. Held(d)' <=> Held(d)
    BY <1>2 DEF Held
  <2>2. \A at : BossStage(d, at)' <=> BossStage(d, at)
    BY DEF SameConn, BossStage, NewGot, Still, Waits
  <2> QED
    BY <1>1, <2>1, <2>2, ConnStays
<1>6. LenOK'
  BY DEF IInv, LenOK
<1>7. \A d \in Conns : ResponseOK(d)' /\ WholeOK(d)'
  BY <1>5
<1>8. HandsOK'
  BY <1>1, <1>2 DEF PlacesOK, HandsOK
<1>9. BossOK'
  BY <1>1, <1>3, <1>4, <1>5 DEF PlacesOK, BossOK
<1>10. QueueOK'
  BY <1>1, <1>3, <1>4, <1>5 DEF PlacesOK, QueueOK
<1>11. ExitOK'
  BY <1>1, <1>2 DEF PlacesOK, ExitOK
<1>12. RestOK'
  <2>1. Held(c)' \/ AtRest(c)'
    BY <1>2 DEF Held
  <2> QED
    BY <1>1, <1>3, <1>4, <1>5, <2>1 DEF PlacesOK, RestOK
<1>13. WorkersOK'
  <2>1. ASSUME NEW v \in Workers, worker'[v].conn \in Conns
        PROVE  WorkerStage(worker[v].conn, worker[v])'
    <3>1. CASE v = w
      <4>1. worker'[v] = x /\ x.conn = c /\ WorkerStage(c, x)'
        BY <1>2, <2>1, <3>1
      <4> QED
        BY <4>1 DEF WorkerStage
    <3>2. CASE v # w
      <4>1. PICK d \in Conns : worker[v].conn = d
        BY <1>2, <2>1, <3>2
      <4>2. worker'[v] = worker[v] /\ d # c
        BY <1>1, <1>2, <3>2, <4>1 DEF PlacesOK, HandsOK
      <4>3. PICK me : me = worker[v]
        OBVIOUS
      <4>4. WorkerStage(d, me)
        BY <1>1, <4>1, <4>3 DEF PlacesOK, WorkersOK
      <4>5. WorkerStage(d, me)'
        BY <1>5, <4>2, <4>4
      <4>6. worker'[v].conn = d /\ worker'[v] = me
        BY <4>1, <4>2, <4>3
      <4> QED
        BY <4>5, <4>6 DEF WorkerStage
    <3> QED
      BY <3>1, <3>2
  <2> QED
    BY <2>1 DEF WorkersOK
<1> QED
  BY <1>6, <1>7, <1>8, <1>9, <1>10, <1>11, <1>12, <1>13 DEF IInv, PlacesOK

-----------------------------------------------------------------------------
(* The steps of the clients and of the disk.                               *)

\* A client that is still served has no reason to leave.
LEMMA NotSatisfied ==
  ASSUME NEW d \in Conns, sock[d] \notin {"shut", "closed"},
         \/ got[d] = NewGot
         \/ got[d].status = "ok" /\ Len(got[d].data) # got[d].size
  PROVE  ~Satisfied(d)
BY DEF Satisfied, NewGot, Statuses

\* Clients go on, and leave only when they have their response or do not wait for
\* it; files become shorter.
LEMMA OutsideMoves ==
  ASSUME IInv, process = "runs", UNCHANGED served, TypeOK', LenOK',
         \A p \in Paths : len'[p] <= len[p],
         \A d \in Conns :
           /\ Gone(d) => client'[d] = client[d]
           /\ client[d] = "asked" => client'[d] \in {"asked", "left"}
           /\ client'[d] = "left" => client[d] = "left" \/ Satisfied(d) \/ d \in Leavers
  PROVE  IInv'
<1> USE ServerAssumption
<1>1. PlacesOK /\ \A d \in Conns : ResponseOK(d) /\ WholeOK(d)
  BY DEF IInv
<1>2. /\ got' = got /\ sock' = sock /\ ctx' = ctx /\ boss' = boss /\ tokPath' = tokPath
      /\ task' = task /\ queue' = queue /\ worker' = worker /\ process' = process
  BY DEF served
<1>3. ASSUME NEW d \in Conns, Still(d), ~Satisfied(d)
      PROVE  Still(d)'
  BY <1>3 DEF Still, Patient
<1>4. ASSUME NEW d \in Conns, AtRest(d)
      PROVE  AtRest(d)'
  <2>1. CASE sock[d] = "none" /\ Blank(d) /\ Still(d)
    <3>1. Still(d)'
      BY <1>3, <2>1, NotSatisfied DEF Blank
    <3> QED
      BY <1>2, <2>1, <3>1 DEF AtRest, Blank, NewGot
  <2>2. CASE sock[d] = "closed" /\ ctx[d].state # "live" /\ task[d].state # "live"
    BY <1>2, <2>2 DEF AtRest
  <2> QED
    BY <1>4, <2>1, <2>2 DEF AtRest
<1>5. ASSUME NEW d \in Conns, Waits(d), ~Satisfied(d)
      PROVE  Waits(d)'
  BY <1>3, <1>5 DEF Waits, Gone
<1>6. ASSUME NEW d \in Conns, NEW at, BossStage(d, at)
      PROVE  BossStage(d, at)'
  <2>1. at \in {"reading", "call", "error", "invalid"} => ~Satisfied(d)
    BY <1>6, NotSatisfied DEF BossStage
  <2>2. at \in {"reading", "call", "error", "invalid"} => Still(d)'
    BY <1>3, <1>6, <2>1 DEF BossStage
  <2>3. at = "call" => Waits(d)'
    BY <1>5, <1>6, <2>1 DEF BossStage
  <2> QED
    BY <1>2, <1>6, <2>2, <2>3 DEF BossStage, NewGot
<1>7. ASSUME NEW d \in Conns, QueueStage(d)
      PROVE  QueueStage(d)'
  <2>1. Waits(d)'
    BY <1>5, <1>7, NotSatisfied DEF QueueStage, TaskOwns
  <2> QED
    BY <1>2, <1>7, <2>1 DEF QueueStage, TaskOwns, NewGot
<1>8. ASSUME NEW d \in Conns, NEW me, me.size \in Nat, WorkerStage(d, me)
      PROVE  WorkerStage(d, me)'
  <2>1. ASSUME me.at \in {"start", "notfound", "header", "loop", "send"}
        PROVE  TaskOwns(d)' /\ Waits(d)'
    <3>1. TaskOwns(d) /\ Waits(d)
      BY <1>8, <2>1 DEF WorkerStage
    <3>2. TaskOwns(d)'
      BY <1>2, <3>1 DEF TaskOwns
    <3>3. CASE me.at \in {"start", "notfound", "header"}
      BY <1>5, <1>8, <3>1, <3>2, <3>3, NotSatisfied DEF WorkerStage, TaskOwns
    <3>4. CASE me.at \in {"loop", "send"}
      <4>1. CASE Patient /\ ~Gone(d)
        <5>1. got[d].status = "ok" /\ Len(got[d].data) # got[d].size
          BY <1>8, <3>4, <4>1 DEF WorkerStage, InStep
        <5> QED
          BY <1>5, <3>1, <3>2, <5>1, NotSatisfied DEF TaskOwns
      <4>2. CASE ~Patient \/ Gone(d)
        <5>1. Still(d)'
          BY <3>1, <4>2 DEF Waits, Still, Gone
        <5> QED
          BY <3>1, <3>2, <5>1 DEF Waits, Gone
      <4> QED
        BY <4>1, <4>2
    <3> QED
      BY <2>1, <3>3, <3>4
  <2>2. ASSUME me.at \in {"loop", "send"}
        PROVE  InStep(d, me)'
    <3>1. Gone(d) => Gone(d)'
      BY DEF Gone
    <3> QED
      BY <1>2, <1>8, <2>2, <3>1 DEF WorkerStage, InStep
  <2>3. ASSUME me.at \in {"header", "loop", "send"}
        PROVE  /\ Request[d] \in Paths
               /\ len'[Request[d]] <= me.size /\ me.size <= Size[Request[d]]
               /\ Patient => me.size # 0
    <3>1. /\ Request[d] \in Paths
          /\ len[Request[d]] <= me.size /\ me.size <= Size[Request[d]]
          /\ Patient => me.size # 0
      BY <1>8, <2>3 DEF WorkerStage
    <3>2. Size[Request[d]] \in Nat /\ len[Request[d]] \in Nat /\ len'[Request[d]] \in Nat
      BY <3>1 DEF IInv, TypeOK
    <3>3. len'[Request[d]] <= len[Request[d]]
      BY <3>1
    <3>4. len'[Request[d]] <= me.size
      BY <1>8, <3>1, <3>2, <3>3
    <3> QED
      BY <3>1, <3>4
  <2> QED
    BY <1>2, <1>8, <2>1, <2>2, <2>3 DEF WorkerStage, NewGot
<1>9. ASSUME NEW d \in Conns
      PROVE  ResponseOK(d)' /\ WholeOK(d)'
  <2>1. ResponseOK(d) /\ WholeOK(d)
    BY <1>1
  <2>2. Request[d] \in Paths /\ len[Request[d]] <= got[d].size => len'[Request[d]] <= got[d].size
    BY DEF IInv, TypeOK
  <2> QED
    BY <1>2, <2>1, <2>2 DEF ResponseOK, WholeOK, FirstUnits
<1>10. \A d \in Conns : (Queued(d)' <=> Queued(d)) /\ (Held(d)' <=> Held(d))
  BY <1>2 DEF Queued, Held
<1>11. HandsOK' /\ ExitOK'
  BY <1>1, <1>2 DEF PlacesOK, HandsOK, ExitOK
<1>12. BossOK'
  BY <1>1, <1>2, <1>6, <1>10 DEF PlacesOK, BossOK
<1>13. QueueOK'
  BY <1>1, <1>2, <1>7, <1>10 DEF PlacesOK, QueueOK
<1>14. RestOK'
  BY <1>1, <1>2, <1>4, <1>10 DEF PlacesOK, RestOK
<1>15. WorkersOK'
  <2>1. ASSUME NEW w \in Workers, worker[w].conn \in Conns
        PROVE  WorkerStage(worker[w].conn, worker[w])'
    <3>1. PICK d \in Conns, me \in {worker[w]} : d = worker[w].conn /\ me = worker[w]
      BY <2>1
    <3>2. WorkerStage(d, me)
      BY <1>1, <2>1, <3>1 DEF PlacesOK, WorkersOK
    <3>3. me.size \in Nat
      BY <3>1 DEF IInv, TypeOK
    <3>4. WorkerStage(d, me)' /\ worker'[w] = me /\ worker'[w].conn = d
      BY <1>2, <1>8, <3>1, <3>2, <3>3
    <3> QED
      BY <3>4 DEF WorkerStage
  <2> QED
    BY <1>2, <2>1 DEF WorkersOK
<1> QED
  BY <1>2, <1>9, <1>11, <1>12, <1>13, <1>14, <1>15 DEF IInv, PlacesOK

\* The clients connect, ask, leave and hang up.
LEMMA ClientStepOK ==
  ASSUME IInv, process = "runs", NEW c \in Conns, ClientStep(c)
  PROVE  IInv'
<1>1. client \in [Conns -> {"away", "connected", "asked", "left", "hungup"}] /\ len' = len /\ UNCHANGED served
  BY DEF IInv, TypeOK, ClientStep, Connect, Ask, Leave, HangUp
<1>2. PICK s \in {"connected", "asked", "left", "hungup"} :
        /\ client' = [client EXCEPT ![c] = s]
        /\ client[c] \in {"away", "connected", "asked"}
        /\ client[c] = "asked" => s = "left"
        /\ s = "left" => Satisfied(c) \/ c \in Leavers
  BY DEF ClientStep, Connect, Ask, Leave, HangUp
<1>3. TypeOK'
  BY <1>1, <1>2 DEF IInv, TypeOK, served
<1>4. LenOK' /\ \A p \in Paths : len'[p] <= len[p]
  BY <1>1 DEF IInv, LenOK, TypeOK
<1>5. \A d \in Conns :
           /\ Gone(d) => client'[d] = client[d]
           /\ client[d] = "asked" => client'[d] \in {"asked", "left"}
           /\ client'[d] = "left" => client[d] = "left" \/ Satisfied(d) \/ d \in Leavers
  BY <1>1, <1>2 DEF Gone
<1> QED
  BY <1>1, <1>3, <1>4, <1>5, OutsideMoves

\* A file becomes shorter.
LEMMA ShrinkOK ==
  ASSUME IInv, process = "runs", NEW p \in Paths, Shrink(p)
  PROVE  IInv'
<1>1. /\ len \in [Paths -> Nat] /\ len[p] > 1 /\ len' = [len EXCEPT ![p] = len[p] - 1]
      /\ UNCHANGED <<client, served>>
  BY DEF IInv, TypeOK, Shrink
<1>2. TypeOK'
  <2>1. len[p] - 1 \in Nat
    BY <1>1
  <2> DEFINE less == len[p] - 1
  <2> HIDE DEF less
  <2>2. len' = [len EXCEPT ![p] = less] /\ less \in Nat
    BY <1>1, <2>1 DEF less
  <2>3. len' \in [Paths -> Nat]
    BY <1>1, <2>2
  <2> QED
    BY <1>1, <2>3 DEF IInv, TypeOK, served
<1>3. LenOK' /\ \A q \in Paths : len'[q] <= len[q]
  <2>1. LenOK /\ Size \in [Paths -> Nat]
    BY ServerAssumption DEF IInv
  <2>2. ASSUME NEW q \in Paths
        PROVE  len'[q] \in Nat /\ len[q] \in Nat /\ len'[q] <= len[q] /\ (len[q] # 0 => len'[q] # 0)
    BY <1>1
  <2>3. ASSUME NEW q \in Paths
        PROVE  len'[q] <= Size[q] /\ (Size[q] # 0 => len'[q] # 0)
    BY <2>1, <2>2 DEF LenOK
  <2> QED
    BY <2>2, <2>3 DEF LenOK
<1>4. \A d \in Conns :
           /\ Gone(d) => client'[d] = client[d]
           /\ client[d] = "asked" => client'[d] \in {"asked", "left"}
           /\ client'[d] = "left" => client[d] = "left" \/ Satisfied(d) \/ d \in Leavers
  BY <1>1
<1> QED
  BY <1>1, <1>2, <1>3, <1>4, OutsideMoves

-----------------------------------------------------------------------------
(* The steps of the boss.                                                  *)

\* The boss takes a connection, goes on with it or leaves it at rest, and
\* disturbs no other one.
LEMMA BossConnection ==
  ASSUME IInv, process = "runs", NEW c \in Conns, boss.conn \in {c, NoConn},
         boss.at \notin {"finish", "done"}, ~Queued(c), ~Held(c),
         NEW b, boss' = b,
         UNCHANGED <<client, len, queue, worker>>,
         process' # "aborted", TypeOK', ResponseOK(c)', WholeOK(c)',
         \A d \in Conns \ {c} : SameConn(d),
         \/ b.conn = NoConn /\ b.at = "accept" /\ AtRest(c)'
         \/ b.conn = c /\ b.at \notin {"accept", "finish", "done"} /\ BossStage(c, b.at)'
  PROVE  IInv'
<1> USE ServerAssumption
<1>1. PlacesOK /\ \A d \in Conns : ResponseOK(d) /\ WholeOK(d)
  BY DEF IInv
<1>2. \A d \in Conns : (Queued(d)' <=> Queued(d)) /\ (Held(d)' <=> Held(d))
  BY DEF Queued, Held
<1>3. ASSUME NEW d \in Conns \ {c}
      PROVE  /\ AtRest(d)' <=> AtRest(d)
             /\ QueueStage(d)' <=> QueueStage(d)
             /\ \A me : WorkerStage(d, me)' <=> WorkerStage(d, me)
             /\ ResponseOK(d)' /\ WholeOK(d)'
  BY <1>1, ConnStays
<1>4. LenOK'
  BY DEF IInv, LenOK
<1>5. HandsOK'
  BY <1>1 DEF PlacesOK, HandsOK
<1>6. ExitOK'
  BY <1>1 DEF PlacesOK, ExitOK
<1>7. BossOK'
  <2>1. boss'.conn = NoConn <=> boss'.at \in {"accept", "finish", "done"}
    OBVIOUS
  <2>2. ASSUME NEW d \in Conns, boss'.conn = d
        PROVE  BossStage(d, boss.at)' /\ ~Queued(d)' /\ ~Held(d)'
    <3>1. d = c /\ boss' = b /\ BossStage(c, b.at)'
      BY <2>2
    <3> QED
      BY <1>2, <3>1 DEF BossStage
  <2> QED
    BY <2>1, <2>2 DEF BossOK
<1>8. QueueOK'
  BY <1>1, <1>2, <1>3 DEF PlacesOK, QueueOK
<1>9. RestOK'
  <2>1. ASSUME NEW d \in Conns, boss'.conn # d, ~Queued(d), ~Held(d)
        PROVE  AtRest(d)'
    <3>1. CASE d = c
      BY <2>1, <3>1
    <3>2. CASE d # c
      BY <1>1, <1>3, <2>1, <3>2 DEF PlacesOK, RestOK
    <3> QED
      BY <3>1, <3>2
  <2> QED
    BY <1>2, <2>1 DEF RestOK
<1>10. WorkersOK'
  <2>1. ASSUME NEW w \in Workers, worker[w].conn \in Conns
        PROVE  WorkerStage(worker[w].conn, worker[w])'
    <3>1. PICK d \in Conns, me \in {worker[w]} : d = worker[w].conn /\ me = worker[w]
      BY <2>1
    <3>2. WorkerStage(d, me) /\ d # c
      BY <1>1, <2>1, <3>1 DEF PlacesOK, WorkersOK, Held
    <3>3. WorkerStage(d, me)' /\ worker'[w] = me /\ worker'[w].conn = d
      BY <1>3, <3>1, <3>2
    <3> QED
      BY <3>3 DEF WorkerStage
  <2> QED
    BY <2>1 DEF WorkersOK
<1> QED
  BY <1>1, <1>3, <1>4, <1>5, <1>6, <1>7, <1>8, <1>9, <1>10 DEF IInv, PlacesOK

\* A connection that is accepted is in no other hands.
LEMMA AcceptOK ==
  ASSUME IInv, process = "runs", NEW c \in Conns, Accept(c)
  PROVE  IInv'
<1> USE ServerAssumption
<1>1. /\ boss.at = "accept" /\ client[c] # "away" /\ sock[c] = "none"
      /\ sock' = [sock EXCEPT ![c] = "open"]
      /\ boss' = [at |-> "reading", conn |-> c]
      /\ UNCHANGED <<client, len, got, ctx, tokPath, task, queue, worker, process>>
  BY DEF Accept, BossAt, clients
<1>2. PlacesOK /\ ResponseOK(c) /\ boss.conn = NoConn
  BY <1>1 DEF IInv, PlacesOK, BossOK
<1>3. ~Queued(c)
  BY <1>1, <1>2 DEF PlacesOK, QueueOK, QueueStage, TaskOwns
<1>4. ~Held(c)
  BY <1>1, <1>2 DEF Held, PlacesOK, WorkersOK, WorkerStage
<1>5. Blank(c) /\ Still(c)
  BY <1>1, <1>2, <1>3, <1>4 DEF PlacesOK, RestOK, AtRest
<1>6. TypeOK'
  BY <1>1 DEF IInv, TypeOK
<1>7. sock'[c] = "open" /\ \A d \in Conns \ {c} : sock'[d] = sock[d]
  BY <1>1 DEF IInv, TypeOK
<1>8. \A d \in Conns \ {c} : SameConn(d)
  BY <1>1, <1>7 DEF SameConn
<1>9. ResponseOK(c)' /\ WholeOK(c)'
  BY <1>1, <1>2, <1>7 DEF ResponseOK, WholeOK, FirstUnits
<1>10. BossStage(c, "reading")'
  BY <1>1, <1>5, <1>7 DEF BossStage, Blank, NewGot, Still
<1> DEFINE b == [at |-> "reading", conn |-> c]
<1>11. b.conn = c /\ b.at = "reading" /\ boss' = b
  BY <1>1
<1> HIDE DEF b
<1> QED
  BY <1>1, <1>2, <1>3, <1>4, <1>6, <1>8, <1>9, <1>10, <1>11, BossConnection

\* What is known of the connection the boss is busy with.
LEMMA BossBusy ==
  ASSUME IInv, process = "runs", boss.at \notin {"accept", "finish", "done"}
  PROVE  /\ boss.conn \in Conns /\ boss.conn # NoConn
         /\ BossStage(boss.conn, boss.at)
         /\ ~Queued(boss.conn) /\ ~Held(boss.conn)
         /\ ResponseOK(boss.conn) /\ WholeOK(boss.conn)
<1>1. PlacesOK /\ boss.conn \in Conns \cup {NoConn}
  BY DEF IInv, TypeOK
<1>2. boss.conn # NoConn /\ boss.conn \in Conns
  BY <1>1 DEF PlacesOK, BossOK
<1> QED
  BY <1>1, <1>2 DEF IInv, PlacesOK, BossOK

\* A request is passed on with its path, or refused.
LEMMA ReadRequestOK ==
  ASSUME IInv, process = "runs", ReadRequest
  PROVE  IInv'
<1> USE ServerAssumption
<1>1. PICK c \in Conns : /\ boss.conn = c /\ c # NoConn /\ BossStage(c, "reading")
                         /\ ~Queued(c) /\ ~Held(c) /\ ResponseOK(c) /\ WholeOK(c)
  BY BossBusy DEF ReadRequest
<1>2. boss.at = "reading" /\ UNCHANGED <<client, len, got, sock, ctx, task, queue, worker, process>>
  BY DEF ReadRequest, clients
<1>3. PICK at \in {"call", "invalid", "error"} :
        /\ boss' = [at |-> at, conn |-> c]
        /\ at = "call" => /\ client[c] \in {"asked", "left"} /\ Request[c] # Malformed
                          /\ tokPath' = Request[c]
        /\ at # "call" => tokPath' = tokPath
  BY <1>1 DEF ReadRequest, BossAt
<1>4. TypeOK'
  <2>1. tokPath' \in Paths \cup {Missing, NoPath}
    BY <1>3 DEF IInv, TypeOK
  <2> QED
    BY <1>2, <1>3, <2>1 DEF IInv, TypeOK
<1>5. BossStage(c, at)'
  BY <1>1, <1>2, <1>3 DEF BossStage, NewGot, Waits, Still
<1>6. ResponseOK(c)' /\ WholeOK(c)' /\ \A d \in Conns \ {c} : SameConn(d)
  BY <1>1, <1>2 DEF SameConn, ResponseOK, WholeOK, FirstUnits
<1> DEFINE b == [at |-> at, conn |-> c]
<1>7. b.conn = c /\ b.at = at /\ boss' = b
  BY <1>3
<1> HIDE DEF b
<1> QED
  BY <1>1, <1>2, <1>4, <1>5, <1>6, <1>7, BossConnection

\* What a header changes: nothing for a client that has gone.
LEMMA HeaderSent ==
  ASSUME TypeOK, process = "runs", NEW c \in Conns, NEW status \in Statuses, NEW size \in Nat,
         SendResponse(c, status, size)
  PROVE  /\ process' \in {"runs", "sigpipe"}
         /\ got' \in [Conns -> Got]
         /\ got'[c].data = got[c].data
         /\ Gone(c) => got'[c] = got[c]
         /\ ~Gone(c) => got'[c].status = status /\ got'[c].size = size
         /\ \A d \in Conns \ {c} : got'[d] = got[d]
<1>1. process' \in {"runs", "sigpipe"}
  BY DEF SendResponse
<1>2. got \in [Conns -> Got]
  BY DEF TypeOK, Got
<1>3. CASE Gone(c)
  <2>1. got' = got
    BY <1>3 DEF SendResponse
  <2> QED
    BY <1>1, <1>2, <1>3, <2>1
<1>4. CASE ~Gone(c)
  <2> DEFINE g == [[got[c] EXCEPT !.status = status] EXCEPT !.size = size]
  <2>1. got' = [got EXCEPT ![c] = g]
    BY <1>2, <1>4 DEF SendResponse
  <2>2. g \in Got /\ g.data = got[c].data /\ g.status = status /\ g.size = size
    BY <1>2 DEF Got
  <2> HIDE DEF g
  <2> QED
    BY <1>1, <1>2, <1>4, <2>1, <2>2
<1> QED
  BY <1>3, <1>4

\* The client that is refused has no file.
LEMMA RefuseOK ==
  ASSUME IInv, process = "runs", Refuse
  PROVE  IInv'
<1> USE ServerAssumption
<1>1. PICK c \in Conns : /\ boss.conn = c /\ c # NoConn /\ BossStage(c, boss.at)
                         /\ ~Queued(c) /\ ~Held(c) /\ ResponseOK(c) /\ WholeOK(c)
  BY BossBusy DEF Refuse
<1>2. /\ boss.at \in {"error", "invalid"}
      /\ SendResponse(c, boss.at, 0)
      /\ sock' = [sock EXCEPT ![c] = "shut"]
      /\ boss' = [at |-> "drain", conn |-> c]
      /\ UNCHANGED <<client, len, ctx, tokPath, task, queue, worker>>
  BY <1>1 DEF Refuse, Shut, BossAt, clients
<1>3. got[c].data = <<>> /\ got[c].status = "none"
  BY <1>1, <1>2 DEF BossStage, NewGot
<1>4. boss.at \in Statuses /\ TypeOK
  BY <1>2 DEF Statuses, IInv
<1>5. /\ process' \in {"runs", "sigpipe"}
      /\ got' \in [Conns -> Got]
      /\ got'[c].data = <<>> /\ got'[c].status \in {"none", "error", "invalid"}
      /\ \A d \in Conns \ {c} : got'[d] = got[d]
  BY <1>2, <1>3, <1>4, HeaderSent
<1>6. TypeOK'
  BY <1>2, <1>5 DEF IInv, TypeOK, Got
<1>7. sock'[c] = "shut" /\ \A d \in Conns \ {c} : sock'[d] = sock[d]
  BY <1>2 DEF IInv, TypeOK
<1>8. \A d \in Conns \ {c} : SameConn(d)
  BY <1>2, <1>5, <1>7 DEF SameConn
<1>9. ResponseOK(c)' /\ WholeOK(c)'
  <2>1. Len(<<>>) = 0 /\ <<>> = FirstUnits(Request[c], 0)
    BY DEF FirstUnits
  <2>2. got'[c].data = FirstUnits(Request[c], Len(got'[c].data))
    BY <1>5, <2>1
  <2> QED
    BY <1>5, <2>2 DEF ResponseOK, WholeOK, FirstUnits
<1>10. BossStage(c, "drain")'
  BY <1>1, <1>2, <1>7 DEF BossStage
<1> DEFINE b == [at |-> "drain", conn |-> c]
<1>11. b.conn = c /\ b.at = "drain" /\ boss' = b
  BY <1>2
<1> HIDE DEF b
<1> QED
  BY <1>1, <1>2, <1>5, <1>6, <1>8, <1>9, <1>10, <1>11, BossConnection

\* The socket of a refused request is closed.
LEMMA BossDrainOK ==
  ASSUME IInv, process = "runs", BossDrain
  PROVE  IInv'
<1> USE ServerAssumption
<1>1. PICK c \in Conns : /\ boss.conn = c /\ c # NoConn /\ BossStage(c, "drain")
                         /\ ~Queued(c) /\ ~Held(c) /\ ResponseOK(c) /\ WholeOK(c)
  BY BossBusy DEF BossDrain
<1>2. /\ boss.at = "drain"
      /\ sock' = [sock EXCEPT ![c] = "closed"]
      /\ boss' = [at |-> "accept", conn |-> NoConn]
      /\ UNCHANGED <<client, len, got, ctx, tokPath, task, queue, worker, process>>
  BY <1>1 DEF BossDrain, Close, BossAt, clients
<1>3. TypeOK'
  BY <1>2 DEF IInv, TypeOK
<1>4. sock'[c] = "closed" /\ \A d \in Conns \ {c} : sock'[d] = sock[d]
  BY <1>2 DEF IInv, TypeOK
<1>5. \A d \in Conns \ {c} : SameConn(d)
  BY <1>2, <1>4 DEF SameConn
<1>6. ResponseOK(c)' /\ WholeOK(c)'
  BY <1>1, <1>2 DEF ResponseOK, WholeOK, FirstUnits, BossStage
<1>7. AtRest(c)'
  BY <1>1, <1>2, <1>4 DEF AtRest, BossStage
<1> DEFINE b == [at |-> "accept", conn |-> NoConn]
<1>8. b.conn = NoConn /\ b.at = "accept" /\ boss' = b
  BY <1>2
<1> HIDE DEF b
<1> QED
  BY <1>1, <1>2, <1>3, <1>5, <1>6, <1>7, <1>8, BossConnection

\* The boss has no connection, and gets none.
LEMMA BossLeaves ==
  ASSUME IInv, process = "runs", boss.conn = NoConn, NEW at \in {"finish", "done"},
         boss' = [at |-> at, conn |-> NoConn],
         UNCHANGED <<client, len, got, sock, ctx, tokPath, task, queue, worker, process>>,
         at = "done" => \A w \in Workers : worker[w].at = "exited"
  PROVE  IInv'
<1> USE ServerAssumption
<1>1. PlacesOK /\ \A d \in Conns : ResponseOK(d) /\ WholeOK(d)
  BY DEF IInv
<1>2. \A d \in Conns : (Queued(d)' <=> Queued(d)) /\ (Held(d)' <=> Held(d))
  BY DEF Queued, Held
<1>3. \A d \in Conns : /\ AtRest(d)' <=> AtRest(d)
                       /\ QueueStage(d)' <=> QueueStage(d)
                       /\ \A me : WorkerStage(d, me)' <=> WorkerStage(d, me)
                       /\ ResponseOK(d)' /\ WholeOK(d)'
  BY <1>1, ConnStays DEF SameConn
<1>4. TypeOK' /\ LenOK'
  BY DEF IInv, TypeOK, LenOK
<1>5. HandsOK' /\ ExitOK'
  BY <1>1 DEF PlacesOK, HandsOK, ExitOK
<1>6. BossOK'
  BY DEF BossOK
<1>7. QueueOK' /\ RestOK'
  BY <1>1, <1>2, <1>3 DEF PlacesOK, QueueOK, RestOK
<1>8. WorkersOK'
  <2>1. ASSUME NEW w \in Workers, worker[w].conn \in Conns
        PROVE  WorkerStage(worker[w].conn, worker[w])'
    <3>1. PICK d \in Conns, me \in {worker[w]} : d = worker[w].conn /\ me = worker[w]
      BY <2>1
    <3>2. WorkerStage(d, me)
      BY <1>1, <2>1, <3>1 DEF PlacesOK, WorkersOK
    <3>3. WorkerStage(d, me)' /\ worker'[w] = me /\ worker'[w].conn = d
      BY <1>3, <3>1, <3>2
    <3> QED
      BY <3>3 DEF WorkerStage
  <2> QED
    BY <2>1 DEF WorkersOK
<1> QED
  BY <1>3, <1>4, <1>5, <1>6, <1>7, <1>8 DEF IInv, PlacesOK

\* gfserver_serve returns.
LEMMA StopOK ==
  ASSUME IInv, process = "runs", Stop
  PROVE  IInv'
<1>1. boss.conn = NoConn
  BY DEF Stop, IInv, PlacesOK, BossOK
<1> QED
  BY <1>1, BossLeaves DEF Stop, BossAt, clients

\* mth_finish returns: every worker has left.
LEMMA FinishOK ==
  ASSUME IInv, process = "runs", Finish
  PROVE  IInv'
<1>1. boss.conn = NoConn
  BY DEF Finish, IInv, PlacesOK, BossOK
<1> QED
  BY <1>1, BossLeaves DEF Finish, BossAt, clients

\* The connection goes from the hands of the boss to the queue, with the path.
LEMMA CallHandlerOK ==
  ASSUME IInv, process = "runs", CallHandler
  PROVE  IInv'
<1> USE ServerAssumption
<1>1. PICK c \in Conns : /\ boss.conn = c /\ c # NoConn /\ BossStage(c, "call")
                         /\ ~Queued(c) /\ ~Held(c) /\ ResponseOK(c) /\ WholeOK(c)
  BY BossBusy DEF CallHandler
<1>2. /\ boss.at = "call"
      /\ ctx' = [ctx EXCEPT ![c] = [state |-> "live", expectSent |-> -1, sentSoFar |-> -1]]
      /\ task' = [task EXCEPT ![c] = [state |-> "live", path |-> tokPath, ctx |-> TRUE]]
      /\ queue' = Append(queue, c)
      /\ boss' = [at |-> "accept", conn |-> NoConn]
      /\ UNCHANGED <<client, len, got, sock, tokPath, worker, process>>
  BY <1>1 DEF CallHandler, BossAt, clients
<1>3. PlacesOK /\ \A d \in Conns : ResponseOK(d) /\ WholeOK(d)
  BY DEF IInv
<1>4. /\ queue \in Seq(Conns) /\ queue' \in Seq(Conns)
      /\ Len(queue') = Len(queue) + 1 /\ Len(queue) \in Nat
      /\ \A i \in 1..Len(queue) : queue'[i] = queue[i]
      /\ queue'[Len(queue) + 1] = c
  BY <1>2, AppendProperties DEF IInv, TypeOK
<1>5. TypeOK'
  <2>1. [state |-> "live", expectSent |-> -1, sentSoFar |-> -1]
          \in [state : {"none", "live", "freed"}, expectSent : Int, sentSoFar : Int]
    OBVIOUS
  <2>2. [state |-> "live", path |-> tokPath, ctx |-> TRUE]
          \in [state : {"none", "live", "freed"}, path : Paths \cup {Missing, NoPath}, ctx : BOOLEAN]
    BY DEF IInv, TypeOK
  <2> QED
    BY <1>2, <1>4, <2>1, <2>2 DEF IInv, TypeOK
<1>6. /\ ctx'[c].state = "live"
      /\ task'[c] = [state |-> "live", path |-> tokPath, ctx |-> TRUE]
      /\ \A d \in Conns \ {c} : ctx'[d] = ctx[d] /\ task'[d] = task[d]
  BY <1>2 DEF IInv, TypeOK
<1>7. QueueStage(c)'
  <2>1. tokPath = Request[c] /\ Waits(c) /\ sock[c] = "open" /\ got[c] = NewGot
    BY <1>1 DEF BossStage
  <2> QED
    BY <1>2, <1>6, <2>1 DEF QueueStage, TaskOwns, Waits, Still, NewGot
<1>8. ASSUME NEW d \in Conns
      PROVE  Queued(d)' <=> Queued(d) \/ d = c
  <2>1. ASSUME Queued(d) \/ d = c
        PROVE  Queued(d)'
    BY <1>4, <2>1 DEF Queued
  <2>2. ASSUME Queued(d)'
        PROVE  Queued(d) \/ d = c
    <3>1. PICK i \in 1..(Len(queue) + 1) : queue'[i] = d
      BY <1>4, <2>2 DEF Queued
    <3> QED
      BY <1>4, <3>1 DEF Queued
  <2> QED
    BY <2>1, <2>2
<1>9. ASSUME NEW d \in Conns
      PROVE  Held(d)' <=> Held(d)
  BY <1>2 DEF Held
<1>10. ASSUME NEW d \in Conns \ {c}
       PROVE  /\ AtRest(d)' <=> AtRest(d)
              /\ QueueStage(d)' <=> QueueStage(d)
              /\ \A me : WorkerStage(d, me)' <=> WorkerStage(d, me)
              /\ ResponseOK(d)' /\ WholeOK(d)'
  <2>1. SameConn(d)
    BY <1>2, <1>6 DEF SameConn
  <2> QED
    BY <1>2, <1>3, <2>1, ConnStays
<1>11. ResponseOK(c)' /\ WholeOK(c)'
  BY <1>1, <1>2 DEF ResponseOK, WholeOK, FirstUnits
<1>12. LenOK' /\ HandsOK' /\ ExitOK'
  BY <1>2, <1>3 DEF IInv, LenOK, PlacesOK, HandsOK, ExitOK
<1>13. BossOK'
  BY <1>2 DEF BossOK
<1>14. QueueOK'
  <2>1. \A i, j \in 1..Len(queue') : queue'[i] = queue'[j] => i = j
    <3>1. \A i, j \in 1..Len(queue) : queue[i] = queue[j] => i = j
      BY <1>3 DEF PlacesOK, QueueOK
    <3>2. \A i \in 1..Len(queue) : queue[i] # c
      BY <1>1 DEF Queued
    <3> QED
      BY <1>4, <3>1, <3>2
  <2>2. \A d \in Conns : Queued(d)' => QueueStage(d)' /\ ~Held(d)'
    BY <1>1, <1>3, <1>7, <1>8, <1>9, <1>10 DEF PlacesOK, QueueOK
  <2> QED
    BY <2>1, <2>2 DEF QueueOK
<1>15. RestOK'
  BY <1>1, <1>3, <1>8, <1>9, <1>10 DEF PlacesOK, RestOK
<1>16. WorkersOK'
  <2>1. ASSUME NEW w \in Workers, worker[w].conn \in Conns
        PROVE  WorkerStage(worker[w].conn, worker[w])'
    <3>1. PICK d \in Conns, me \in {worker[w]} : d = worker[w].conn /\ me = worker[w]
      BY <2>1
    <3>2. WorkerStage(d, me) /\ d # c
      BY <1>1, <1>3, <2>1, <3>1 DEF PlacesOK, WorkersOK, Held
    <3>3. WorkerStage(d, me)' /\ worker'[w] = me /\ worker'[w].conn = d
      BY <1>2, <1>10, <3>1, <3>2
    <3> QED
      BY <3>3 DEF WorkerStage
  <2> QED
    BY <1>2, <2>1 DEF WorkersOK
<1> QED
  BY <1>2, <1>5, <1>10, <1>11, <1>12, <1>13, <1>14, <1>15, <1>16 DEF IInv, PlacesOK

-----------------------------------------------------------------------------
(* The steps of a worker.                                                  *)

\* A connection goes from the queue to the hands of one worker.
LEMMA TakeOK ==
  ASSUME IInv, process = "runs", NEW w \in Workers, Take(w)
  PROVE  IInv'
<1> USE ServerAssumption
<1>1. /\ queue \in Seq(Conns) /\ queue' \in Seq(Conns)
      /\ Len(queue) \in Nat \ {0} /\ Len(queue') = Len(queue) - 1
      /\ \A i \in 1..Len(queue') : queue'[i] = queue[i + 1]
      /\ Head(queue) = queue[1]
  BY HeadTailProperties, EmptySeq DEF Take, IInv, TypeOK
<1>2. PICK c \in Conns : c = queue[1] /\ c = Head(queue)
  BY <1>1, ElementOfSeq
<1>3. PlacesOK /\ \A d \in Conns : ResponseOK(d) /\ WholeOK(d)
  BY DEF IInv
<1>4. Queued(c) /\ QueueStage(c) /\ ~Held(c) /\ boss.conn # c
  BY <1>1, <1>2, <1>3 DEF Queued, PlacesOK, QueueOK, BossOK
<1>5. PICK x \in LocalState :
        /\ worker' = [worker EXCEPT ![w] = x]
        /\ x.at = "start" /\ x.conn = c /\ x.sent = 0 /\ x.numRead = 0
  <2> DEFINE x == [[Idle EXCEPT !.at = "start"] EXCEPT !.conn = c]
  <2>1. x \in LocalState /\ x.at = "start" /\ x.conn = c /\ x.sent = 0 /\ x.numRead = 0
    BY DEF Idle, LocalState
  <2>2. worker' = [worker EXCEPT ![w] = x]
    BY <1>2 DEF Take
  <2> QED
    BY <2>1, <2>2
<1>6. /\ UNCHANGED <<client, len, got, sock, ctx, boss, tokPath, task, process>>
      /\ worker[w].at = "idle" /\ worker[w].conn = NoConn
      /\ queue # <<>>
  BY <1>3 DEF Take, clients, PlacesOK, HandsOK
<1>7. /\ worker'[w] = x /\ \A v \in Workers \ {w} : worker'[v] = worker[v]
      /\ worker' \in [Workers -> LocalState]
  BY <1>5 DEF IInv, TypeOK, LocalState
<1>8. TypeOK'
  BY <1>1, <1>6, <1>7 DEF IInv, TypeOK, LocalState
<1>9. ~Queued(c)' /\ \A d \in Conns \ {c} : Queued(d)' <=> Queued(d)
  <2>1. \A i \in 1..Len(queue') : i + 1 \in 1..Len(queue) /\ i + 1 # 1
    BY <1>1
  <2>2. \A i, j \in 1..Len(queue) : queue[i] = queue[j] => i = j
    BY <1>3 DEF PlacesOK, QueueOK
  <2>3. ~Queued(c)'
    BY <1>1, <1>2, <2>1, <2>2 DEF Queued
  <2>4. ASSUME NEW d \in Conns \ {c}, Queued(d)
        PROVE  Queued(d)'
    <3>1. PICK i \in 1..Len(queue) : queue[i] = d
      BY <2>4 DEF Queued
    <3>2. i - 1 \in 1..Len(queue') /\ (i - 1) + 1 = i
      BY <1>1, <1>2, <3>1
    <3>3. queue'[i - 1] = d
      BY <1>1, <3>1, <3>2
    <3> QED
      BY <3>2, <3>3 DEF Queued
  <2>5. ASSUME NEW d \in Conns \ {c}, Queued(d)'
        PROVE  Queued(d)
    BY <1>1, <2>1, <2>5 DEF Queued
  <2> QED
    BY <2>3, <2>4, <2>5
<1>10. ASSUME NEW d \in Conns
       PROVE  Held(d)' <=> Held(d) \/ d = c
  BY <1>5, <1>6, <1>7 DEF Held
<1>11. \A d \in Conns : /\ AtRest(d)' <=> AtRest(d)
                        /\ QueueStage(d)' <=> QueueStage(d)
                        /\ \A me : WorkerStage(d, me)' <=> WorkerStage(d, me)
                        /\ ResponseOK(d)' /\ WholeOK(d)'
  BY <1>3, <1>6, ConnStays DEF SameConn
<1>12. LenOK'
  BY <1>6 DEF IInv, LenOK
<1>13. HandsOK'
  BY <1>3, <1>4, <1>5, <1>7 DEF PlacesOK, HandsOK, Held
<1>14. ExitOK'
  <2>1. \A v \in Workers : worker[v].at # "exited"
    BY <1>3, <1>6 DEF PlacesOK, ExitOK
  <2>2. boss'.at # "done"
    BY <1>3, <1>6 DEF PlacesOK, ExitOK
  <2> QED
    BY <1>5, <1>7, <2>1, <2>2 DEF ExitOK
<1>15. BossOK'
  <2>1. ASSUME NEW d \in Conns, boss.conn = d
        PROVE  BossStage(d, boss.at)' /\ ~Queued(d)' /\ ~Held(d)'
    <3>1. BossStage(d, boss.at) /\ ~Queued(d) /\ ~Held(d) /\ d # c
      BY <1>3, <1>4, <2>1 DEF PlacesOK, BossOK
    <3>2. BossStage(d, boss.at)'
      BY <1>6, <3>1 DEF BossStage, NewGot, Waits, Still
    <3> QED
      BY <1>9, <1>10, <3>1, <3>2
  <2> QED
    BY <1>3, <1>6, <2>1 DEF PlacesOK, BossOK
<1>16. QueueOK'
  <2>1. \A i, j \in 1..Len(queue') : queue'[i] = queue'[j] => i = j
    <3>1. \A i \in 1..Len(queue') : i + 1 \in 1..Len(queue)
      BY <1>1
    <3>2. \A i, j \in 1..Len(queue) : queue[i] = queue[j] => i = j
      BY <1>3 DEF PlacesOK, QueueOK
    <3>3. ASSUME NEW i \in 1..Len(queue'), NEW j \in 1..Len(queue'), queue'[i] = queue'[j]
          PROVE  i = j
      <4>1. i + 1 = j + 1
        BY <1>1, <3>1, <3>2, <3>3
      <4> QED
        BY <4>1
    <3> QED
      BY <3>3
  <2>2. \A d \in Conns : Queued(d)' => QueueStage(d)' /\ ~Held(d)'
    BY <1>3, <1>9, <1>10, <1>11 DEF PlacesOK, QueueOK
  <2> QED
    BY <2>1, <2>2 DEF QueueOK
<1>17. RestOK'
  BY <1>3, <1>6, <1>9, <1>10, <1>11 DEF PlacesOK, RestOK
<1>18. WorkersOK'
  <2>1. WorkerStage(c, x)'
    <3>1. TaskOwns(c)' /\ Waits(c)' /\ got'[c] = NewGot /\ sock'[c] = "open" /\ task'[c].state = "live"
      BY <1>4, <1>6 DEF QueueStage, TaskOwns, Waits, Still, NewGot
    <3> QED
      BY <1>5, <3>1 DEF WorkerStage, NewGot
  <2>2. ASSUME NEW v \in Workers, worker'[v].conn \in Conns
        PROVE  WorkerStage(worker[v].conn, worker[v])'
    <3>1. CASE v = w
      <4>1. worker'[v] = x /\ worker'[v].conn = c
        BY <1>5, <1>7, <3>1
      <4> QED
        BY <2>1, <4>1 DEF WorkerStage
    <3>2. CASE v # w
      <4>1. PICK d \in Conns, me \in {worker[v]} : d = worker[v].conn /\ me = worker[v] /\ worker'[v] = me
        BY <1>7, <2>2, <3>2
      <4>2. WorkerStage(d, me)
        BY <1>3, <4>1 DEF PlacesOK, WorkersOK
      <4>3. WorkerStage(d, me)' /\ worker'[v] = me /\ worker'[v].conn = d
        BY <1>11, <4>1, <4>2
      <4> QED
        BY <4>3 DEF WorkerStage
    <3> QED
      BY <3>1, <3>2
  <2> QED
    BY <2>2 DEF WorkersOK
<1> QED
  BY <1>6, <1>8, <1>11, <1>12, <1>13, <1>14, <1>15, <1>16, <1>17, <1>18 DEF IInv, PlacesOK

\* The local state of a worker that goes on.
LEMMA GoesOn ==
  ASSUME TypeOK, NEW w \in Workers,
         NEW at \in {"idle", "start", "notfound", "header", "loop", "send", "drain", "end", "exited"},
         Goes(w, at)
  PROVE  \E x \in LocalState :
           /\ worker' = [worker EXCEPT ![w] = x]
           /\ x.at = at /\ x.conn = worker[w].conn
           /\ x.size = worker[w].size /\ x.sent = worker[w].sent
           /\ x.numRead = worker[w].numRead /\ x.read = worker[w].read
<1> DEFINE x == [worker[w] EXCEPT !.at = at]
<1>1. worker[w] \in LocalState
  BY DEF TypeOK, LocalState
<1>2. /\ x \in LocalState
      /\ x.at = at /\ x.conn = worker[w].conn
      /\ x.size = worker[w].size /\ x.sent = worker[w].sent
      /\ x.numRead = worker[w].numRead /\ x.read = worker[w].read
  BY <1>1 DEF LocalState
<1>3. worker' = [worker EXCEPT ![w] = x]
  BY DEF Goes
<1> HIDE DEF x
<1> QED
  BY <1>2, <1>3

\* A worker that has found a pill has no connection.
LEMMA TakePillOK ==
  ASSUME IInv, process = "runs", NEW w \in Workers, TakePill(w)
  PROVE  IInv'
<1> USE ServerAssumption
<1>1. PlacesOK /\ \A d \in Conns : ResponseOK(d) /\ WholeOK(d)
  BY DEF IInv
<1>2. /\ worker[w].at = "idle" /\ boss.at = "finish" /\ queue = <<>>
      /\ UNCHANGED <<client, len, got, sock, ctx, boss, tokPath, task, queue, process>>
  BY DEF TakePill, clients
<1>3. worker[w].conn = NoConn
  BY <1>1, <1>2 DEF PlacesOK, HandsOK
<1>4. PICK x \in LocalState : worker' = [worker EXCEPT ![w] = x] /\ x.at = "exited" /\ x.conn = NoConn
  BY <1>3, GoesOn DEF TakePill, IInv
<1>5. /\ worker'[w] = x /\ \A v \in Workers \ {w} : worker'[v] = worker[v]
      /\ worker' \in [Workers -> LocalState]
  BY <1>4 DEF IInv, TypeOK, LocalState
<1>6. TypeOK'
  BY <1>2, <1>5 DEF IInv, TypeOK, LocalState
<1>7. \A d \in Conns : (Queued(d)' <=> Queued(d)) /\ (Held(d)' <=> Held(d))
  BY <1>2, <1>3, <1>4, <1>5 DEF Queued, Held
<1>8. \A d \in Conns : /\ AtRest(d)' <=> AtRest(d)
                       /\ QueueStage(d)' <=> QueueStage(d)
                       /\ \A me : WorkerStage(d, me)' <=> WorkerStage(d, me)
                       /\ ResponseOK(d)' /\ WholeOK(d)'
  BY <1>1, <1>2, ConnStays DEF SameConn
<1>9. LenOK'
  BY <1>2 DEF IInv, LenOK
<1>10. HandsOK'
  BY <1>1, <1>4, <1>5 DEF PlacesOK, HandsOK
<1>11. ExitOK'
  BY <1>1, <1>2, <1>4, <1>5 DEF PlacesOK, ExitOK
<1>12. BossOK'
  BY <1>1, <1>2 DEF PlacesOK, BossOK
<1>13. QueueOK' /\ RestOK'
  BY <1>1, <1>2, <1>7, <1>8 DEF PlacesOK, QueueOK, RestOK
<1>14. WorkersOK'
  <2>1. ASSUME NEW v \in Workers, worker'[v].conn \in Conns
        PROVE  WorkerStage(worker[v].conn, worker[v])'
    <3>1. PICK d \in Conns, me \in {worker[v]} : d = worker[v].conn /\ me = worker[v] /\ worker'[v] = me
      BY <1>4, <1>5, <2>1
    <3>2. WorkerStage(d, me)
      BY <1>1, <3>1 DEF PlacesOK, WorkersOK
    <3>3. WorkerStage(d, me)' /\ worker'[v] = me /\ worker'[v].conn = d
      BY <1>8, <3>1, <3>2
    <3> QED
      BY <3>3 DEF WorkerStage
  <2> QED
    BY <2>1 DEF WorkersOK
<1> QED
  BY <1>2, <1>6, <1>8, <1>9, <1>10, <1>11, <1>12, <1>13, <1>14 DEF IInv, PlacesOK

\* What is known of the connection a worker is busy with.
LEMMA WorkerBusy ==
  ASSUME IInv, process = "runs", NEW w \in Workers, worker[w].at \notin {"idle", "exited"}
  PROVE  /\ worker[w].conn \in Conns
         /\ worker[w] \in LocalState
         /\ WorkerStage(worker[w].conn, worker[w])
         /\ ResponseOK(worker[w].conn) /\ WholeOK(worker[w].conn)
<1>1. PlacesOK /\ worker[w].conn \in Conns \cup {NoConn} /\ worker[w] \in LocalState
  BY DEF IInv, TypeOK, LocalState
<1>2. worker[w].conn \in Conns
  BY <1>1 DEF PlacesOK, HandsOK
<1> QED
  BY <1>1, <1>2 DEF IInv, PlacesOK, WorkersOK

\* The file is found with its length, or it is not.
LEMMA SourceStartOK ==
  ASSUME IInv, process = "runs", NEW w \in Workers, SourceStart(w)
  PROVE  IInv'
<1> USE ServerAssumption
<1>0. /\ worker[w].at = "start"
      /\ UNCHANGED <<client, len, got, sock, ctx, boss, tokPath, task, queue, process>>
  BY DEF SourceStart, clients
<1>1. PICK c \in Conns, me \in LocalState :
        /\ worker[w] = me /\ me.conn = c /\ me.at = "start" /\ WorkerStage(c, me)
        /\ ResponseOK(c) /\ WholeOK(c)
  BY <1>0, WorkerBusy
<1>2. /\ TaskOwns(c) /\ Waits(c) /\ got[c] = NewGot /\ me.sent = 0 /\ me.numRead = 0
      /\ task[c].path = Request[c]
  BY <1>1 DEF WorkerStage, TaskOwns
<1>3. PICK x \in LocalState :
        /\ worker' = [worker EXCEPT ![w] = x]
        /\ x.conn = c /\ x.sent = 0 /\ x.numRead = 0
        /\ \/ x.at = "header" /\ Request[c] \in Paths /\ x.size = len[Request[c]]
           \/ x.at = "notfound" /\ (Request[c] \notin Paths \/ "stat" \in Faults)
  <2>1. CASE /\ Request[c] \in Paths
             /\ worker' = [worker EXCEPT ![w].at = "header", ![w].size = len[Request[c]]]
    <3> DEFINE x == [[me EXCEPT !.at = "header"] EXCEPT !.size = len[Request[c]]]
    <3>1. /\ x \in LocalState /\ x.at = "header" /\ x.size = len[Request[c]]
          /\ x.conn = me.conn /\ x.sent = me.sent /\ x.numRead = me.numRead
      BY <1>1, <2>1 DEF LocalState, IInv, TypeOK
    <3>2. worker' = [worker EXCEPT ![w] = x]
      BY <1>1, <2>1 DEF IInv, TypeOK
    <3> HIDE DEF x
    <3> QED
      BY <1>1, <1>2, <2>1, <3>1, <3>2
  <2>2. CASE (Request[c] \notin Paths \/ "stat" \in Faults) /\ Goes(w, "notfound")
    <3>1. TypeOK
      BY DEF IInv
    <3> QED
      BY <1>1, <1>2, <2>2, <3>1, GoesOn
  <2> QED
    BY <1>1, <1>2, <2>1, <2>2 DEF SourceStart
<1>4. TypeOK'
  BY <1>0, <1>3 DEF IInv, TypeOK, LocalState
<1>5. TaskOwns(c)' /\ Waits(c)' /\ got'[c] = NewGot /\ task'[c].state = "live" /\ sock'[c] # "none"
  BY <1>0, <1>2 DEF TaskOwns, Waits, Still
<1>6. Request[c] \in Paths => /\ len'[Request[c]] = len[Request[c]] /\ len[Request[c]] \in Nat
                              /\ len[Request[c]] <= Size[Request[c]]
                              /\ Patient => len[Request[c]] # 0
  BY <1>0 DEF IInv, TypeOK, LenOK, Patient
<1>7. WorkerStage(c, x)'
  <2>1. CASE x.at = "header" /\ Request[c] \in Paths /\ x.size = len[Request[c]]
    BY <1>3, <1>5, <1>6, <2>1 DEF WorkerStage, NewGot
  <2>2. CASE x.at = "notfound" /\ (Request[c] \notin Paths \/ "stat" \in Faults)
    <3>1. Request[c] = Missing \/ "stat" \in Faults
      BY <1>2, <2>2 DEF Waits
    <3> QED
      BY <1>3, <1>5, <2>2, <3>1 DEF WorkerStage, NewGot
  <2> QED
    BY <1>3, <2>1, <2>2
<1>8. ResponseOK(c)' /\ WholeOK(c)' /\ \A d \in Conns : SameConn(d)
  BY <1>0, <1>1 DEF SameConn, ResponseOK, WholeOK, FirstUnits
<1>9. x.at \notin {"idle", "exited"} /\ worker[w].conn = c
  BY <1>1, <1>3
<1> QED
  BY <1>0, <1>3, <1>4, <1>7, <1>8, <1>9, OneConnection

\* GF_FILE_NOT_FOUND is sent and the connection shut.
LEMMA SendNotFoundOK ==
  ASSUME IInv, process = "runs", NEW w \in Workers, SendNotFound(w)
  PROVE  IInv'
<1> USE ServerAssumption
<1>0. /\ worker[w].at = "notfound" /\ Goes(w, "drain") /\ TypeOK
      /\ UNCHANGED <<client, len, ctx, boss, tokPath, task, queue>>
  BY DEF SendNotFound, clients, IInv
<1>1. PICK c \in Conns, me \in LocalState :
        /\ worker[w] = me /\ me.conn = c /\ me.at = "notfound" /\ WorkerStage(c, me)
        /\ ResponseOK(c) /\ WholeOK(c)
  BY <1>0, WorkerBusy
<1>2. /\ TaskOwns(c) /\ got[c].data = <<>> /\ got[c].status = "none"
      /\ Request[c] = Missing \/ "stat" \in Faults
  BY <1>1 DEF WorkerStage, NewGot
<1>3. PICK x \in LocalState : /\ worker' = [worker EXCEPT ![w] = x]
                              /\ x.at = "drain" /\ x.conn = c
  BY <1>0, <1>1, GoesOn
<1>4. SendResponse(c, "notfound", 0) /\ sock' = [sock EXCEPT ![c] = "shut"]
  BY <1>1 DEF SendNotFound, Shut
<1>5. /\ process' \in {"runs", "sigpipe"}
      /\ got' \in [Conns -> Got]
      /\ got'[c].data = <<>> /\ got'[c].status \in {"none", "notfound"}
      /\ \A d \in Conns \ {c} : got'[d] = got[d]
  <2>1. "notfound" \in Statuses /\ 0 \in Nat
    BY DEF Statuses
  <2> QED
    BY <1>0, <1>2, <1>4, <2>1, HeaderSent
<1>6. TypeOK'
  BY <1>0, <1>3, <1>4, <1>5 DEF TypeOK, Got, LocalState
<1>7. sock'[c] = "shut" /\ \A d \in Conns \ {c} : sock'[d] = sock[d]
  BY <1>0, <1>4 DEF TypeOK
<1>8. \A d \in Conns \ {c} : SameConn(d)
  BY <1>0, <1>5, <1>7 DEF SameConn
<1>9. ResponseOK(c)' /\ WholeOK(c)'
  <2>1. Len(<<>>) = 0 /\ <<>> = FirstUnits(Request[c], 0)
    BY DEF FirstUnits
  <2>2. got'[c].data = FirstUnits(Request[c], Len(got'[c].data))
    BY <1>5, <2>1
  <2> QED
    BY <1>2, <1>5, <2>2 DEF ResponseOK, WholeOK, FirstUnits
<1>10. WorkerStage(c, x)'
  <2>1. task'[c].state = "live" /\ task'[c].ctx /\ ctx'[c].state = "live"
    BY <1>0, <1>2 DEF TaskOwns
  <2> QED
    BY <1>3, <1>7, <2>1 DEF WorkerStage
<1>11. x.at \notin {"idle", "exited"} /\ worker[w].conn = c /\ process' # "aborted"
  BY <1>1, <1>3, <1>5
<1> QED
  BY <1>0, <1>3, <1>6, <1>8, <1>9, <1>10, <1>11, OneConnection

\* The header with the length of the file is sent.
LEMMA SendHeaderOK ==
  ASSUME IInv, process = "runs", NEW w \in Workers, SendHeader(w)
  PROVE  IInv'
<1> USE ServerAssumption
<1>0. /\ worker[w].at = "header" /\ Goes(w, "loop") /\ TypeOK
      /\ UNCHANGED <<client, len, sock, boss, tokPath, task, queue>>
  BY DEF SendHeader, clients, IInv
<1>1. PICK c \in Conns, me \in LocalState :
        /\ worker[w] = me /\ me.conn = c /\ me.at = "header" /\ WorkerStage(c, me)
        /\ ResponseOK(c) /\ WholeOK(c)
  BY <1>0, WorkerBusy
<1>2. /\ TaskOwns(c) /\ Waits(c) /\ got[c] = NewGot
      /\ got[c].data = <<>> /\ got[c].status = "none"
      /\ me.sent = 0 /\ me.numRead = 0 /\ me.size \in Nat
      /\ Request[c] \in Paths
      /\ len[Request[c]] <= me.size /\ me.size <= Size[Request[c]]
      /\ Patient => me.size # 0
  BY <1>1 DEF WorkerStage, NewGot, LocalState
<1>3. PICK x \in LocalState : /\ worker' = [worker EXCEPT ![w] = x]
                              /\ x.at = "loop" /\ x.conn = c
                              /\ x.size = me.size /\ x.sent = 0 /\ x.numRead = 0
  BY <1>0, <1>1, <1>2, GoesOn
<1>4. /\ SendResponse(c, "ok", me.size)
      /\ ctx' = [ctx EXCEPT ![c].expectSent = me.size, ![c].sentSoFar = 0]
  BY <1>1 DEF SendHeader
<1>5. /\ process' \in {"runs", "sigpipe"}
      /\ got' \in [Conns -> Got]
      /\ got'[c].data = <<>>
      /\ Gone(c) => got'[c].status = "none"
      /\ ~Gone(c) => got'[c].status = "ok" /\ got'[c].size = me.size
      /\ \A d \in Conns \ {c} : got'[d] = got[d]
  <2>1. "ok" \in Statuses
    BY DEF Statuses
  <2> QED
    BY <1>0, <1>2, <1>4, <2>1, HeaderSent
<1>6. /\ ctx' \in [Conns -> [state : {"none", "live", "freed"}, expectSent : Int, sentSoFar : Int]]
      /\ ctx'[c].state = "live" /\ ctx'[c].expectSent = me.size /\ ctx'[c].sentSoFar = 0
      /\ \A d \in Conns \ {c} : ctx'[d] = ctx[d]
  <2> DEFINE k == [[ctx[c] EXCEPT !.expectSent = me.size] EXCEPT !.sentSoFar = 0]
  <2>1. ctx[c] \in [state : {"none", "live", "freed"}, expectSent : Int, sentSoFar : Int]
    BY <1>0 DEF TypeOK
  <2>2. /\ k \in [state : {"none", "live", "freed"}, expectSent : Int, sentSoFar : Int]
        /\ k.state = ctx[c].state /\ k.expectSent = me.size /\ k.sentSoFar = 0
    <3>1. me.size \in Int /\ 0 \in Int
      BY <1>2
    <3> QED
      BY <2>1, <3>1
  <2>3. ctx' = [ctx EXCEPT ![c] = k]
    BY <1>0, <1>4 DEF TypeOK
  <2>4. ctx[c].state = "live"
    BY <1>2 DEF TaskOwns
  <2> HIDE DEF k
  <2> QED
    BY <1>0, <2>2, <2>3, <2>4 DEF TypeOK
<1>7. TypeOK'
  BY <1>0, <1>3, <1>5, <1>6 DEF TypeOK, Got, LocalState
<1>8. \A d \in Conns \ {c} : SameConn(d)
  BY <1>0, <1>5, <1>6 DEF SameConn
<1>9. Len(got'[c].data) = 0 /\ sock'[c] = "open"
  BY <1>0, <1>2, <1>5 DEF TaskOwns
<1>10. ResponseOK(c)' /\ WholeOK(c)'
  <2>1. got'[c].data = FirstUnits(Request[c], 0)
    BY <1>5 DEF FirstUnits
  <2>2. got'[c].data = FirstUnits(Request[c], Len(got'[c].data))
    BY <1>9, <2>1
  <2>3. got'[c].status = "ok" => /\ Request[c] \in Paths
                                 /\ len'[Request[c]] <= got'[c].size
                                 /\ got'[c].size <= Size[Request[c]]
    BY <1>0, <1>2, <1>5
  <2>4. got'[c].status # "notfound"
    BY <1>5
  <2> QED
    BY <1>5, <1>9, <2>2, <2>3, <2>4 DEF ResponseOK, WholeOK, FirstUnits
<1>11. WorkerStage(c, x)'
  <2>1. TaskOwns(c)' /\ Waits(c)' /\ task'[c].state = "live"
    BY <1>0, <1>2, <1>6 DEF TaskOwns, Waits, Still
  <2>2. InStep(c, x)'
    <3>1. Gone(c)' <=> Gone(c)
      BY <1>0 DEF Gone
    <3> QED
      BY <1>2, <1>3, <1>5, <1>6, <1>9, <3>1 DEF InStep
  <2> QED
    BY <1>0, <1>2, <1>3, <1>9, <2>1, <2>2 DEF WorkerStage
<1>12. x.at \notin {"idle", "exited"} /\ worker[w].conn = c /\ process' # "aborted"
  BY <1>1, <1>3, <1>5
<1> QED
  BY <1>0, <1>3, <1>7, <1>8, <1>10, <1>11, <1>12, OneConnection

\* A buffer is read, at most what is missing; or the loop or the work ends.
LEMMA ReadFileOK ==
  ASSUME IInv, process = "runs", NEW w \in Workers, ReadFile(w)
  PROVE  IInv'
<1> USE ServerAssumption
<1>0. /\ worker[w].at = "loop" /\ TypeOK
      /\ UNCHANGED <<client, len, got, ctx, boss, tokPath, task, queue, process>>
  BY DEF ReadFile, clients, IInv
<1>1. PICK c \in Conns, me \in LocalState :
        /\ worker[w] = me /\ me.conn = c /\ me.at = "loop" /\ WorkerStage(c, me)
        /\ ResponseOK(c) /\ WholeOK(c)
  BY <1>0, WorkerBusy
<1>2. /\ TaskOwns(c) /\ Waits(c) /\ InStep(c, me) /\ me.numRead = me.sent
      /\ me.size \in Nat /\ me.sent \in Nat
      /\ Request[c] \in Paths
      /\ len[Request[c]] <= me.size /\ me.size <= Size[Request[c]]
      /\ Patient => me.size # 0
  BY <1>1 DEF WorkerStage, LocalState
<1>3. sock[c] = "open" /\ task[c].ctx /\ task[c].state = "live" /\ ctx[c].state = "live"
      /\ task[c].path = Request[c]
  BY <1>2 DEF TaskOwns
<1>4. ASSUME NEW x \in LocalState, worker' = [worker EXCEPT ![w] = x],
             x.at \in {"end", "send", "drain"}, x.conn = c,
             sock' = sock \/ sock' = [sock EXCEPT ![c] = "shut"],
             WorkerStage(c, x)', WholeOK(c)'
      PROVE  IInv'
  <2>1. TypeOK'
    <3>1. sock' \in [Conns -> {"none", "open", "shut", "closed"}]
      BY <1>0, <1>4 DEF TypeOK
    <3>2. worker' \in [Workers -> LocalState]
      BY <1>0, <1>4 DEF TypeOK, LocalState
    <3> QED
      BY <1>0, <3>1, <3>2 DEF TypeOK, LocalState
  <2>2. \A d \in Conns \ {c} : SameConn(d)
    BY <1>0, <1>4 DEF SameConn, TypeOK
  <2>3. ResponseOK(c)'
    BY <1>0, <1>1 DEF ResponseOK, FirstUnits
  <2>4. x.at \notin {"idle", "exited"} /\ worker[w].conn = c
    BY <1>1, <1>4
  <2> QED
    BY <1>0, <1>4, <2>1, <2>2, <2>3, <2>4, OneConnection
<1>5. CASE me.sent >= me.size /\ Goes(w, "end") /\ UNCHANGED sock
  <2>1. PICK x \in LocalState : /\ worker' = [worker EXCEPT ![w] = x]
                                /\ x.at = "end" /\ x.conn = c
    BY <1>0, <1>1, <1>5, GoesOn
  <2>2. ~Patient
    BY <1>2, <1>5 DEF InStep, Waits, Still, Gone
  <2>3. WorkerStage(c, x)'
    BY <1>0, <1>3, <1>5, <2>1, <2>2 DEF WorkerStage
  <2>4. WholeOK(c)'
    BY <1>0, <1>1, <1>5 DEF WholeOK
  <2> QED
    BY <1>4, <1>5, <2>1, <2>3, <2>4
<1>6. ASSUME me.sent < me.size, NEW n \in Readable(w),
             worker' = [worker EXCEPT ![w].at = "send", ![w].read = n, ![w].numRead = me.numRead + n],
             UNCHANGED sock
      PROVE  IInv'
  <2>1. n \in Nat /\ me.sent + n <= me.size
    <3>1. Readable(w) \subseteq {0} \cup {k \in Nat : k <= me.size - me.sent}
      BY <1>1 DEF Readable
    <3>2. n = 0 \/ (n \in Nat /\ n <= me.size - me.sent)
      BY <1>6, <3>1
    <3> QED
      BY <1>2, <1>6, <3>2
  <2> DEFINE x == [[[me EXCEPT !.at = "send"] EXCEPT !.read = n] EXCEPT !.numRead = me.numRead + n]
  <2>2. /\ x \in LocalState
        /\ x.at = "send" /\ x.conn = c /\ x.size = me.size /\ x.sent = me.sent
        /\ x.read = n /\ x.numRead = me.sent + n
    <3>1. me.numRead + n \in Nat /\ me.numRead + n = me.sent + n
      BY <1>2, <2>1
    <3> DEFINE total == me.numRead + n
    <3> HIDE DEF total
    <3>2. total \in Nat /\ n \in Nat /\ me \in LocalState
      BY <2>1, <3>1 DEF total
    <3> DEFINE y == [[[me EXCEPT !.at = "send"] EXCEPT !.read = n] EXCEPT !.numRead = total]
    <3>3. /\ y \in LocalState /\ y.at = "send" /\ y.conn = me.conn
          /\ y.size = me.size /\ y.sent = me.sent /\ y.read = n /\ y.numRead = total
      BY <3>2 DEF LocalState
    <3>4. x = y
      BY DEF total
    <3> HIDE DEF x, y
    <3> QED
      BY <1>1, <3>1, <3>3, <3>4 DEF total
  <2>3. worker' = [worker EXCEPT ![w] = x]
    BY <1>0, <1>1, <1>6 DEF TypeOK
  <2> HIDE DEF x
  <2>4. TaskOwns(c)' /\ Waits(c)' /\ task'[c].state = "live" /\ sock'[c] # "none"
    BY <1>0, <1>2, <1>3, <1>6 DEF TaskOwns, Waits, Still
  <2>5. InStep(c, x)'
    <3>1. Gone(c)' <=> Gone(c)
      BY <1>0 DEF Gone
    <3> QED
      BY <1>0, <1>2, <2>2, <3>1 DEF InStep
  <2>6. /\ len'[Request[c]] <= x.size /\ x.size <= Size[Request[c]]
        /\ Patient => x.size # 0
    BY <1>0, <1>2, <2>2
  <2>7. x.numRead = x.sent + x.read /\ x.sent + x.read <= x.size /\ x.sent < x.size
    BY <1>6, <2>1, <2>2
  <2>8. WorkerStage(c, x)'
    BY <1>2, <2>2, <2>4, <2>5, <2>6, <2>7 DEF WorkerStage
  <2>9. WholeOK(c)'
    BY <1>0, <1>1, <1>6 DEF WholeOK
  <2> QED
    BY <1>4, <1>6, <2>2, <2>3, <2>8, <2>9
<1>7. CASE "read" \in Faults /\ Shut(c) /\ Goes(w, "drain")
  <2>1. PICK x \in LocalState : /\ worker' = [worker EXCEPT ![w] = x]
                                /\ x.at = "drain" /\ x.conn = c
    BY <1>0, <1>1, <1>7, GoesOn
  <2>2. sock' = [sock EXCEPT ![c] = "shut"] /\ sock'[c] = "shut"
    BY <1>0, <1>7 DEF Shut, TypeOK
  <2>3. WorkerStage(c, x)'
    BY <1>0, <1>3, <2>1, <2>2 DEF WorkerStage
  <2>4. WholeOK(c)'
    BY <1>7 DEF WholeOK
  <2> QED
    BY <1>4, <2>1, <2>2, <2>3, <2>4
<1> QED
  BY <1>1, <1>5, <1>6, <1>7 DEF ReadFile

\* What is read is sent behind what was sent before, no assert of ctx_send_ fails,
\* and the connection is shut with the last unit.
LEMMA SendOK ==
  ASSUME IInv, process = "runs", NEW w \in Workers, Send(w)
  PROVE  IInv'
<1> USE ServerAssumption
<1>0. /\ worker[w].at = "send" /\ TypeOK
      /\ UNCHANGED <<client, len, boss, tokPath, task, queue>>
  BY DEF Send, clients, IInv
<1>1. PICK c \in Conns, me \in LocalState :
        /\ worker[w] = me /\ me.conn = c /\ me.at = "send" /\ WorkerStage(c, me)
        /\ ResponseOK(c) /\ WholeOK(c)
  BY <1>0, WorkerBusy
<1>2. /\ TaskOwns(c) /\ Waits(c) /\ InStep(c, me)
      /\ me.numRead = me.sent + me.read /\ me.sent + me.read <= me.size /\ me.sent < me.size
      /\ me.size \in Nat /\ me.sent \in Nat /\ me.read \in Nat /\ me.numRead \in Nat
      /\ Request[c] \in Paths
      /\ len[Request[c]] <= me.size /\ me.size <= Size[Request[c]]
      /\ Patient => me.size # 0
  BY <1>1 DEF WorkerStage, LocalState
<1>3. /\ sock[c] = "open" /\ task[c].ctx /\ task[c].state = "live" /\ ctx[c].state = "live"
      /\ task[c].path = Request[c]
      /\ ctx[c] \in [state : {"none", "live", "freed"}, expectSent : Int, sentSoFar : Int]
  BY <1>0, <1>2 DEF TaskOwns, TypeOK
<1> DEFINE full == ctx[c].sentSoFar + me.read = ctx[c].expectSent
<1>4. /\ ctx[c].expectSent = me.size
      /\ 0 <= ctx[c].sentSoFar /\ ctx[c].sentSoFar <= me.sent
      /\ ~Gone(c) => /\ got[c].status = "ok" /\ got[c].size = me.size
                     /\ ctx[c].sentSoFar = me.sent /\ Len(got[c].data) = me.sent
  BY <1>2 DEF InStep
<1>5. ~(ctx[c].expectSent < 0 \/ ctx[c].sentSoFar + me.read > ctx[c].expectSent)
  BY <1>2, <1>3, <1>4
<1>6. PICK outcome \in SendOutcomes(c) :
        /\ process' = (IF outcome = "sigpipe" THEN "sigpipe" ELSE process)
        /\ got' = IF Gone(c) THEN got ELSE [got EXCEPT ![c].data = got[c].data \o Buffer(w)]
        /\ outcome = "ok" => ctx' = [ctx EXCEPT ![c].sentSoFar = ctx[c].sentSoFar + me.read]
        /\ outcome = "ok" /\ full => sock' = [sock EXCEPT ![c] = "shut"]
        /\ outcome = "ok" /\ ~full => sock' = sock
        /\ outcome # "ok" => ctx' = ctx /\ sock' = sock
        /\ worker' = [worker EXCEPT ![w].sent = me.sent + me.read,
                         ![w].at = IF outcome = "ok" /\ full THEN "drain" ELSE "loop"]
  BY <1>1, <1>5, Zenon DEF Send, Shut
<1>7. outcome # "ok" => Gone(c)
  BY <1>6 DEF SendOutcomes
<1>8. /\ got' \in [Conns -> Got]
      /\ \A d \in Conns \ {c} : got'[d] = got[d]
      /\ Gone(c) => got'[c] = got[c]
      /\ ~Gone(c) => /\ got'[c].status = "ok" /\ got'[c].size = me.size
                     /\ got'[c].data = FirstUnits(Request[c], me.sent + me.read)
  <2>1. got \in [Conns -> Got]
    BY <1>0 DEF TypeOK, Got
  <2>2. CASE Gone(c)
    BY <1>6, <2>1, <2>2
  <2>3. CASE ~Gone(c)
    <3>1. got[c].data = FirstUnits(Request[c], me.sent)
      BY <1>1, <1>4, <2>3 DEF ResponseOK
    <3>2. Buffer(w) = [i \in 1..me.read |-> <<Request[c], me.sent + i>>]
      <4>1. Buffer(w) = [i \in 1..me.read |-> <<Request[c], me.numRead - me.read + i>>]
        BY <1>1, <1>3 DEF Buffer
      <4>2. \A i \in 1..me.read : me.numRead - me.read + i = me.sent + i
        BY <1>2
      <4> QED
        BY <4>1, <4>2
    <3>3. got[c].data \o Buffer(w) = FirstUnits(Request[c], me.sent + me.read)
      <4>1. me.sent \in Nat /\ me.read \in Nat
        BY <1>2
      <4>2. FirstUnits(Request[c], me.sent) \o [i \in 1..me.read |-> <<Request[c], me.sent + i>>]
              = FirstUnits(Request[c], me.sent + me.read)
        BY <4>1, UnitsGrow
      <4> QED
        BY <3>1, <3>2, <4>2
    <3>4. FirstUnits(Request[c], me.sent + me.read) \in Seq(Paths \X Nat)
      BY <1>2 DEF FirstUnits
    <3> DEFINE g == [got[c] EXCEPT !.data = FirstUnits(Request[c], me.sent + me.read)]
    <3>5. /\ g \in Got /\ g.status = got[c].status /\ g.size = got[c].size
          /\ g.data = FirstUnits(Request[c], me.sent + me.read)
      BY <2>1, <3>4 DEF Got
    <3>6. got' = [got EXCEPT ![c] = g]
      BY <1>6, <2>1, <2>3, <3>3
    <3> HIDE DEF g
    <3> QED
      BY <1>4, <2>1, <2>3, <3>5, <3>6
  <2> QED
    BY <2>2, <2>3
<1>9. ~Gone(c) => Len(got'[c].data) = me.sent + me.read
  BY <1>2, <1>8 DEF FirstUnits
<1>10. PICK x \in LocalState :
         /\ worker' = [worker EXCEPT ![w] = x]
         /\ x.conn = c /\ x.size = me.size /\ x.numRead = me.numRead
         /\ x.sent = me.sent + me.read
         /\ x.at = IF outcome = "ok" /\ full THEN "drain" ELSE "loop"
  <2> DEFINE at == IF outcome = "ok" /\ full THEN "drain" ELSE "loop"
             x == [[me EXCEPT !.sent = me.sent + me.read] EXCEPT !.at = at]
  <2>1. at \in {"drain", "loop"} /\ me.sent + me.read \in Nat
    BY <1>2
  <2>2. worker' = [worker EXCEPT ![w] = x]
    <3>1. worker' = [worker EXCEPT ![w].sent = me.sent + me.read, ![w].at = at]
      BY <1>6
    <3> DEFINE n == me.sent + me.read
    <3> HIDE DEF at, n
    <3>2. worker' = [worker EXCEPT ![w] = [[me EXCEPT !.sent = n] EXCEPT !.at = at]]
      BY <1>0, <1>1, <3>1 DEF TypeOK, n
    <3> QED
      BY <3>2 DEF n
  <2> HIDE DEF at
  <2>3. /\ x \in LocalState /\ x.conn = me.conn /\ x.size = me.size /\ x.numRead = me.numRead
        /\ x.sent = me.sent + me.read /\ x.at = at
    BY <1>1, <2>1 DEF LocalState
  <2> HIDE DEF x
  <2> QED
    BY <1>1, <2>2, <2>3 DEF at
<1>11. /\ ctx' \in [Conns -> [state : {"none", "live", "freed"}, expectSent : Int, sentSoFar : Int]]
       /\ ctx'[c].state = "live" /\ ctx'[c].expectSent = me.size
       /\ outcome = "ok" => ctx'[c].sentSoFar = ctx[c].sentSoFar + me.read
       /\ outcome # "ok" => ctx'[c].sentSoFar = ctx[c].sentSoFar
       /\ \A d \in Conns \ {c} : ctx'[d] = ctx[d]
  <2>1. CASE outcome # "ok"
    BY <1>0, <1>3, <1>4, <1>6, <2>1 DEF TypeOK
  <2>2. CASE outcome = "ok"
    <3> DEFINE k == [ctx[c] EXCEPT !.sentSoFar = ctx[c].sentSoFar + me.read]
    <3>1. ctx[c].sentSoFar + me.read \in Int
      BY <1>2, <1>3
    <3>2. /\ k \in [state : {"none", "live", "freed"}, expectSent : Int, sentSoFar : Int]
          /\ k.state = ctx[c].state /\ k.expectSent = ctx[c].expectSent
          /\ k.sentSoFar = ctx[c].sentSoFar + me.read
      BY <1>3, <3>1
    <3>3. ctx' = [ctx EXCEPT ![c] = k]
      BY <1>6, <2>2
    <3> HIDE DEF k
    <3> QED
      BY <1>0, <1>3, <1>4, <2>2, <3>2, <3>3 DEF TypeOK
  <2> QED
    BY <2>1, <2>2
<1>12. /\ sock' \in [Conns -> {"none", "open", "shut", "closed"}]
       /\ sock'[c] = IF outcome = "ok" /\ full THEN "shut" ELSE "open"
       /\ \A d \in Conns \ {c} : sock'[d] = sock[d]
  <2>1. CASE outcome = "ok" /\ full
    <3>1. sock' = [sock EXCEPT ![c] = "shut"] /\ sock \in [Conns -> {"none", "open", "shut", "closed"}]
      BY <1>0, <1>6, <2>1 DEF TypeOK
    <3> HIDE DEF full
    <3> QED
      BY <2>1, <3>1
  <2>2. CASE ~(outcome = "ok" /\ full)
    <3>1. sock' = sock /\ sock \in [Conns -> {"none", "open", "shut", "closed"}]
      BY <1>0, <1>6, <2>2 DEF TypeOK
    <3> HIDE DEF full
    <3> QED
      BY <1>3, <2>2, <3>1
  <2> QED
    BY <2>1, <2>2
<1>13. process' \in {"runs", "sigpipe"}
  BY <1>6
<1>14. TypeOK'
  BY <1>0, <1>8, <1>10, <1>11, <1>12, <1>13 DEF TypeOK, Got, LocalState
<1>15. \A d \in Conns \ {c} : SameConn(d)
  BY <1>0, <1>8, <1>11, <1>12 DEF SameConn
<1>16. ResponseOK(c)'
  <2>1. CASE Gone(c)
    BY <1>0, <1>1, <1>8, <2>1 DEF ResponseOK, FirstUnits
  <2>2. CASE ~Gone(c)
    <3>1. /\ got'[c].status = "ok" /\ got'[c].size = me.size
          /\ Len(got'[c].data) = me.sent + me.read
          /\ got'[c].data = FirstUnits(Request[c], Len(got'[c].data))
      BY <1>8, <1>9, <2>2
    <3> QED
      BY <1>0, <1>2, <3>1 DEF ResponseOK, FirstUnits
  <2> QED
    BY <2>1, <2>2
<1>17. WholeOK(c)'
  <2> SUFFICES ASSUME Patient, sock'[c] \in {"shut", "closed"}
               PROVE  Len(got'[c].data) = got'[c].size
    BY DEF WholeOK
  <2>1. outcome = "ok" /\ full
    BY <1>12
  <2>2. ~Gone(c)
    BY <1>2 DEF Waits, Still, Gone
  <2> QED
    BY <1>4, <1>8, <1>9, <2>1, <2>2
<1>18. WorkerStage(c, x)'
  <2>1. CASE outcome = "ok" /\ full
    <3>1. x.at = "drain" /\ sock'[c] = "shut" /\ ctx'[c].state = "live" /\ task'[c].ctx
          /\ task'[c].state = "live"
      BY <1>0, <1>3, <1>10, <1>11, <1>12, <2>1
    <3> QED
      BY <3>1 DEF WorkerStage
  <2>2. CASE ~(outcome = "ok" /\ full)
    <3>1. x.at = "loop" /\ sock'[c] = "open"
      BY <1>10, <1>12, <2>2
    <3>2. TaskOwns(c)' /\ Waits(c)' /\ task'[c].state = "live"
      BY <1>0, <1>2, <1>3, <1>11, <3>1 DEF TaskOwns, Waits, Still
    <3>3. InStep(c, x)'
      <4>1. Gone(c)' <=> Gone(c)
        BY <1>0 DEF Gone
      <4>2. 0 <= ctx'[c].sentSoFar /\ ctx'[c].sentSoFar <= me.sent + me.read
        BY <1>2, <1>3, <1>4, <1>11
      <4>3. ~Gone(c) => ctx'[c].sentSoFar = me.sent + me.read /\ me.sent + me.read < me.size
        BY <1>2, <1>4, <1>7, <1>11, <2>2
      <4> QED
        BY <1>2, <1>8, <1>9, <1>10, <1>11, <4>1, <4>2, <4>3 DEF InStep
    <3>4. /\ len'[Request[c]] <= x.size /\ x.size <= Size[Request[c]]
          /\ Patient => x.size # 0
          /\ x.numRead = x.sent
      BY <1>0, <1>2, <1>10
    <3> QED
      BY <1>2, <3>1, <3>2, <3>3, <3>4 DEF WorkerStage
  <2> QED
    BY <2>1, <2>2
<1>19. x.at \notin {"idle", "exited"} /\ worker[w].conn = c
  BY <1>1, <1>10
<1> QED
  BY <1>0, <1>10, <1>13, <1>14, <1>15, <1>16, <1>17, <1>18, <1>19, OneConnection

\* The second half of shutdown_: the socket is closed and the context is gone.
LEMMA WorkerDrainOK ==
  ASSUME IInv, process = "runs", NEW w \in Workers, WorkerDrain(w)
  PROVE  IInv'
<1> USE ServerAssumption
<1>0. /\ worker[w].at = "drain" /\ Goes(w, "end") /\ TypeOK
      /\ UNCHANGED <<client, len, got, boss, tokPath, queue, process>>
  BY DEF WorkerDrain, clients, IInv
<1>1. PICK c \in Conns, me \in LocalState :
        /\ worker[w] = me /\ me.conn = c /\ me.at = "drain" /\ WorkerStage(c, me)
        /\ ResponseOK(c) /\ WholeOK(c)
  BY <1>0, WorkerBusy
<1>2. PICK x \in LocalState : /\ worker' = [worker EXCEPT ![w] = x]
                              /\ x.at = "end" /\ x.conn = c
  BY <1>0, <1>1, GoesOn
<1>3. /\ sock' = [sock EXCEPT ![c] = "closed"]
      /\ ctx' = [ctx EXCEPT ![c].state = "freed"]
      /\ task' = [task EXCEPT ![c].ctx = FALSE]
  BY <1>1 DEF WorkerDrain, Close
<1>4. sock[c] = "shut" /\ task[c].state = "live"
  BY <1>1 DEF WorkerStage
<1>5. /\ sock' \in [Conns -> {"none", "open", "shut", "closed"}]
      /\ sock'[c] = "closed"
      /\ \A d \in Conns \ {c} : sock'[d] = sock[d]
  BY <1>0, <1>3 DEF TypeOK
<1>6. /\ ctx' \in [Conns -> [state : {"none", "live", "freed"}, expectSent : Int, sentSoFar : Int]]
      /\ ctx'[c].state = "freed"
      /\ \A d \in Conns \ {c} : ctx'[d] = ctx[d]
  <2> DEFINE k == [ctx[c] EXCEPT !.state = "freed"]
  <2>1. ctx \in [Conns -> [state : {"none", "live", "freed"}, expectSent : Int, sentSoFar : Int]]
    BY <1>0 DEF TypeOK
  <2>2. k \in [state : {"none", "live", "freed"}, expectSent : Int, sentSoFar : Int] /\ k.state = "freed"
    BY <2>1
  <2>3. ctx' = [ctx EXCEPT ![c] = k]
    BY <1>3
  <2> HIDE DEF k
  <2> QED
    BY <2>1, <2>2, <2>3
<1>7. /\ task' \in [Conns -> [state : {"none", "live", "freed"},
                              path : Paths \cup {Missing, NoPath}, ctx : BOOLEAN]]
      /\ task'[c].state = "live" /\ task'[c].ctx = FALSE
      /\ \A d \in Conns \ {c} : task'[d] = task[d]
  <2> DEFINE t == [task[c] EXCEPT !.ctx = FALSE]
  <2>1. task[c] \in [state : {"none", "live", "freed"}, path : Paths \cup {Missing, NoPath}, ctx : BOOLEAN]
    BY <1>0 DEF TypeOK
  <2>2. /\ t \in [state : {"none", "live", "freed"}, path : Paths \cup {Missing, NoPath}, ctx : BOOLEAN]
        /\ t.state = task[c].state /\ t.ctx = FALSE
    BY <2>1
  <2>3. task' = [task EXCEPT ![c] = t]
    BY <1>3
  <2> HIDE DEF t
  <2> QED
    BY <1>0, <1>4, <2>2, <2>3 DEF TypeOK
<1>8. TypeOK'
  BY <1>0, <1>2, <1>5, <1>6, <1>7 DEF TypeOK, LocalState
<1>9. \A d \in Conns \ {c} : SameConn(d)
  BY <1>0, <1>5, <1>6, <1>7 DEF SameConn
<1>10. ResponseOK(c)' /\ WholeOK(c)'
  BY <1>0, <1>1, <1>4 DEF ResponseOK, WholeOK, FirstUnits
<1>11. WorkerStage(c, x)'
  BY <1>2, <1>5, <1>6, <1>7 DEF WorkerStage
<1>12. x.at \notin {"idle", "exited"} /\ worker[w].conn = c /\ process' # "aborted"
  BY <1>0, <1>1, <1>2
<1> QED
  BY <1>0, <1>2, <1>8, <1>9, <1>10, <1>11, <1>12, OneConnection

\* The task is freed; its assert fails only if the context was not given up.
LEMMA EndWorkOK ==
  ASSUME IInv, process = "runs", NEW w \in Workers, EndWork(w)
  PROVE  IInv'
<1> USE ServerAssumption
<1>0. /\ worker[w].at = "end" /\ worker' = [worker EXCEPT ![w] = Idle] /\ TypeOK
      /\ UNCHANGED <<client, len, got, sock, ctx, boss, tokPath, queue>>
  BY DEF EndWork, clients, IInv
<1>1. PICK c \in Conns, me \in LocalState :
        /\ worker[w] = me /\ me.conn = c /\ me.at = "end" /\ WorkerStage(c, me)
        /\ ResponseOK(c) /\ WholeOK(c)
  BY <1>0, WorkerBusy
<1>2. /\ process' = (IF task[c].ctx THEN "aborted" ELSE process)
      /\ task' = [task EXCEPT ![c].state = "freed"]
  BY <1>1 DEF EndWork
<1>3. /\ ~task[c].ctx => sock[c] = "closed" /\ ctx[c].state # "live"
      /\ Patient => ~task[c].ctx
  BY <1>1 DEF WorkerStage
<1>4. Idle \in LocalState /\ Idle.conn = NoConn /\ Idle.at = "idle"
  BY DEF Idle, LocalState
<1>5. task'[c].state = "freed" /\ \A d \in Conns \ {c} : task'[d] = task[d]
  BY <1>0, <1>2 DEF TypeOK
<1>6. TypeOK'
  <2>1. process' \in {"runs", "aborted", "sigpipe"}
    BY <1>0, <1>2 DEF TypeOK
  <2>2. worker' \in [Workers -> LocalState]
    BY <1>0, <1>4 DEF TypeOK, LocalState
  <2>3. task' \in [Conns -> [state : {"none", "live", "freed"},
                             path : Paths \cup {Missing, NoPath}, ctx : BOOLEAN]]
    <3> DEFINE T == [state : {"none", "live", "freed"}, path : Paths \cup {Missing, NoPath}, ctx : BOOLEAN]
               t == [task[c] EXCEPT !.state = "freed"]
    <3>1. task \in [Conns -> T]
      BY <1>0 DEF TypeOK
    <3>2. t \in T
      BY <3>1
    <3>3. task' = [task EXCEPT ![c] = t]
      BY <1>2
    <3> HIDE DEF t, T
    <3>4. task' \in [Conns -> T]
      BY <3>1, <3>2, <3>3
    <3> QED
      BY <3>4 DEF T
  <2> QED
    BY <1>0, <2>1, <2>2, <2>3 DEF TypeOK, LocalState
<1>7. \A d \in Conns : ResponseOK(d)'
  <2>1. \A d \in Conns : ResponseOK(d)
    BY DEF IInv
  <2> QED
    BY <1>0, <2>1 DEF ResponseOK, FirstUnits
<1>8. CASE task[c].ctx
  <2>1. process' = "aborted" /\ ~Patient
    BY <1>2, <1>3, <1>8
  <2>2. LenOK'
    BY <1>0 DEF IInv, LenOK
  <2> QED
    BY <1>6, <1>7, <2>1, <2>2 DEF IInv
<1>9. CASE ~task[c].ctx
  <2>1. process' # "aborted"
    BY <1>2, <1>9
  <2>2. AtRest(c)' /\ WholeOK(c)'
    BY <1>0, <1>1, <1>3, <1>5, <1>9 DEF AtRest, WholeOK
  <2>3. \A d \in Conns \ {c} : SameConn(d)
    BY <1>0, <1>5 DEF SameConn
  <2> QED
    BY <1>0, <1>1, <1>4, <1>6, <1>7, <2>1, <2>2, <2>3, OneConnection
<1> QED
  BY <1>8, <1>9

-----------------------------------------------------------------------------
(* The theorems.                                                           *)

\* The places of a connection, and what each place knows of it, hold throughout.
THEOREM ServerInvariant == Spec => []IInv
<1>1. IInv /\ [Next]_vars => IInv'
  <2> SUFFICES ASSUME IInv, [Next]_vars PROVE IInv'
    OBVIOUS
  <2>1. CASE UNCHANGED vars
    <3>1. UNCHANGED <<client, len, got, sock, ctx, boss, tokPath, task, queue, worker, process>>
      BY <2>1 DEF vars
    <3>2. TypeOK' /\ LenOK' /\ \A c \in Conns : ResponseOK(c)' /\ (WholeOK(c)' <=> WholeOK(c))
      BY <3>1 DEF IInv, TypeOK, LenOK, ResponseOK, WholeOK, FirstUnits
    <3>3. HandsOK' /\ ExitOK' <=> HandsOK /\ ExitOK
      BY <3>1 DEF HandsOK, ExitOK
    <3>4. \A d \in Conns : (Queued(d)' <=> Queued(d)) /\ (Held(d)' <=> Held(d)) /\ SameConn(d)
      BY <3>1 DEF Queued, Held, SameConn
    <3>5. \A d \in Conns : /\ AtRest(d)' <=> AtRest(d)
                           /\ QueueStage(d)' <=> QueueStage(d)
                           /\ \A me : WorkerStage(d, me)' <=> WorkerStage(d, me)
                           /\ \A at : BossStage(d, at)' <=> BossStage(d, at)
      <4>1. \A d \in Conns : \A at : BossStage(d, at)' <=> BossStage(d, at)
        BY <3>1 DEF BossStage, NewGot, Still, Waits
      <4> QED
        BY <3>1, <3>4, <4>1, ConnStays
    <3>6. QueueOK /\ RestOK => QueueOK' /\ RestOK'
      BY <3>1, <3>4, <3>5 DEF QueueOK, RestOK
    <3>7. BossOK => BossOK'
      BY <3>1, <3>4, <3>5 DEF BossOK
    <3>8. WorkersOK => WorkersOK'
      BY <3>1, <3>5 DEF WorkersOK
    <3> QED
      BY <3>1, <3>2, <3>3, <3>6, <3>7, <3>8 DEF IInv, PlacesOK
  <2>2. CASE Next
    <3>1. process = "runs"
      BY <2>2 DEF Next
    <3>2. ASSUME NEW c \in Conns, ClientStep(c) PROVE IInv'
      BY <3>1, <3>2, ClientStepOK
    <3>3. ASSUME NEW p \in Paths, Shrink(p) PROVE IInv'
      BY <3>1, <3>3, ShrinkOK
    <3>4. CASE BossStep
      <4>1. ASSUME NEW c \in Conns, Accept(c) PROVE IInv'
        BY <3>1, <4>1, AcceptOK
      <4> QED
        BY <3>1, <3>4, <4>1, ReadRequestOK, RefuseOK, BossDrainOK, CallHandlerOK, FinishOK DEF BossStep
    <3>5. CASE Stop
      BY <3>1, <3>5, StopOK
    <3>6. ASSUME NEW w \in Workers, WorkerStep(w) PROVE IInv'
      <4>1. CASE Take(w)
        BY <3>1, <4>1, TakeOK
      <4>2. CASE TakePill(w)
        BY <3>1, <4>2, TakePillOK
      <4>3. CASE SourceStart(w)
        BY <3>1, <4>3, SourceStartOK
      <4>4. CASE SendNotFound(w)
        BY <3>1, <4>4, SendNotFoundOK
      <4>5. CASE SendHeader(w)
        BY <3>1, <4>5, SendHeaderOK
      <4>6. CASE ReadFile(w)
        BY <3>1, <4>6, ReadFileOK
      <4>7. CASE Send(w)
        BY <3>1, <4>7, SendOK
      <4>8. CASE WorkerDrain(w)
        BY <3>1, <4>8, WorkerDrainOK
      <4>9. CASE EndWork(w)
        BY <3>1, <4>9, EndWorkOK
      <4> QED
        BY <3>6, <4>1, <4>2, <4>3, <4>4, <4>5, <4>6, <4>7, <4>8, <4>9 DEF WorkerStep
    <3> QED
      BY <2>2, <3>2, <3>3, <3>4, <3>5, <3>6 DEF Next
  <2> QED
    BY <2>1, <2>2
<1> QED
  BY <1>1, InitOK, PTL DEF Spec

\* Whatever the interleaving and the faults, a client receives a prefix of its own
\* file, with that file's length: no request, session or buffer of mtgf/gfserver_main.c
\* gets into another's response.
THEOREM ServerResponseIsTheFile == Spec => []ResponseIsTheFile
<1>1. IInv => ResponseIsTheFile
  BY DEF IInv, ResponseOK, FirstUnits, ResponseIsTheFile
<1> QED
  BY <1>1, ServerInvariant, PTL

\* With patient clients and no empty file, neither the asserts of ctx_send_ nor the
\* one of mth_task_destroy_ can fail.
THEOREM ServerNoAssertFails ==
  ASSUME Patient
  PROVE  Spec => []NoAssertFails
<1>1. IInv => NoAssertFails
  BY DEF IInv, NoAssertFails
<1> QED
  BY <1>1, ServerInvariant, PTL

\* With patient clients and no empty file, the server closes its side of a connection
\* with GF_OK after the whole file only, unless a read failed.
THEOREM ServerWholeFileBeforeEnd ==
  ASSUME Patient
  PROVE  Spec => []WholeFileBeforeEnd
<1>1. IInv => WholeFileBeforeEnd
  BY DEF IInv, WholeOK, WholeFileBeforeEnd
<1> QED
  BY <1>1, ServerInvariant, PTL

\* Who owns a socket when the boss, the queue and the workers are as in IInv.
LEMMA OwnersCounted ==
  ASSUME IInv, Patient, NEW c \in Conns
  PROVE  Cardinality(Owners(c)) = (IF sock[c] \in {"open", "shut"} THEN 1 ELSE 0)
<1> USE ServerAssumption
<1>1. PlacesOK /\ TypeOK
  BY DEF IInv
<1>2. DOMAIN queue = 1..Len(queue) /\ c # NoConn
  BY <1>1 DEF TypeOK
<1> DEFINE B == IF boss.conn = c THEN {<<"boss">>} ELSE {}
           Q == {<<"queue", i>> : i \in {j \in DOMAIN queue : queue[j] = c}}
           W == {<<"worker", w>> : w \in {v \in Workers : worker[v].conn = c /\ task[c].ctx}}
<1>3. Owners(c) = B \cup Q \cup W
  BY DEF Owners
<1>4. ~Queued(c) => Q = {}
  BY <1>2 DEF Queued
<1>5. ~Held(c) => W = {}
  BY DEF Held
<1>6. ~(boss.conn = c) => B = {}
  OBVIOUS
<1>7. CASE boss.conn = c
  <2>1. /\ BossStage(c, boss.at) /\ ~Queued(c) /\ ~Held(c)
        /\ boss.at \in {"reading", "call", "error", "invalid", "drain"}
    BY <1>1, <1>2, <1>7 DEF PlacesOK, BossOK, TypeOK
  <2>2. sock[c] \in {"open", "shut"}
    BY <2>1 DEF BossStage
  <2>3. Owners(c) = {<<"boss">>}
    BY <1>3, <1>4, <1>5, <1>7, <2>1
  <2> QED
    BY <2>2, <2>3, FS_Singleton
<1>8. CASE boss.conn # c /\ Queued(c)
  <2>1. QueueStage(c) /\ ~Held(c)
    BY <1>1, <1>8 DEF PlacesOK, QueueOK
  <2>2. sock[c] = "open"
    BY <2>1 DEF QueueStage, TaskOwns
  <2>3. PICK i \in 1..Len(queue) : queue[i] = c
    BY <1>8 DEF Queued
  <2>4. {j \in DOMAIN queue : queue[j] = c} = {i}
    BY <1>1, <1>2, <2>3 DEF PlacesOK, QueueOK
  <2>5. Q = {<<"queue", i>>}
    BY <2>4
  <2>6. Owners(c) = {<<"queue", i>>}
    BY <1>3, <1>5, <1>6, <1>8, <2>1, <2>5
  <2> QED
    BY <2>2, <2>6, FS_Singleton
<1>9. CASE boss.conn # c /\ ~Queued(c) /\ Held(c)
  <2>1. PICK w \in Workers : worker[w].conn = c
    BY <1>9 DEF Held
  <2>2. WorkerStage(c, worker[w]) /\ worker[w].at \notin {"idle", "exited"}
    BY <1>1, <1>2, <2>1 DEF PlacesOK, WorkersOK, HandsOK
  <2>3. worker[w].at \in {"start", "notfound", "header", "loop", "send", "drain", "end"}
    BY <1>1, <2>2 DEF TypeOK
  <2>4. CASE worker[w].at = "end"
    <3>1. ~task[c].ctx /\ sock[c] = "closed"
      BY <2>2, <2>4 DEF WorkerStage
    <3>2. Owners(c) = {}
      BY <1>3, <1>4, <1>6, <1>9, <3>1
    <3> QED
      BY <3>1, <3>2, FS_EmptySet
  <2>5. CASE worker[w].at # "end"
    <3>1. task[c].ctx /\ sock[c] \in {"open", "shut"}
      BY <2>2, <2>3, <2>5 DEF WorkerStage, TaskOwns
    <3>2. {v \in Workers : worker[v].conn = c /\ task[c].ctx} = {w}
      BY <1>1, <1>2, <2>1, <3>1 DEF PlacesOK, HandsOK
    <3>3. W = {<<"worker", w>>}
      BY <3>2
    <3>4. Owners(c) = {<<"worker", w>>}
      BY <1>3, <1>4, <1>6, <1>9, <3>3
    <3> QED
      BY <3>1, <3>4, FS_Singleton
  <2> QED
    BY <2>4, <2>5
<1>10. CASE boss.conn # c /\ ~Queued(c) /\ ~Held(c)
  <2>1. sock[c] \notin {"open", "shut"}
    BY <1>1, <1>10 DEF PlacesOK, RestOK, AtRest
  <2>2. Owners(c) = {}
    BY <1>3, <1>4, <1>5, <1>6, <1>10
  <2> QED
    BY <2>1, <2>2, FS_EmptySet
<1> QED
  BY <1>7, <1>8, <1>9, <1>10

\* With patient clients and no empty file, a socket has one owner from accept to
\* close, and mth_finish leaves no socket, context or task behind.
THEOREM ServerOneOwner ==
  ASSUME Patient, Workers # {}
  PROVE  Spec => []OneOwner
<1>1. IInv => OneOwner
  <2> SUFFICES ASSUME IInv PROVE OneOwner
    OBVIOUS
  <2> USE ServerAssumption
  <2>1. PlacesOK /\ TypeOK
    BY DEF IInv
  <2>2. \A c \in Conns : Cardinality(Owners(c)) = (IF sock[c] \in {"open", "shut"} THEN 1 ELSE 0)
    BY OwnersCounted
  <2>3. ASSUME NEW w \in Workers,
               worker[w].at \in {"start", "notfound", "header", "send", "drain"}
        PROVE  /\ ctx[worker[w].conn].state = "live"
               /\ task[worker[w].conn].state = "live" /\ task[worker[w].conn].ctx
    <3>1. WorkerStage(worker[w].conn, worker[w])
      BY <2>1, <2>3 DEF PlacesOK, HandsOK, WorkersOK, TypeOK
    <3> QED
      BY <2>3, <3>1 DEF WorkerStage, TaskOwns
  <2>4. ASSUME boss.at = "done", NEW c \in Conns
        PROVE  /\ sock[c] \in {"none", "closed"}
               /\ ctx[c].state # "live" /\ task[c].state # "live"
    <3>1. boss.conn = NoConn /\ queue = <<>> /\ \A w \in Workers : worker[w].conn = NoConn
      BY <2>1, <2>4 DEF PlacesOK, BossOK, ExitOK, HandsOK
    <3>2. boss.conn # c /\ ~Queued(c) /\ ~Held(c)
      BY <3>1 DEF Queued, Held
    <3> QED
      BY <2>1, <3>2 DEF PlacesOK, RestOK, AtRest, Blank
  <2> QED
    BY <2>1, <2>2, <2>3, <2>4 DEF OneOwner
<1> QED
  BY <1>1, ServerInvariant, PTL
=============================================================================
