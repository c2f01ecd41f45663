--------------------------- MODULE SendPathProofs ---------------------------
(* What SendPath guarantees for every set of connections and workers and    *)
(* every bound, proved with TLAPS.                                          *)
EXTENDS SendPath, FiniteSetTheorems, TLAPS

(***************************************************************************)
(* Types.  The helpers first: what each of them does to its variables.     *)
(***************************************************************************)
(* flushOutbound sends some of what is pending, on its connection alone.    *)
LEMMA FlushTypes ==
  ASSUME TypeOK, NEW c \in Conn, flushOutbound(c)
  PROVE  /\ sent' \in [Conn -> Nat]
         /\ sent'[c] <= Len(queued[c])
         /\ \A d \in Conn \ {c} : sent'[d] = sent[d]
         /\ epollout' \in [Conn -> {"off", "on", "ready"}]
         /\ full' \in [Conn -> BOOLEAN]
<1>1. /\ sent \in [Conn -> Nat] /\ epollout \in [Conn -> {"off", "on", "ready"}]
      /\ full \in [Conn -> BOOLEAN] /\ sent[c] <= Len(queued[c])
      /\ Len(queued[c]) \in Nat
  BY DEF TypeOK
<1>2. PICK k \in 0..(Len(queued[c]) - sent[c]) : sent' = [sent EXCEPT ![c] = @ + k]
  BY DEF flushOutbound
<1>3. epollout' \in [Conn -> {"off", "on", "ready"}] /\ full' \in [Conn -> BOOLEAN]
  BY <1>1 DEF flushOutbound, updateInterest
<1>4. sent[c] \in Nat /\ sent[c] + k \in Nat /\ sent[c] + k <= Len(queued[c])
  BY <1>1
<1>5. sent' \in [Conn -> Nat] /\ sent'[c] = sent[c] + k /\ \A d \in Conn \ {c} : sent'[d] = sent[d]
  BY <1>1, <1>2, <1>4
<1> QED BY <1>3, <1>4, <1>5

(* Whichever interest is asked for, of whichever descriptor, it is a legal one. *)
LEMMA InterestTypes ==
  ASSUME TypeOK, NEW c, NEW b, updateInterest(c, b)
  PROVE  epollout' \in [Conn -> {"off", "on", "ready"}]
<1>1. epollout \in [Conn -> {"off", "on", "ready"}]
  BY DEF TypeOK
<1>2. \E v \in {"off", "on", "ready"} : epollout' = [epollout EXCEPT ![c] = v]
  BY DEF updateInterest
<1> QED BY <1>1, <1>2

(* A push makes one queue one frame longer.                                 *)
LEMMA PushTypes ==
  ASSUME TypeOK, NEW c \in Conn, NEW k \in FrameKind, NEW n \in 0..MaxInput, Pushed(c, k, n)
  PROVE  /\ queued' \in [Conn -> Seq(Frame)]
         /\ \A d \in Conn : sent[d] <= Len(queued'[d])
<1>1. queued \in [Conn -> Seq(Frame)] /\ sent \in [Conn -> Nat]
      /\ \A d \in Conn : sent[d] <= Len(queued[d])
  BY DEF TypeOK
<1>2. [kind |-> k, n |-> n] \in Frame
  BY DEF Frame
<1>3. \A d \in Conn : queued'[d] = IF d = c THEN Append(queued[c], [kind |-> k, n |-> n]) ELSE queued[d]
  BY <1>1 DEF Pushed
<1>4. queued' \in [Conn -> Seq(Frame)]
  BY <1>1, <1>2 DEF Pushed
<1>5. Len(Append(queued[c], [kind |-> k, n |-> n])) = Len(queued[c]) + 1 /\ Len(queued[c]) \in Nat
  BY <1>1, <1>2
<1> QED BY <1>1, <1>3, <1>4, <1>5

(* Every step keeps the types. *)
LEMMA TypeStep ==
  ASSUME TypeOK, [Next]_vars
  PROVE  TypeOK'
<1> USE SendPathAssumption DEF SendPathAssumption, connVars, peerVars, poolVars, ioVars, HandlerPC
<1>1. ASSUME NEW c \in Conn, Accept(c) PROVE TypeOK'
  BY <1>1 DEF Accept, TypeOK
<1>2. ASSUME NEW c \in Conn, EpollHangUp(c) PROVE TypeOK'
  BY <1>2 DEF EpollHangUp, TypeOK, closeConnection
<1>3. ASSUME NEW c \in Conn, EarlyFinish(c) PROVE TypeOK'
  BY <1>3 DEF EarlyFinish, TypeOK, Goto
<1>4. ASSUME NEW c \in Conn, HandshakeDone(c) PROVE TypeOK'
  BY <1>4 DEF HandshakeDone, TypeOK, Goto, updateInterest
<1>5. ASSUME NEW c \in Conn, Fail(c) PROVE TypeOK'
  BY <1>5 DEF Fail, TypeOK, closeConnection, EndHandler
<1>6. ASSUME NEW c \in Conn, RecvUpgrade(c) PROVE TypeOK'
  <2>1. rcvd' \in [Conn -> 0..MaxInput] /\ upgraded' \in [Conn -> BOOLEAN]
    BY <1>6 DEF RecvUpgrade, TypeOK, Reading, Received
  <2> QED BY <1>6, <2>1 DEF RecvUpgrade, TypeOK, Reading, Received, Answer
<1>7. ASSUME NEW c \in Conn, RecvPing(c) PROVE TypeOK'
  BY <1>7 DEF RecvPing, TypeOK, Reading, Received, Answer
<1>8. ASSUME NEW c \in Conn, RecvPong(c) PROVE TypeOK'
  BY <1>8 DEF RecvPong, TypeOK, Reading, Received, NextBuffer
<1>9. ASSUME NEW c \in Conn, RecvClose(c) PROVE TypeOK'
  BY <1>9 DEF RecvClose, TypeOK, Reading, Received, Answer
<1>10. ASSUME NEW c \in Conn, SkipOut(c) PROVE TypeOK'
  BY <1>10 DEF SkipOut, TypeOK, EndHandler
<1>11. ASSUME NEW c \in Conn, CloseDrained(c) PROVE TypeOK'
  BY <1>11 DEF CloseDrained, TypeOK, closeConnection, EndHandler
<1>12. ASSUME NEW c \in Conn, Reap(c) PROVE TypeOK'
  BY <1>12 DEF Reap, TypeOK, closeConnection
<1>13. ASSUME NEW c \in Conn, PeerReads(c) PROVE TypeOK'
  <2>1. full' \in [Conn -> BOOLEAN]
    BY <1>13 DEF PeerReads, TypeOK
  <2>2. epollout' \in [Conn -> {"off", "on", "ready"}]
    BY <1>13 DEF PeerReads, TypeOK
  <2>3. /\ UNCHANGED <<connVars, queued, sent, peerVars, wake, poolVars, pc>>
        /\ UNCHANGED ioVars
    BY <1>13 DEF PeerReads
  <2> QED BY <2>1, <2>2, <2>3 DEF TypeOK
<1>14. ASSUME NEW c \in Conn, PeerLeaves(c) PROVE TypeOK'
  <2>1. gone' \in [Conn -> BOOLEAN]
    BY <1>14 DEF PeerLeaves, TypeOK
  <2>2. UNCHANGED <<conn, tls, upgraded, closing, rcvd, texts, pings, wake>>
    BY <1>14 DEF PeerLeaves
  <2>3. UNCHANGED <<queued, sent, epollout, full>>
    BY <1>14 DEF PeerLeaves
  <2>4. UNCHANGED <<tasks, wpc, wtask, pc, cur, evIn, evOut, reply, todo, idle>>
    BY <1>14 DEF PeerLeaves
  <2>5. /\ \A d \in Conn : sent'[d] <= Len(queued'[d])
        /\ \A w \in Worker : wpc'[w] # "idle" => wtask'[w] \in Task
    BY <2>3, <2>4 DEF TypeOK
  <2>6. /\ conn' \in [Conn -> {"new", "open", "closed"}]
        /\ tls' \in [Conn -> {"early", "accept", "done"}]
        /\ upgraded' \in [Conn -> BOOLEAN] /\ closing' \in [Conn -> BOOLEAN]
        /\ rcvd' \in [Conn -> 0..MaxInput] /\ texts' \in [Conn -> SUBSET (1..MaxInput)]
        /\ pings' \in [Conn -> Nat] /\ wake' \in BOOLEAN
    BY <2>2 DEF TypeOK
  <2>7. /\ queued' \in [Conn -> Seq(Frame)] /\ sent' \in [Conn -> Nat]
        /\ epollout' \in [Conn -> {"off", "on", "ready"}] /\ full' \in [Conn -> BOOLEAN]
    BY <2>3 DEF TypeOK
  <2>8. /\ tasks' \in Seq(Task) /\ wpc' \in [Worker -> {"idle", "run", "mod", "notify"}]
        /\ wtask' \in [Worker -> Task \cup {NoTask}]
    BY <2>4 DEF TypeOK
  <2>9. /\ pc' \in HandlerPC \cup {"wait", "ping", "sweep", "reap"}
        /\ cur' \in Conn \cup {NoConn} /\ (pc' \in HandlerPC => cur' \in Conn)
        /\ evIn' \in BOOLEAN /\ evOut' \in BOOLEAN
        /\ reply' \in {"none", "101", "Pong", "Close"} /\ (pc' = "push" => reply' # "none")
        /\ todo' \in SUBSET Conn /\ idle' \in SUBSET Conn
    BY <2>4 DEF TypeOK
  <2> QED BY <2>1, <2>5, <2>6, <2>7, <2>8, <2>9, Zenon DEF TypeOK
<1>15. ASSUME NEW c \in Conn, HandshakeRetry(c) PROVE TypeOK'
  BY <1>15, FlushTypes DEF HandshakeRetry, TypeOK, EndHandler
<1>16. ASSUME NEW c \in Conn, FirstFlush(c) PROVE TypeOK'
  BY <1>16, FlushTypes DEF FirstFlush, TypeOK, Goto
<1>17. ASSUME NEW c \in Conn, FlushReply(c) PROVE TypeOK'
  BY <1>17, FlushTypes DEF FlushReply, TypeOK, NextBuffer
<1>18. ASSUME NEW c \in Conn, FlushOut(c) PROVE TypeOK'
  <2>1. /\ sent' \in [Conn -> Nat] /\ full' \in [Conn -> BOOLEAN]
        /\ epollout' \in [Conn -> {"off", "on", "ready"}]
        /\ sent'[c] <= Len(queued[c]) /\ \A d \in Conn \ {c} : sent'[d] = sent[d]
    BY <1>18, FlushTypes DEF FlushOut
  <2>2. \A d \in Conn : sent'[d] <= Len(queued[d])
    BY <2>1 DEF TypeOK
  <2>3. (pc' = "drained" /\ UNCHANGED ioVars) \/ EndHandler
    BY <1>18 DEF FlushOut, Goto
  <2>4. /\ pc' \in HandlerPC \cup {"wait", "ping", "sweep", "reap"} /\ pc' # "push"
        /\ cur' \in Conn \cup {NoConn} /\ (pc' \in HandlerPC => cur' \in Conn)
        /\ evIn' \in BOOLEAN /\ evOut' \in BOOLEAN /\ reply' \in {"none", "101", "Pong", "Close"}
        /\ todo' = todo /\ idle' = idle
    BY <1>18, <2>3 DEF FlushOut, EndHandler, TypeOK
  <2> QED BY <1>18, <2>1, <2>2, <2>4 DEF FlushOut, TypeOK
<1>19. ASSUME NEW c \in Conn, Sweep(c) PROVE TypeOK'
  BY <1>19, FlushTypes DEF Sweep, TypeOK
<1>20. ASSUME NEW c \in Conn, PushReply(c) PROVE TypeOK'
  <2>1. reply \in FrameKind /\ rcvd[c] \in 0..MaxInput
    BY <1>20 DEF PushReply, TypeOK, FrameKind
  <2> QED BY <1>20, <2>1, PushTypes DEF PushReply, TypeOK, updateInterest, Goto
<1>21. ASSUME NEW c \in Conn, TimerPing(c) PROVE TypeOK'
  <2>1. "Ping" \in FrameKind /\ 0 \in 0..MaxInput
    BY DEF FrameKind
  <2>2. queued' \in [Conn -> Seq(Frame)] /\ \A d \in Conn : sent[d] <= Len(queued'[d])
    BY <1>21, <2>1, PushTypes DEF TimerPing
  <2>3. pings' \in [Conn -> Nat]
    BY <1>21 DEF TimerPing, TypeOK
  <2>4. epollout' \in [Conn -> {"off", "on", "ready"}]
    BY <1>21 DEF TimerPing, TypeOK, updateInterest
  <2> QED BY <1>21, <2>2, <2>3, <2>4 DEF TimerPing, TypeOK
<1>22. ASSUME NEW c \in Conn, NEW b \in BOOLEAN, HandshakeWants(c, b) PROVE TypeOK'
  BY <1>22 DEF HandshakeWants, TypeOK, Goto
<1>23. ASSUME NEW c \in Conn, NEW b \in BOOLEAN, ReadWants(c, b) PROVE TypeOK'
  <2>1. epollout' \in [Conn -> {"off", "on", "ready"}]
    BY <1>23, InterestTypes DEF ReadWants, TypeOK
  <2> QED BY <1>23, <2>1 DEF ReadWants, TypeOK, Goto
<1>24. ASSUME NEW c \in Conn, NEW b \in BOOLEAN, EpollConn(c, b) PROVE TypeOK'
  BY <1>24 DEF EpollConn, TypeOK
<1>25. ASSUME NEW c \in Conn, NEW k \in TaskKind, RecvData(c, k) PROVE TypeOK'
  <2>1. rcvd[c] \in Nat /\ rcvd[c] < MaxInput /\ rcvd[c] + 1 \in 1..MaxInput
    BY <1>25 DEF RecvData, Reading, TypeOK
  <2>2. [conn |-> c, kind |-> k, n |-> rcvd[c] + 1] \in Task
    BY <2>1 DEF Task
  <2>3. tasks' \in Seq(Task)
    BY <1>25, <2>2 DEF RecvData, TypeOK
  <2>4. /\ texts' \in [Conn -> SUBSET (1..MaxInput)]
        /\ rcvd' \in [Conn -> 0..MaxInput]
    <3>1. texts[c] \cup {n \in {rcvd[c] + 1} : k = "Text"} \in SUBSET (1..MaxInput)
      BY <2>1 DEF TypeOK
    <3>2. texts' \in [Conn -> SUBSET (1..MaxInput)]
      BY <1>25, <3>1 DEF RecvData, TypeOK
    <3>3. rcvd[c] + 1 \in 0..MaxInput
      BY <2>1
    <3>4. rcvd' \in [Conn -> 0..MaxInput]
      BY <1>25, <3>3 DEF RecvData, TypeOK
    <3> QED BY <3>2, <3>4
  <2> QED BY <1>25, <2>3, <2>4 DEF RecvData, TypeOK, Reading, NextBuffer
<1>26. ASSUME TimerSweep PROVE TypeOK'
  BY <1>26 DEF TimerSweep, TypeOK, Flushable
<1>27. ASSUME SweepEnd PROVE TypeOK'
  BY <1>27 DEF SweepEnd, TypeOK
<1>28. ASSUME WakeEvent PROVE TypeOK'
  BY <1>28 DEF WakeEvent, TypeOK, Flushable
<1>29. ASSUME TimerTick PROVE TypeOK'
  BY <1>29 DEF TimerTick, TypeOK, Flushable
<1>30. ASSUME NEW w \in Worker, Take(w) PROVE TypeOK'
  <2>1. Head(tasks) \in Task /\ Tail(tasks) \in Seq(Task)
    BY <1>30 DEF Take, TypeOK
  <2>2. tasks' \in Seq(Task) /\ wpc' \in [Worker -> {"idle", "run", "mod", "notify"}]
    BY <1>30, <2>1 DEF Take, TypeOK
  <2>3. wtask' \in [Worker -> Task \cup {NoTask}]
    BY <1>30, <2>1 DEF Take, TypeOK
  <2>4. \A v \in Worker : wpc'[v] # "idle" => wtask'[v] \in Task
    BY <1>30, <2>1 DEF Take, TypeOK
  <2> QED BY <1>30, <2>2, <2>3, <2>4 DEF Take, TypeOK
<1>31. ASSUME NEW w \in Worker, Drop(w) PROVE TypeOK'
  BY <1>31 DEF Drop, TypeOK, TaskEnds, NoTask
<1>32. ASSUME NEW w \in Worker, WorkerMod(w) PROVE TypeOK'
  <2>1. epollout' \in [Conn -> {"off", "on", "ready"}]
    BY <1>32, InterestTypes DEF WorkerMod, TypeOK
  <2>2. wpc' \in [Worker -> {"idle", "run", "mod", "notify"}]
    BY <1>32 DEF WorkerMod, TypeOK
  <2>3. \A v \in Worker : wpc'[v] # "idle" => wtask[v] \in Task
    BY <1>32 DEF WorkerMod, TypeOK
  <2> QED BY <1>32, <2>1, <2>2, <2>3 DEF WorkerMod, TypeOK
<1>33. ASSUME NEW w \in Worker, Notify(w) PROVE TypeOK'
  BY <1>33 DEF Notify, TypeOK, TaskEnds, NoTask
<1>34. ASSUME NEW w \in Worker, PushData(w) PROVE TypeOK'
  <2> DEFINE c == wtask[w].conn
             f == [kind |-> "Data", n |-> wtask[w].n]
  <2>1. wtask[w] \in Task
    BY <1>34 DEF PushData, TypeOK
  <2>2. c \in Conn /\ f \in Frame
    BY <2>1 DEF Task, Frame, FrameKind
  <2>3. /\ queued \in [Conn -> Seq(Frame)] /\ sent \in [Conn -> Nat]
        /\ \A d \in Conn : sent[d] <= Len(queued[d]) /\ Len(queued[d]) \in Nat
    BY DEF TypeOK
  <2>4. \/ queued' = [queued EXCEPT ![c] = Append(@, f)]
        \/ queued' = [queued EXCEPT ![c] = Append(Append(@, f), f)]
    BY <1>34 DEF PushData
  <2>5. Append(queued[c], f) \in Seq(Frame) /\ Append(Append(queued[c], f), f) \in Seq(Frame)
        /\ Len(Append(queued[c], f)) = Len(queued[c]) + 1
        /\ Len(Append(Append(queued[c], f), f)) = Len(queued[c]) + 2
    BY <2>2, <2>3
  <2> HIDE DEF c, f
  <2>6. PICK q \in Seq(Frame) : queued' = [queued EXCEPT ![c] = q] /\ Len(q) >= Len(queued[c])
    <3>1. CASE queued' = [queued EXCEPT ![c] = Append(@, f)]
      <4> Append(queued[c], f) \in Seq(Frame)
        BY <2>5
      <4> WITNESS Append(queued[c], f) \in Seq(Frame)
      <4> QED BY <2>2, <2>3, <2>5, <3>1
    <3>2. CASE queued' = [queued EXCEPT ![c] = Append(Append(@, f), f)]
      <4> Append(Append(queued[c], f), f) \in Seq(Frame)
        BY <2>5
      <4> WITNESS Append(Append(queued[c], f), f) \in Seq(Frame)
      <4> QED BY <2>2, <2>3, <2>5, <3>2
    <3> QED BY <2>4, <3>1, <3>2
  <2>11. queued' \in [Conn -> Seq(Frame)] /\ \A d \in Conn : sent[d] <= Len(queued'[d])
    BY <2>2, <2>3, <2>6
  <2>7. wpc' \in [Worker -> {"idle", "run", "mod", "notify"}] /\ wpc'[w] = "mod"
        /\ \A v \in Worker \ {w} : wpc'[v] = wpc[v]
    BY <1>34 DEF PushData, TypeOK
  <2>8. \A v \in Worker : wpc'[v] # "idle" => wtask[v] \in Task
    BY <2>1, <2>7 DEF TypeOK
  <2>9. /\ UNCHANGED <<conn, tls, upgraded, closing, sent, epollout, full, gone, rcvd, texts, pings>>
        /\ UNCHANGED <<wake, tasks, wtask, pc, cur, evIn, evOut, reply, todo, idle>>
    BY <1>34 DEF PushData
  <2>10. wpc' \in [Worker -> {"idle", "run", "mod", "notify"}]
    BY <2>7
  <2> QED BY <2>11, <2>8, <2>9, <2>10 DEF TypeOK
<1>35. CASE UNCHANGED vars
  BY <1>35 DEF vars, TypeOK
<1>36. ASSUME NEW c \in Conn, Handler(c) PROVE TypeOK'
  BY <1>36, <1>3, <1>4, <1>5, <1>6, <1>7, <1>8, <1>9, <1>10, <1>11, <1>12, <1>15, <1>16, <1>17,
     <1>18, <1>19, <1>20, <1>21, <1>22, <1>23, <1>25 DEF Handler
<1>37. ASSUME NEW w \in Worker, WorkerStep(w) PROVE TypeOK'
  BY <1>37, <1>30, <1>31, <1>32, <1>33, <1>34 DEF WorkerStep
<1>38. ASSUME EpollWait PROVE TypeOK'
  BY <1>38, <1>1, <1>2, <1>24, <1>28, <1>29 DEF EpollWait
<1> QED
  BY <1>13, <1>14, <1>26, <1>27, <1>35, <1>36, <1>37, <1>38 DEF Next, IOStep

(* TypeOK is an invariant.  It also holds what keeps the IO thread's index   *)
(* into the queue within it: flushOutbound never pops more than was pushed.  *)
THEOREM TypeCorrect == Spec => []TypeOK
<1>1. ASSUME Init PROVE TypeOK
  <2>1. queued \in [Conn -> Seq(Frame)] /\ sent \in [Conn -> Nat]
        /\ \A c \in Conn : sent[c] <= Len(queued[c])
    BY <1>1 DEF Init
  <2>2. tls \in [Conn -> {"early", "accept", "done"}] /\ rcvd \in [Conn -> 0..MaxInput]
    BY <1>1, SendPathAssumption DEF SendPathAssumption, Init
  <2>3. /\ wtask \in [Worker -> Task \cup {NoTask}] /\ tasks \in Seq(Task)
        /\ wpc \in [Worker -> {"idle", "run", "mod", "notify"}]
        /\ \A w \in Worker : wpc[w] # "idle" => wtask[w] \in Task
    BY <1>1 DEF Init
  <2>4. pc = "wait" /\ pc \notin HandlerPC
    BY <1>1 DEF Init, HandlerPC
  <2> QED BY <1>1, <2>1, <2>2, <2>3, <2>4 DEF Init, TypeOK
<1>2. TypeOK /\ [Next]_vars => TypeOK'
  BY TypeStep
<1> QED BY <1>1, <1>2, PTL DEF Spec

(***************************************************************************)
(* Nothing but control frames after a Close frame.  DataNeverFollowsClose  *)
(* is not inductive: that a worker pushes no data on a queue that holds a  *)
(* Close frame rests on `closing`, which must be set while the frame is in *)
(* the queue and already when the IO thread is about to push it.           *)
(***************************************************************************)
CloseInv ==
  /\ \A c \in Conn : \A i \in 1..Len(queued[c]) : queued[c][i].kind = "Close" => closing[c]
  /\ pc = "push" /\ reply = "Close" => closing[cur]
  /\ DataNeverFollowsClose

(* A step that pushes nothing. *)
LEMMA CloseKept ==
  ASSUME TypeOK, CloseInv, UNCHANGED queued,
         \A c \in Conn : closing[c] => closing'[c],
         pc' = "push" /\ reply' = "Close" => closing'[cur']
  PROVE  CloseInv'
BY DEF CloseInv, DataNeverFollowsClose

(* A push by the IO thread: a control frame, and a Close frame only if closing. *)
LEMMA ControlPushed ==
  ASSUME TypeOK, CloseInv, NEW c \in Conn, NEW k \in FrameKind, NEW n \in 0..MaxInput,
         Pushed(c, k, n), UNCHANGED closing, k # "Data", k = "Close" => closing[c],
         pc' # "push"
  PROVE  CloseInv'
<1> DEFINE f == [kind |-> k, n |-> n]
<1>1. queued \in [Conn -> Seq(Frame)] /\ f.kind = k
  BY DEF TypeOK
<1>2. \A d \in Conn \ {c} : queued'[d] = queued[d]
  BY <1>1 DEF Pushed
<1>3. /\ queued'[c] = Append(queued[c], f)
      /\ queued[c] \in Seq(Frame) /\ Len(queued[c]) \in Nat
  BY <1>1 DEF Pushed
<1>4. /\ Len(queued'[c]) = Len(queued[c]) + 1
      /\ \A i \in 1..Len(queued[c]) : queued'[c][i] = queued[c][i]
      /\ queued'[c][Len(queued[c]) + 1] = f
  BY <1>3
<1>5. \A i \in 1..Len(queued'[c]) : i \in 1..Len(queued[c]) \/ i = Len(queued[c]) + 1
  BY <1>3, <1>4
<1> HIDE DEF f
<1>6. ASSUME NEW d \in Conn, NEW i \in 1..Len(queued'[d]), queued'[d][i].kind = "Close"
      PROVE  closing'[d]
  BY <1>1, <1>2, <1>4, <1>5, <1>6 DEF CloseInv
<1>7. ASSUME NEW d \in Conn, NEW i \in 1..Len(queued'[d]), NEW j \in 1..Len(queued'[d]),
             i < j, queued'[d][i].kind = "Close"
      PROVE  queued'[d][j].kind # "Data"
  <2>1. CASE d # c
    BY <1>2, <1>7, <2>1 DEF CloseInv, DataNeverFollowsClose
  <2>2. CASE d = c /\ j = Len(queued[c]) + 1
    BY <1>1, <1>4, <2>2
  <2>3. CASE d = c /\ j # Len(queued[c]) + 1
    <3>1. i \in 1..Len(queued[c]) /\ j \in 1..Len(queued[c])
      BY <1>3, <1>5, <1>7, <2>3
    <3> QED BY <1>4, <1>7, <2>3, <3>1 DEF CloseInv, DataNeverFollowsClose
  <2> QED BY <2>1, <2>2, <2>3
<1> QED BY <1>6, <1>7 DEF CloseInv, DataNeverFollowsClose

(* A worker's push: the connection is not closing, so its queue holds no    *)
(* Close frame for the data to follow.                                      *)
LEMMA DataPushed ==
  ASSUME TypeOK, CloseInv, NEW w \in Worker, PushData(w)
  PROVE  CloseInv'
<1> DEFINE c == wtask[w].conn
           f == [kind |-> "Data", n |-> wtask[w].n]
<1>1. /\ wtask[w].conn \in Conn /\ queued \in [Conn -> Seq(Frame)]
      /\ queued[c] \in Seq(Frame) /\ Len(queued[c]) \in Nat
  BY DEF PushData, TypeOK, Task
<1>2. /\ ~ closing[c] /\ closing' = closing /\ pc' = pc /\ reply' = reply /\ cur' = cur
  BY DEF PushData, connVars, ioVars
<1>3. \A d \in Conn \ {c} : queued'[d] = queued[d]
  BY <1>1 DEF PushData
<1>4. queued'[c] = Append(queued[c], f) \/ queued'[c] = Append(Append(queued[c], f), f)
  BY <1>1 DEF PushData
<1>5. \A i \in 1..Len(queued'[c]) : queued'[c][i] = f \/ (i \in 1..Len(queued[c]) /\ queued'[c][i] = queued[c][i])
  <2> HIDE DEF f
  <2>1. CASE queued'[c] = Append(queued[c], f)
    BY <1>1, <2>1
  <2>2. CASE queued'[c] = Append(Append(queued[c], f), f)
    BY <1>1, <2>2
  <2> QED BY <1>4, <2>1, <2>2
<1>6. f.kind = "Data"
  OBVIOUS
<1> HIDE DEF f, c
<1>7. ASSUME NEW i \in 1..Len(queued'[c]) PROVE queued'[c][i].kind # "Close"
  BY <1>1, <1>2, <1>5, <1>6 DEF CloseInv, c
<1>8. \A d \in Conn : \A i \in 1..Len(queued'[d]) : queued'[d][i].kind = "Close" => closing'[d]
  BY <1>2, <1>3, <1>7 DEF CloseInv
<1>9. DataNeverFollowsClose'
  BY <1>3, <1>7 DEF CloseInv, DataNeverFollowsClose
<1> QED BY <1>2, <1>8, <1>9 DEF CloseInv

(* Every step keeps the Close frame last among the data.                    *)
LEMMA CloseStep ==
  ASSUME TypeOK, CloseInv, [Next]_vars
  PROVE  CloseInv'
<1> USE DEF connVars, peerVars, poolVars, ioVars
<1>0. closing \in [Conn -> BOOLEAN]
  BY DEF TypeOK
<1>1. ASSUME NEW c \in Conn, Accept(c) PROVE CloseInv'
  BY <1>1, CloseKept DEF Accept, CloseInv
<1>2. ASSUME NEW c \in Conn, EpollHangUp(c) PROVE CloseInv'
  BY <1>0, <1>2, CloseKept DEF EpollHangUp, closeConnection, CloseInv
<1>3. ASSUME NEW c \in Conn, EarlyFinish(c) PROVE CloseInv'
  BY <1>3, CloseKept DEF EarlyFinish, Goto
<1>4. ASSUME NEW c \in Conn, HandshakeDone(c) PROVE CloseInv'
  BY <1>4, CloseKept DEF HandshakeDone, Goto
<1>5. ASSUME NEW c \in Conn, Fail(c) PROVE CloseInv'
  BY <1>0, <1>5, CloseKept DEF Fail, closeConnection, EndHandler
<1>6. ASSUME NEW c \in Conn, RecvUpgrade(c) PROVE CloseInv'
  BY <1>6, CloseKept DEF RecvUpgrade, Answer
<1>7. ASSUME NEW c \in Conn, RecvPing(c) PROVE CloseInv'
  BY <1>7, CloseKept DEF RecvPing, Answer
<1>8. ASSUME NEW c \in Conn, RecvPong(c) PROVE CloseInv'
  BY <1>8, CloseKept DEF RecvPong, NextBuffer
<1>9. ASSUME NEW c \in Conn, RecvClose(c) PROVE CloseInv'
  BY <1>0, <1>9, CloseKept DEF RecvClose, Answer, Reading
<1>10. ASSUME NEW c \in Conn, SkipOut(c) PROVE CloseInv'
  BY <1>10, CloseKept DEF SkipOut, EndHandler
<1>11. ASSUME NEW c \in Conn, CloseDrained(c) PROVE CloseInv'
  BY <1>0, <1>11, CloseKept DEF CloseDrained, closeConnection, EndHandler
<1>12. ASSUME NEW c \in Conn, Reap(c) PROVE CloseInv'
  BY <1>0, <1>12, CloseKept DEF Reap, closeConnection
<1>13. ASSUME NEW c \in Conn, PeerReads(c) PROVE CloseInv'
  BY <1>13, CloseKept DEF PeerReads, CloseInv
<1>14. ASSUME NEW c \in Conn, PeerLeaves(c) PROVE CloseInv'
  BY <1>14, CloseKept DEF PeerLeaves, CloseInv
<1>15. ASSUME NEW c \in Conn, HandshakeRetry(c) PROVE CloseInv'
  BY <1>15, CloseKept DEF HandshakeRetry, EndHandler
<1>16. ASSUME NEW c \in Conn, FirstFlush(c) PROVE CloseInv'
  BY <1>16, CloseKept DEF FirstFlush, Goto
<1>17. ASSUME NEW c \in Conn, FlushReply(c) PROVE CloseInv'
  BY <1>17, CloseKept DEF FlushReply, NextBuffer
<1>18. ASSUME NEW c \in Conn, FlushOut(c) PROVE CloseInv'
  BY <1>18, CloseKept DEF FlushOut, Goto, EndHandler
<1>19. ASSUME NEW c \in Conn, Sweep(c) PROVE CloseInv'
  BY <1>19, CloseKept DEF Sweep
<1>20. ASSUME NEW c \in Conn, PushReply(c) PROVE CloseInv'
  <2>1. reply \in FrameKind /\ reply # "Data" /\ rcvd[c] \in 0..MaxInput
    BY <1>20 DEF PushReply, TypeOK, FrameKind
  <2>2. /\ Pushed(c, reply, rcvd[c]) /\ UNCHANGED closing /\ pc' # "push"
        /\ reply = "Close" => closing[c]
    BY <1>20 DEF PushReply, CloseInv, Goto
  <2> QED BY <2>1, <2>2, ControlPushed
<1>21. ASSUME NEW c \in Conn, TimerPing(c) PROVE CloseInv'
  <2>1. "Ping" \in FrameKind /\ 0 \in 0..MaxInput
    BY SendPathAssumption DEF FrameKind, SendPathAssumption
  <2>2. Pushed(c, "Ping", 0) /\ UNCHANGED closing /\ pc' # "push"
    BY <1>21 DEF TimerPing
  <2> QED BY <2>1, <2>2, ControlPushed
<1>22. ASSUME NEW c \in Conn, NEW b \in BOOLEAN, HandshakeWants(c, b) PROVE CloseInv'
  BY <1>22, CloseKept DEF HandshakeWants, Goto
<1>23. ASSUME NEW c \in Conn, NEW b \in BOOLEAN, ReadWants(c, b) PROVE CloseInv'
  BY <1>23, CloseKept DEF ReadWants, Goto
<1>24. ASSUME NEW c \in Conn, NEW b \in BOOLEAN, EpollConn(c, b) PROVE CloseInv'
  <2>1. pc' # "push"
    BY <1>24 DEF EpollConn, TypeOK
  <2> QED BY <1>24, <2>1, CloseKept DEF EpollConn
<1>25. ASSUME NEW c \in Conn, NEW k \in TaskKind, RecvData(c, k) PROVE CloseInv'
  BY <1>25, CloseKept DEF RecvData, NextBuffer
<1>26. ASSUME TimerSweep PROVE CloseInv'
  BY <1>26, CloseKept DEF TimerSweep
<1>27. ASSUME SweepEnd PROVE CloseInv'
  BY <1>27, CloseKept DEF SweepEnd
<1>28. ASSUME WakeEvent PROVE CloseInv'
  BY <1>28, CloseKept DEF WakeEvent
<1>29. ASSUME TimerTick PROVE CloseInv'
  BY <1>29, CloseKept DEF TimerTick
<1>30. ASSUME NEW w \in Worker, Take(w) PROVE CloseInv'
  BY <1>30, CloseKept DEF Take, CloseInv
<1>31. ASSUME NEW w \in Worker, Drop(w) PROVE CloseInv'
  BY <1>31, CloseKept DEF Drop, CloseInv
<1>32. ASSUME NEW w \in Worker, WorkerMod(w) PROVE CloseInv'
  BY <1>32, CloseKept DEF WorkerMod, CloseInv
<1>33. ASSUME NEW w \in Worker, Notify(w) PROVE CloseInv'
  BY <1>33, CloseKept DEF Notify, CloseInv
<1>34. ASSUME NEW w \in Worker, PushData(w) PROVE CloseInv'
  BY <1>34, DataPushed
<1>35. CASE UNCHANGED vars
  BY <1>35, CloseKept DEF vars, CloseInv
<1>36. ASSUME NEW c \in Conn, Handler(c) PROVE CloseInv'
  BY <1>36, <1>3, <1>4, <1>5, <1>6, <1>7, <1>8, <1>9, <1>10, <1>11, <1>12, <1>15, <1>16, <1>17,
     <1>18, <1>19, <1>20, <1>21, <1>22, <1>23, <1>25 DEF Handler
<1>37. ASSUME NEW w \in Worker, WorkerStep(w) PROVE CloseInv'
  BY <1>37, <1>30, <1>31, <1>32, <1>33, <1>34 DEF WorkerStep
<1>38. ASSUME EpollWait PROVE CloseInv'
  BY <1>38, <1>1, <1>2, <1>24, <1>28, <1>29 DEF EpollWait
<1> QED
  BY <1>13, <1>14, <1>26, <1>27, <1>35, <1>36, <1>37, <1>38 DEF Next, IOStep

(* Whatever the number of connections, workers and frames, no echo and no   *)
(* file reply is queued behind a Close frame.                               *)
THEOREM CloseCorrect == Spec => []DataNeverFollowsClose
<1>1. ASSUME Init PROVE CloseInv
  <2>1. \A c \in Conn : 1..Len(queued[c]) = {}
    BY <1>1 DEF Init
  <2>2. pc # "push"
    BY <1>1 DEF Init
  <2> QED BY <2>1, <2>2 DEF CloseInv, DataNeverFollowsClose
<1>2. TypeOK /\ CloseInv /\ [Next]_vars => CloseInv'
  BY CloseStep
<1>3. CloseInv => DataNeverFollowsClose
  BY DEF CloseInv
<1> QED BY <1>1, <1>2, <1>3, TypeCorrect, PTL DEF Spec

(***************************************************************************)
(* No lost wake-up.  Between two epoll_waits the signal of a connection may *)
(* be spent; what stands in for it is the place of the IO thread, which    *)
(* flushes the connection before it waits again.                           *)
(***************************************************************************)
Serving(c) ==
  \/ cur = c /\ pc \in {"first", "push", "flush"}
  \/ cur = c /\ pc \in {"read", "out"} /\ evOut
  \/ c \in todo /\ pc = "sweep"

HandlerInv ==
  /\ pc \in HandlerPC => conn[cur] = "open"
  /\ pc = "early" => tls[cur] = "early"
  /\ pc = "accept" => tls[cur] = "accept"
  /\ pc = "retry" => tls[cur] # "done"
  /\ pc \in {"push", "flush"} => tls[cur] # "accept"
  /\ pc \in {"first", "read", "out", "drained"} => tls[cur] = "done"
  /\ \A c \in Conn : conn[c] = "new" => tls[c] # "done"
  /\ \A c \in Conn : epollout[c] = "ready" => ~ full[c]

Watched(c) ==
  conn[c] = "open" /\ tls[c] = "done" /\ Pending(c) => Signalled(c) \/ Serving(c)

WakeInv == HandlerInv /\ \A c \in Conn : Watched(c)

(* What a flush leaves behind: nothing, an EPOLLOUT that awaits the peer, a  *)
(* dead peer, or an unfinished handshake.                                   *)
LEMMA FlushSignals ==
  ASSUME TypeOK, HandlerInv, NEW c \in Conn, flushOutbound(c)
  PROVE  /\ \/ sent'[c] = Len(queued[c])
            \/ epollout'[c] = "on" /\ full'[c]
            \/ gone[c]
            \/ tls[c] # "done"
         /\ \A d \in Conn \ {c} : sent'[d] = sent[d] /\ epollout'[d] = epollout[d] /\ full'[d] = full[d]
         /\ \A d \in Conn : epollout'[d] = "ready" => ~ full'[d]
<1>1. /\ sent \in [Conn -> Nat] /\ epollout \in [Conn -> {"off", "on", "ready"}]
      /\ full \in [Conn -> BOOLEAN] /\ sent[c] \in Nat /\ Len(queued[c]) \in Nat
  BY DEF TypeOK
<1>2. \A d \in Conn : epollout[d] = "ready" => ~ full[d]
  BY DEF HandlerInv
<1> QED BY <1>1, <1>2 DEF flushOutbound, updateInterest

(* The IO thread handles events of open connections only, in the handshake  *)
(* phase its place says.                                                    *)
LEMMA HandlerStep ==
  ASSUME TypeOK, HandlerInv, [Next]_vars
  PROVE  HandlerInv'
<1> USE DEF connVars, peerVars, poolVars, ioVars, HandlerPC
<1>1. ASSUME NEW c \in Conn, Accept(c) PROVE HandlerInv'
  BY <1>1 DEF Accept, HandlerInv, TypeOK
<1>2. ASSUME NEW c \in Conn, EpollHangUp(c) PROVE HandlerInv'
  BY <1>2 DEF EpollHangUp, closeConnection, HandlerInv, TypeOK
<1>3. ASSUME NEW c \in Conn, EarlyFinish(c) PROVE HandlerInv'
  BY <1>3 DEF EarlyFinish, Goto, HandlerInv, TypeOK
<1>4. ASSUME NEW c \in Conn, HandshakeDone(c) PROVE HandlerInv'
  BY <1>4 DEF HandshakeDone, Goto, updateInterest, HandlerInv, TypeOK
<1>5. ASSUME NEW c \in Conn, Fail(c) PROVE HandlerInv'
  BY <1>5 DEF Fail, closeConnection, EndHandler, HandlerInv, TypeOK
<1>6. ASSUME NEW c \in Conn, RecvUpgrade(c) PROVE HandlerInv'
  BY <1>6 DEF RecvUpgrade, Reading, Received, Answer, HandlerInv, TypeOK
<1>7. ASSUME NEW c \in Conn, RecvPing(c) PROVE HandlerInv'
  BY <1>7 DEF RecvPing, Reading, Received, Answer, HandlerInv, TypeOK
<1>8. ASSUME NEW c \in Conn, RecvPong(c) PROVE HandlerInv'
  BY <1>8 DEF RecvPong, Reading, Received, NextBuffer, HandlerInv, TypeOK
<1>9. ASSUME NEW c \in Conn, RecvClose(c) PROVE HandlerInv'
  BY <1>9 DEF RecvClose, Reading, Received, Answer, HandlerInv, TypeOK
<1>10. ASSUME NEW c \in Conn, SkipOut(c) PROVE HandlerInv'
  BY <1>10 DEF SkipOut, EndHandler, HandlerInv, TypeOK
<1>11. ASSUME NEW c \in Conn, CloseDrained(c) PROVE HandlerInv'
  BY <1>11 DEF CloseDrained, closeConnection, EndHandler, HandlerInv, TypeOK
<1>12. ASSUME NEW c \in Conn, Reap(c) PROVE HandlerInv'
  BY <1>12 DEF Reap, closeConnection, HandlerInv, TypeOK
<1>13. ASSUME NEW c \in Conn, PeerReads(c) PROVE HandlerInv'
  BY <1>13 DEF PeerReads, HandlerInv, TypeOK
<1>14. ASSUME NEW c \in Conn, PeerLeaves(c) PROVE HandlerInv'
  BY <1>14 DEF PeerLeaves, HandlerInv, TypeOK
<1>15. ASSUME NEW c \in Conn, HandshakeRetry(c) PROVE HandlerInv'
  BY <1>15, FlushSignals DEF HandshakeRetry, EndHandler, HandlerInv, TypeOK
<1>16. ASSUME NEW c \in Conn, FirstFlush(c) PROVE HandlerInv'
  BY <1>16, FlushSignals DEF FirstFlush, Goto, HandlerInv, TypeOK
<1>17. ASSUME NEW c \in Conn, FlushReply(c) PROVE HandlerInv'
  BY <1>17, FlushSignals DEF FlushReply, NextBuffer, HandlerInv, TypeOK
<1>18. ASSUME NEW c \in Conn, FlushOut(c) PROVE HandlerInv'
  BY <1>18, FlushSignals DEF FlushOut, Goto, EndHandler, HandlerInv, TypeOK
<1>19. ASSUME NEW c \in Conn, Sweep(c) PROVE HandlerInv'
  BY <1>19, FlushSignals DEF Sweep, HandlerInv, TypeOK
<1>20. ASSUME NEW c \in Conn, PushReply(c) PROVE HandlerInv'
  BY <1>20 DEF PushReply, updateInterest, Goto, HandlerInv, TypeOK
<1>21. ASSUME NEW c \in Conn, TimerPing(c) PROVE HandlerInv'
  BY <1>21 DEF TimerPing, updateInterest, HandlerInv, TypeOK
<1>22. ASSUME NEW c \in Conn, NEW b \in BOOLEAN, HandshakeWants(c, b) PROVE HandlerInv'
  BY <1>22 DEF HandshakeWants, Goto, HandlerInv, TypeOK
<1>23. ASSUME NEW c \in Conn, NEW b \in BOOLEAN, ReadWants(c, b) PROVE HandlerInv'
  BY <1>23 DEF ReadWants, Goto, updateInterest, HandlerInv, TypeOK
<1>24. ASSUME NEW c \in Conn, NEW b \in BOOLEAN, EpollConn(c, b) PROVE HandlerInv'
  BY <1>24 DEF EpollConn, HandlerInv, TypeOK
<1>25. ASSUME NEW c \in Conn, NEW k \in TaskKind, RecvData(c, k) PROVE HandlerInv'
  BY <1>25 DEF RecvData, Reading, NextBuffer, HandlerInv, TypeOK
<1>26. ASSUME TimerSweep PROVE HandlerInv'
  BY <1>26 DEF TimerSweep, HandlerInv, TypeOK
<1>27. ASSUME SweepEnd PROVE HandlerInv'
  BY <1>27 DEF SweepEnd, HandlerInv, TypeOK
<1>28. ASSUME WakeEvent PROVE HandlerInv'
  BY <1>28 DEF WakeEvent, Flushable, HandlerInv, TypeOK
<1>29. ASSUME TimerTick PROVE HandlerInv'
  BY <1>29 DEF TimerTick, HandlerInv, TypeOK
<1>30. ASSUME NEW w \in Worker, Take(w) PROVE HandlerInv'
  BY <1>30 DEF Take, HandlerInv, TypeOK
<1>31. ASSUME NEW w \in Worker, Drop(w) PROVE HandlerInv'
  BY <1>31 DEF Drop, TaskEnds, HandlerInv, TypeOK
<1>32. ASSUME NEW w \in Worker, WorkerMod(w) PROVE HandlerInv'
  BY <1>32 DEF WorkerMod, updateInterest, HandlerInv, TypeOK
<1>33. ASSUME NEW w \in Worker, Notify(w) PROVE HandlerInv'
  BY <1>33 DEF Notify, TaskEnds, HandlerInv, TypeOK
<1>34. ASSUME NEW w \in Worker, PushData(w) PROVE HandlerInv'
  BY <1>34 DEF PushData, HandlerInv, TypeOK
<1>35. CASE UNCHANGED vars
  BY <1>35 DEF vars, HandlerInv, TypeOK
<1>36. ASSUME NEW c \in Conn, Handler(c) PROVE HandlerInv'
  BY <1>36, <1>3, <1>4, <1>5, <1>6, <1>7, <1>8, <1>9, <1>10, <1>11, <1>12,
     <1>15, <1>16, <1>17, <1>18, <1>19, <1>20, <1>21, <1>22, <1>23, <1>25 DEF Handler
<1>37. ASSUME NEW w \in Worker, WorkerStep(w) PROVE HandlerInv'
  BY <1>37, <1>30, <1>31, <1>32, <1>33, <1>34 DEF WorkerStep
<1>38. ASSUME EpollWait PROVE HandlerInv'
  BY <1>38, <1>1, <1>2, <1>24, <1>28, <1>29 DEF EpollWait
<1> QED
  BY <1>13, <1>14, <1>26, <1>27, <1>35, <1>36, <1>37, <1>38 DEF Next, IOStep

(* A handler's flush of c leaves every other connection as watched as it   *)
(* was, if the IO thread still serves those it served.                     *)
LEMMA OthersWatched ==
  ASSUME TypeOK, HandlerInv, NEW c \in Conn, NEW d \in Conn, d # c, Watched(d),
         flushOutbound(c) \/ UNCHANGED <<sent, epollout, full>>,
         tls'[d] = tls[d], UNCHANGED <<conn, closing, queued, gone, wake, wpc, wtask>>,
         Serving(d) => Serving(d)'
  PROVE  Watched(d)'
<1>1. sent'[d] = sent[d] /\ epollout'[d] = epollout[d] /\ full'[d] = full[d]
  BY FlushSignals
<1>2. Pending(d)' <=> Pending(d)
  BY <1>1 DEF Pending
<1>3. Signalled(d) => Signalled(d)'
  BY <1>1 DEF Signalled
<1> QED BY <1>2, <1>3 DEF Watched

(* A worker that has nothing to signal changes nothing for any connection.  *)
LEMMA WorkerWatched ==
  ASSUME TypeOK, NEW d \in Conn, NEW w \in Worker, Watched(d),
         wpc[w] \notin {"mod", "notify"},
         \A v \in Worker \ {w} : wpc'[v] = wpc[v] /\ wtask'[v] = wtask[v],
         UNCHANGED <<connVars, queued, sent, epollout, full, gone, wake>>,
         UNCHANGED <<pc, cur, evOut, todo>>
  PROVE  Watched(d)'
<1>1. UNCHANGED <<conn, tls, closing>>
  BY DEF connVars
<1>2. Serving(d)' <=> Serving(d)
  BY DEF Serving
<1>3. Pending(d)' <=> Pending(d)
  BY DEF Pending
<1>4. Signalled(d) => Signalled(d)'
  BY <1>1 DEF Signalled
<1> QED BY <1>1, <1>2, <1>3, <1>4 DEF Watched

(* The strengthened invariant is inductive. *)
LEMMA WakeStep ==
  ASSUME TypeOK, WakeInv, [Next]_vars
  PROVE  WakeInv'
<1> USE DEF connVars, peerVars, poolVars, ioVars, HandlerPC
<1>0. HandlerInv /\ HandlerInv'
  BY HandlerStep DEF WakeInv
<1>1. ASSUME NEW c \in Conn, Accept(c) PROVE WakeInv'
  BY <1>1 DEF Accept, WakeInv, HandlerInv, TypeOK, Watched, Signalled, Serving, Pending
<1>2. ASSUME NEW c \in Conn, EpollHangUp(c) PROVE WakeInv'
  BY <1>2
  DEF EpollHangUp, closeConnection, WakeInv, HandlerInv, TypeOK, Watched, Signalled, Serving,
      Pending
<1>3. ASSUME NEW c \in Conn, EarlyFinish(c) PROVE WakeInv'
  BY <1>3 DEF EarlyFinish, Goto, WakeInv, HandlerInv, TypeOK, Watched, Signalled, Serving, Pending
<1>4. ASSUME NEW c \in Conn, HandshakeDone(c) PROVE WakeInv'
  BY <1>4
  DEF HandshakeDone, Goto, updateInterest, WakeInv, HandlerInv, TypeOK, Watched, Signalled,
      Serving, Pending
<1>5. ASSUME NEW c \in Conn, Fail(c) PROVE WakeInv'
  BY <1>5
  DEF Fail, closeConnection, EndHandler, WakeInv, HandlerInv, TypeOK, Watched, Signalled, Serving,
      Pending
<1>6. ASSUME NEW c \in Conn, RecvUpgrade(c) PROVE WakeInv'
  BY <1>6
  DEF RecvUpgrade, Reading, Received, Answer, WakeInv, HandlerInv, TypeOK, Watched, Signalled,
      Serving, Pending
<1>7. ASSUME NEW c \in Conn, RecvPing(c) PROVE WakeInv'
  BY <1>7
  DEF RecvPing, Reading, Received, Answer, WakeInv, HandlerInv, TypeOK, Watched, Signalled,
      Serving, Pending
<1>8. ASSUME NEW c \in Conn, RecvPong(c) PROVE WakeInv'
  BY <1>8
  DEF RecvPong, Reading, Received, NextBuffer, WakeInv, HandlerInv, TypeOK, Watched, Signalled,
      Serving, Pending
<1>9. ASSUME NEW c \in Conn, RecvClose(c) PROVE WakeInv'
  BY <1>9
  DEF RecvClose, Reading, Received, Answer, WakeInv, HandlerInv, TypeOK, Watched, Signalled,
      Serving, Pending
<1>10. ASSUME NEW c \in Conn, SkipOut(c) PROVE WakeInv'
  BY <1>10
  DEF SkipOut, EndHandler, WakeInv, HandlerInv, TypeOK, Watched, Signalled, Serving, Pending
<1>11. ASSUME NEW c \in Conn, CloseDrained(c) PROVE WakeInv'
  BY <1>11
  DEF CloseDrained, closeConnection, EndHandler, WakeInv, HandlerInv, TypeOK, Watched, Signalled,
      Serving, Pending
<1>12. ASSUME NEW c \in Conn, Reap(c) PROVE WakeInv'
  <2> SUFFICES ASSUME NEW d \in Conn PROVE Watched(d)'
    BY <1>0 DEF WakeInv
  <2>1. /\ conn' = [conn EXCEPT ![c] = "closed"] /\ closing' = [closing EXCEPT ![c] = TRUE]
        /\ epollout' = [epollout EXCEPT ![c] = "off"] /\ pc = "reap"
        /\ UNCHANGED <<tls, queued, sent, full, gone, wake, wpc, wtask>>
    BY <1>12 DEF Reap, closeConnection
  <2>2. CASE d = c
    BY <2>1, <2>2 DEF Watched, TypeOK
  <2>3. CASE d # c
    <3>1. conn'[d] = conn[d] /\ closing'[d] = closing[d] /\ epollout'[d] = epollout[d]
      BY <2>1, <2>3 DEF TypeOK
    <3>2. Signalled(d) => Signalled(d)'
      BY <2>1, <3>1 DEF Signalled
    <3>3. ~ Serving(d)
      BY <2>1 DEF Serving
    <3>4. Watched(d)
      BY DEF WakeInv
    <3> QED BY <2>1, <3>1, <3>2, <3>3, <3>4 DEF Watched, Pending
  <2> QED BY <2>2, <2>3
<1>13. ASSUME NEW c \in Conn, PeerReads(c) PROVE WakeInv'
  BY <1>13 DEF PeerReads, WakeInv, HandlerInv, TypeOK, Watched, Signalled, Serving, Pending
<1>14. ASSUME NEW c \in Conn, PeerLeaves(c) PROVE WakeInv'
  BY <1>14 DEF PeerLeaves, WakeInv, HandlerInv, TypeOK, Watched, Signalled, Serving, Pending
<1>15. ASSUME NEW c \in Conn, HandshakeRetry(c) PROVE WakeInv'
  <2>1. ASSUME NEW d \in Conn, d # c PROVE Watched(d)'
    <3>1. flushOutbound(c) \/ UNCHANGED <<sent, epollout, full>>
      BY <1>15 DEF HandshakeRetry
    <3>2. tls'[d] = tls[d] /\ UNCHANGED <<conn, closing, queued, gone, wake, wpc, wtask>>
      BY <1>15, <2>1 DEF HandshakeRetry
    <3>3. Serving(d) => Serving(d)'
      BY <1>15, <2>1 DEF HandshakeRetry, Serving
    <3> QED BY <1>0, <2>1, <3>1, <3>2, <3>3, OthersWatched DEF WakeInv
  <2>2. Watched(c)'
    BY <1>0, <1>15, FlushSignals
    DEF HandshakeRetry, EndHandler, WakeInv, HandlerInv, TypeOK, Watched, Signalled, Serving,
        Pending
  <2> QED BY <1>0, <2>1, <2>2 DEF WakeInv
<1>16. ASSUME NEW c \in Conn, FirstFlush(c) PROVE WakeInv'
  <2>1. ASSUME NEW d \in Conn, d # c PROVE Watched(d)'
    <3>1. flushOutbound(c) \/ UNCHANGED <<sent, epollout, full>>
      BY <1>16 DEF FirstFlush
    <3>2. tls'[d] = tls[d] /\ UNCHANGED <<conn, closing, queued, gone, wake, wpc, wtask>>
      BY <1>16, <2>1 DEF FirstFlush
    <3>3. Serving(d) => Serving(d)'
      BY <1>16, <2>1 DEF FirstFlush, Serving
    <3> QED BY <1>0, <2>1, <3>1, <3>2, <3>3, OthersWatched DEF WakeInv
  <2>2. Watched(c)'
    BY <1>0, <1>16, FlushSignals
    DEF FirstFlush, Goto, WakeInv, HandlerInv, TypeOK, Watched, Signalled, Serving, Pending
  <2> QED BY <1>0, <2>1, <2>2 DEF WakeInv
<1>17. ASSUME NEW c \in Conn, FlushReply(c) PROVE WakeInv'
  <2>1. ASSUME NEW d \in Conn, d # c PROVE Watched(d)'
    <3>1. flushOutbound(c) \/ UNCHANGED <<sent, epollout, full>>
      BY <1>17 DEF FlushReply
    <3>2. tls'[d] = tls[d] /\ UNCHANGED <<conn, closing, queued, gone, wake, wpc, wtask>>
      BY <1>17, <2>1 DEF FlushReply, NextBuffer, TypeOK
    <3>3. Serving(d) => Serving(d)'
      BY <1>17, <2>1 DEF FlushReply, Serving
    <3> QED BY <1>0, <2>1, <3>1, <3>2, <3>3, OthersWatched DEF WakeInv
  <2>2. Watched(c)'
    BY <1>0, <1>17, FlushSignals
    DEF FlushReply, NextBuffer, WakeInv, HandlerInv, TypeOK, Watched, Signalled, Serving, Pending
  <2> QED BY <1>0, <2>1, <2>2 DEF WakeInv
<1>18. ASSUME NEW c \in Conn, FlushOut(c) PROVE WakeInv'
  <2>1. ASSUME NEW d \in Conn, d # c PROVE Watched(d)'
    <3>1. flushOutbound(c) \/ UNCHANGED <<sent, epollout, full>>
      BY <1>18 DEF FlushOut
    <3>2. tls'[d] = tls[d] /\ UNCHANGED <<conn, closing, queued, gone, wake, wpc, wtask>>
      BY <1>18, <2>1 DEF FlushOut
    <3>3. Serving(d) => Serving(d)'
      BY <1>18, <2>1 DEF FlushOut, Serving
    <3> QED BY <1>0, <2>1, <3>1, <3>2, <3>3, OthersWatched DEF WakeInv
  <2>2. Watched(c)'
    BY <1>0, <1>18, FlushSignals
    DEF FlushOut, Goto, EndHandler, WakeInv, HandlerInv, TypeOK, Watched, Signalled, Serving,
        Pending
  <2> QED BY <1>0, <2>1, <2>2 DEF WakeInv
<1>19. ASSUME NEW c \in Conn, Sweep(c) PROVE WakeInv'
  <2>1. ASSUME NEW d \in Conn, d # c PROVE Watched(d)'
    <3>1. flushOutbound(c) \/ UNCHANGED <<sent, epollout, full>>
      BY <1>19 DEF Sweep
    <3>2. tls'[d] = tls[d] /\ UNCHANGED <<conn, closing, queued, gone, wake, wpc, wtask>>
      BY <1>19, <2>1 DEF Sweep
    <3>3. Serving(d) => Serving(d)'
      BY <1>19, <2>1 DEF Sweep, Serving
    <3> QED BY <1>0, <2>1, <3>1, <3>2, <3>3, OthersWatched DEF WakeInv
  <2>2. Watched(c)'
    <3>1. flushOutbound(c) /\ UNCHANGED <<tls, queued, gone>>
      BY <1>19 DEF Sweep
    <3>2. \/ sent'[c] = Len(queued[c])
          \/ epollout'[c] = "on" /\ full'[c]
          \/ gone[c]
          \/ tls[c] # "done"
      BY <1>0, <3>1, FlushSignals
    <3>3. Len(queued[c]) \in Nat
      BY DEF TypeOK
    <3> QED BY <3>1, <3>2, <3>3 DEF Watched, Signalled, Pending
  <2> QED BY <1>0, <2>1, <2>2 DEF WakeInv
<1>20. ASSUME NEW c \in Conn, PushReply(c) PROVE WakeInv'
  <2>1. ASSUME NEW d \in Conn, d # c PROVE Watched(d)'
    BY <1>0, <1>20, <2>1
    DEF PushReply, updateInterest, Goto, Pushed, WakeInv, HandlerInv, TypeOK, Watched, Signalled,
        Serving, Pending
  <2>2. Watched(c)'
    BY <1>0, <1>20
    DEF PushReply, updateInterest, Goto, WakeInv, HandlerInv, TypeOK, Watched, Signalled, Serving,
        Pending
  <2> QED BY <1>0, <2>1, <2>2 DEF WakeInv
<1>21. ASSUME NEW c \in Conn, TimerPing(c) PROVE WakeInv'
  <2>1. ASSUME NEW d \in Conn, d # c PROVE Watched(d)'
    BY <1>0, <1>21, <2>1
    DEF TimerPing, updateInterest, Pushed, WakeInv, HandlerInv, TypeOK, Watched, Signalled,
        Serving, Pending
  <2>2. Watched(c)'
    BY <1>0, <1>21
    DEF TimerPing, updateInterest, WakeInv, HandlerInv, TypeOK, Watched, Signalled, Serving, Pending
  <2> QED BY <1>0, <2>1, <2>2 DEF WakeInv
<1>22. ASSUME NEW c \in Conn, NEW b \in BOOLEAN, HandshakeWants(c, b) PROVE WakeInv'
  BY <1>22
  DEF HandshakeWants, Goto, WakeInv, HandlerInv, TypeOK, Watched, Signalled, Serving, Pending
<1>23. ASSUME NEW c \in Conn, NEW b \in BOOLEAN, ReadWants(c, b) PROVE WakeInv'
  <2>1. ASSUME NEW d \in Conn, d # c PROVE Watched(d)'
    BY <1>0, <1>23, <2>1
    DEF ReadWants, Goto, updateInterest, WakeInv, HandlerInv, TypeOK, Watched, Signalled, Serving,
        Pending
  <2>2. Watched(c)'
    BY <1>0, <1>23
    DEF ReadWants, Goto, updateInterest, WakeInv, HandlerInv, TypeOK, Watched, Signalled, Serving,
        Pending
  <2> QED BY <1>0, <2>1, <2>2 DEF WakeInv
<1>24. ASSUME NEW c \in Conn, NEW b \in BOOLEAN, EpollConn(c, b) PROVE WakeInv'
  <2> SUFFICES ASSUME NEW d \in Conn PROVE Watched(d)'
    BY <1>0 DEF WakeInv
  <2>1. /\ pc = "wait" /\ cur' = c
        /\ epollout' = [epollout EXCEPT ![c] = IF @ = "ready" THEN "on" ELSE @]
        /\ UNCHANGED <<conn, tls, closing, queued, sent, full, gone, wake, wpc, wtask>>
    BY <1>24 DEF EpollConn
  <2>2. Watched(d) /\ ~ Serving(d) /\ (Pending(d)' <=> Pending(d))
    BY <2>1 DEF WakeInv, Serving, Pending
  <2>3. CASE d = c /\ epollout[c] = "ready" /\ tls[c] = "done"
    <3>1. ~ full[c] /\ evOut'
      BY <1>24, <2>3 DEF EpollConn, WakeInv, HandlerInv
    <3>2. pc' \in {"read", "out"}
      BY <1>24, <2>3 DEF EpollConn
    <3> QED BY <2>1, <2>3, <3>1, <3>2 DEF Watched, Serving
  <2>4. CASE tls[d] # "done"
    BY <2>1, <2>4 DEF Watched
  <2>5. CASE d # c \/ epollout[c] # "ready"
    <3>1. epollout'[d] = epollout[d]
      BY <2>1, <2>5 DEF TypeOK
    <3>2. Signalled(d) => Signalled(d)'
      BY <2>1, <3>1 DEF Signalled
    <3> QED BY <2>1, <2>2, <3>2 DEF Watched
  <2> QED BY <2>3, <2>4, <2>5
<1>25. ASSUME NEW c \in Conn, NEW k \in TaskKind, RecvData(c, k) PROVE WakeInv'
  BY <1>25
  DEF RecvData, Reading, NextBuffer, WakeInv, HandlerInv, TypeOK, Watched, Signalled, Serving,
      Pending
<1>26. ASSUME TimerSweep PROVE WakeInv'
  BY <1>26 DEF TimerSweep, WakeInv, HandlerInv, TypeOK, Watched, Signalled, Serving, Pending
<1>27. ASSUME SweepEnd PROVE WakeInv'
  BY <1>27 DEF SweepEnd, WakeInv, HandlerInv, TypeOK, Watched, Signalled, Serving, Pending
<1>28. ASSUME WakeEvent PROVE WakeInv'
  BY <1>28
  DEF WakeEvent, Flushable, WakeInv, HandlerInv, TypeOK, Watched, Signalled, Serving, Pending
<1>29. ASSUME TimerTick PROVE WakeInv'
  BY <1>29 DEF TimerTick, WakeInv, HandlerInv, TypeOK, Watched, Signalled, Serving, Pending
<1>30. ASSUME NEW w \in Worker, Take(w) PROVE WakeInv'
  <2>1. /\ wpc[w] = "idle"
        /\ \A v \in Worker \ {w} : wpc'[v] = wpc[v] /\ wtask'[v] = wtask[v]
    BY <1>30 DEF Take, TypeOK
  <2>2. /\ UNCHANGED <<connVars, queued, sent, epollout, full, gone, wake>>
        /\ UNCHANGED <<pc, cur, evOut, todo>>
    BY <1>30 DEF Take
  <2> QED BY <1>0, <2>1, <2>2, WorkerWatched DEF WakeInv
<1>31. ASSUME NEW w \in Worker, Drop(w) PROVE WakeInv'
  <2>1. /\ wpc[w] = "run"
        /\ \A v \in Worker \ {w} : wpc'[v] = wpc[v] /\ wtask'[v] = wtask[v]
    BY <1>31 DEF Drop, TaskEnds, TypeOK
  <2>2. /\ UNCHANGED <<connVars, queued, sent, epollout, full, gone, wake>>
        /\ UNCHANGED <<pc, cur, evOut, todo>>
    BY <1>31 DEF Drop
  <2> QED BY <1>0, <2>1, <2>2, WorkerWatched DEF WakeInv
<1>32. ASSUME NEW w \in Worker, WorkerMod(w) PROVE WakeInv'
  <2> SUFFICES ASSUME NEW d \in Conn PROVE Watched(d)'
    BY <1>0 DEF WakeInv
  <2>1. /\ UNCHANGED <<conn, tls, closing, queued, sent, full, gone, wake, wtask>>
        /\ UNCHANGED <<pc, cur, evOut, todo>>
        /\ wpc' = [wpc EXCEPT ![w] = "notify"]
    BY <1>32 DEF WorkerMod
  <2>2. Watched(d)
    BY DEF WakeInv
  <2>3. (Serving(d)' <=> Serving(d)) /\ (Pending(d)' <=> Pending(d))
    BY <2>1 DEF Serving, Pending
  <2>4. CASE d = wtask[w].conn /\ conn[d] = "open"
    <3>1. epollout'[d] = IF full[d] THEN "on" ELSE "ready"
      BY <1>32, <2>4 DEF WorkerMod, updateInterest, TypeOK
    <3> QED BY <2>1, <3>1 DEF Watched, Signalled
  <2>5. CASE d = wtask[w].conn /\ conn[d] # "open"
    BY <2>1, <2>5 DEF Watched
  <2>6. CASE d # wtask[w].conn
    <3>1. epollout'[d] = epollout[d]
      BY <1>32, <2>6 DEF WorkerMod, updateInterest, TypeOK
    <3>2. \A v \in Worker : wpc[v] \in {"mod", "notify"} => wpc'[v] \in {"mod", "notify"}
      BY <2>1 DEF TypeOK
    <3>3. Signalled(d) => Signalled(d)'
      BY <2>1, <3>1, <3>2 DEF Signalled
    <3> QED BY <2>1, <2>2, <2>3, <3>3 DEF Watched
  <2> QED BY <2>4, <2>5, <2>6
<1>33. ASSUME NEW w \in Worker, Notify(w) PROVE WakeInv'
  BY <1>33 DEF Notify, TaskEnds, WakeInv, HandlerInv, TypeOK, Watched, Signalled, Serving, Pending
<1>34. ASSUME NEW w \in Worker, PushData(w) PROVE WakeInv'
  <2> SUFFICES ASSUME NEW d \in Conn PROVE Watched(d)'
    BY <1>0 DEF WakeInv
  <2> DEFINE c == wtask[w].conn
  <2>1. wtask[w] \in Task /\ c \in Conn /\ ~ closing[c]
    BY <1>34 DEF PushData, TypeOK, Task
  <2>2. /\ UNCHANGED <<conn, tls, closing, sent, epollout, full, gone, wake, wtask>>
        /\ UNCHANGED <<pc, cur, evOut, todo>>
        /\ wpc' = [wpc EXCEPT ![w] = "mod"] /\ wpc[w] = "run"
    BY <1>34 DEF PushData
  <2>3. d # c => queued'[d] = queued[d]
    BY <1>34 DEF PushData, TypeOK
  <2>4. CASE d = c
    <3>1. Signalled(d)'
      BY <2>1, <2>2, <2>4 DEF Signalled, TypeOK
    <3> QED BY <3>1 DEF Watched
  <2> HIDE DEF c
  <2>5. CASE d # c
    <3>1. Watched(d)
      BY DEF WakeInv
    <3>2. Serving(d)' <=> Serving(d)
      BY <2>2 DEF Serving
    <3>3. wpc \in [Worker -> {"idle", "run", "mod", "notify"}]
      BY DEF TypeOK
    <3>4. \A v \in Worker : wpc[v] \in {"mod", "notify"} => wpc'[v] \in {"mod", "notify"}
      BY <2>2, <3>3
    <3>5. Signalled(d) => Signalled(d)'
      BY <2>2, <3>4 DEF Signalled
    <3>6. conn' = conn /\ tls' = tls /\ (Pending(d)' <=> Pending(d))
      BY <2>2, <2>3, <2>5 DEF Pending
    <3> QED BY <3>1, <3>2, <3>5, <3>6 DEF Watched
  <2> QED BY <2>4, <2>5
<1>35. CASE UNCHANGED vars
  BY <1>35 DEF vars, WakeInv, HandlerInv, TypeOK, Watched, Signalled, Serving, Pending
<1>36. ASSUME NEW c \in Conn, Handler(c) PROVE WakeInv'
  BY <1>36, <1>3, <1>4, <1>5, <1>6, <1>7, <1>8, <1>9, <1>10, <1>11, <1>12,
     <1>15, <1>16, <1>17, <1>18, <1>19, <1>20, <1>21, <1>22, <1>23, <1>25 DEF Handler
<1>37. ASSUME NEW w \in Worker, WorkerStep(w) PROVE WakeInv'
  BY <1>37, <1>30, <1>31, <1>32, <1>33, <1>34 DEF WorkerStep
<1>38. ASSUME EpollWait PROVE WakeInv'
  BY <1>38, <1>1, <1>2, <1>24, <1>28, <1>29 DEF EpollWait
<1> QED
  BY <1>13, <1>14, <1>26, <1>27, <1>35, <1>36, <1>37, <1>38 DEF Next, IOStep

(* No connection is forgotten: whenever the IO thread waits, a connection   *)
(* with data it could send has a signal pending or on its way.             *)
THEOREM WakeCorrect == Spec => []NoLostWakeup
<1>1. ASSUME Init PROVE WakeInv
  BY <1>1 DEF Init, WakeInv, Watched, HandlerInv, HandlerPC, Signalled, Pending
<1>2. TypeOK /\ WakeInv /\ [Next]_vars => WakeInv'
  BY WakeStep
<1>3. WakeInv => NoLostWakeup
  BY DEF WakeInv, Watched, NoLostWakeup, Serving
<1> QED BY <1>1, <1>2, <1>3, TypeCorrect, PTL DEF Spec

(***************************************************************************)
(* The upgrade response comes first.  Whatever else is queued needs a      *)
(* connection that is upgraded and whose response is already in the queue: *)
(* a task was submitted, and a Ping is due, only after the response; the   *)
(* one moment between ws_upgraded and the push belongs to the IO thread.   *)
(***************************************************************************)
Begun(c) == queued[c] # <<>>

FirstInv ==
  /\ \A c \in Conn : ~ upgraded[c] => ~ Begun(c)
  /\ \A c \in Conn : upgraded[c] /\ ~ Begun(c) => pc = "push" /\ reply = "101" /\ cur = c
  /\ pc = "push" => upgraded[cur] /\ (reply = "101" => ~ Begun(cur))
  /\ \A i \in 1..Len(tasks) : Begun(tasks[i].conn)
  /\ \A w \in Worker : wpc[w] = "run" => Begun(wtask[w].conn)
  /\ pc = "ping" => \A c \in todo : Begun(c)
  /\ UpgradeResponseFirst


(* A step that queues nothing and lets nobody in who could: the IO thread   *)
(* is not about to push, or goes on as it was.                              *)
LEMMA FirstKept ==
  ASSUME TypeOK, FirstInv, UNCHANGED <<queued, upgraded>>,
         UNCHANGED <<pc, reply, cur>> \/ (pc # "push" /\ pc' # "push"),
         pc' = "ping" => pc = "ping" /\ todo' \subseteq todo,
         UNCHANGED <<tasks, wpc, wtask>>
  PROVE  FirstInv'
BY DEF FirstInv, UpgradeResponseFirst, Begun

(* The IO thread turns to a reply that is not the upgrade response. *)
LEMMA FirstAnswered ==
  ASSUME TypeOK, FirstInv, UNCHANGED <<queued, upgraded>>, pc \in {"early", "read"},
         pc' = "push", upgraded'[cur'], reply' # "101", UNCHANGED <<tasks, wpc, wtask>>
  PROVE  FirstInv'
BY DEF FirstInv, UpgradeResponseFirst, Begun

(* Every task submitted is that of a connection. *)
LEMMA TaskConns ==
  ASSUME TypeOK
  PROVE  \A i \in 1..Len(tasks) : tasks[i] \in Task /\ tasks[i].conn \in Conn
<1>1. tasks \in Seq(Task)
  BY DEF TypeOK
<1>2. \A i \in 1..Len(tasks) : tasks[i] \in Task
  BY <1>1
<1> QED BY <1>2 DEF Task

(* What a push does to a queue: one frame more, the others as they were.    *)
LEMMA PushShape ==
  ASSUME TypeOK, NEW c \in Conn, NEW k, NEW n, Pushed(c, k, n)
  PROVE  /\ Len(queued[c]) \in Nat
         /\ Len(queued'[c]) = Len(queued[c]) + 1
         /\ \A i \in 1..Len(queued[c]) : queued'[c][i] = queued[c][i]
         /\ queued'[c][Len(queued[c]) + 1] = [kind |-> k, n |-> n]
         /\ \A d \in Conn \ {c} : queued'[d] = queued[d]
         /\ queued'[c] # <<>>
         /\ queued[c] = <<>> <=> Len(queued[c]) = 0
<1> DEFINE f == [kind |-> k, n |-> n]
<1>1. queued \in [Conn -> Seq(Frame)] /\ queued[c] \in Seq(Frame)
  BY DEF TypeOK
<1>2. queued'[c] = Append(queued[c], f) /\ \A d \in Conn \ {c} : queued'[d] = queued[d]
  BY <1>1 DEF Pushed
<1> HIDE DEF f
<1>3. /\ Len(queued[c]) \in Nat /\ Len(queued'[c]) = Len(queued[c]) + 1
      /\ \A i \in 1..Len(queued[c]) : queued'[c][i] = queued[c][i]
      /\ queued'[c][Len(queued[c]) + 1] = f
      /\ queued'[c] # <<>>
      /\ queued[c] = <<>> <=> Len(queued[c]) = 0
  BY <1>1, <1>2
<1> QED BY <1>2, <1>3 DEF f

(* A push of the IO thread: the response on an empty queue, any other frame *)
(* behind it.                                                               *)
LEMMA FirstPushed ==
  ASSUME TypeOK, FirstInv, NEW c \in Conn, NEW k \in FrameKind, NEW n, Pushed(c, k, n),
         UNCHANGED upgraded, upgraded[c], k = "101" <=> ~ Begun(c),
         pc' # "push", pc = "push" => cur = c,
         pc' = "ping" => pc = "ping" /\ todo' \subseteq todo,
         UNCHANGED <<tasks, wpc, wtask>>
  PROVE  FirstInv'
<1>1. /\ Len(queued[c]) \in Nat
      /\ Len(queued'[c]) = Len(queued[c]) + 1
      /\ \A i \in 1..Len(queued[c]) : queued'[c][i] = queued[c][i]
      /\ queued'[c][Len(queued[c]) + 1].kind = k
      /\ \A d \in Conn \ {c} : queued'[d] = queued[d]
      /\ queued'[c] # <<>>
      /\ queued[c] = <<>> <=> Len(queued[c]) = 0
  <2>1. queued'[c][Len(queued[c]) + 1] = [kind |-> k, n |-> n]
    BY PushShape
  <2>2. [kind |-> k, n |-> n].kind = k
    OBVIOUS
  <2>3. queued'[c][Len(queued[c]) + 1].kind = k
    BY <2>1, <2>2
  <2> QED BY <2>3, PushShape
<1>2. \A d \in Conn : Begun(d) => queued'[d] # <<>>
  BY <1>1 DEF Begun
<1>3. \A i \in 1..Len(tasks) : tasks[i].conn \in Conn
  BY TaskConns
<1>4. \A w \in Worker : wpc[w] = "run" => wtask[w].conn \in Conn
  BY DEF TypeOK, Task
<1>5. UpgradeResponseFirst'
  <2>1. ASSUME NEW i \in 1..Len(queued'[c]) PROVE (queued'[c][i].kind = "101") <=> (i = 1)
    <3>1. CASE i \in 1..Len(queued[c])
      BY <1>1, <3>1 DEF FirstInv, UpgradeResponseFirst, Begun
    <3>2. CASE i = Len(queued[c]) + 1
      BY <1>1, <3>2 DEF Begun
    <3> QED BY <1>1, <2>1, <3>1, <3>2
  <2> QED BY <1>1, <2>1 DEF FirstInv, UpgradeResponseFirst
<1>6. \A d \in Conn : ~ upgraded[d] => queued'[d] = <<>>
  BY <1>1 DEF FirstInv, Begun
<1>7. \A d \in Conn : upgraded[d] => queued'[d] # <<>>
  BY <1>1, <1>2 DEF FirstInv, Begun
<1>8. \A i \in 1..Len(tasks) : queued'[tasks[i].conn] # <<>>
  BY <1>2, <1>3 DEF FirstInv
<1>9. \A w \in Worker : wpc[w] = "run" => queued'[wtask[w].conn] # <<>>
  BY <1>2, <1>4 DEF FirstInv
<1>10. pc' = "ping" => \A d \in todo' : queued'[d] # <<>>
  BY <1>2 DEF FirstInv, TypeOK
<1> QED BY <1>5, <1>6, <1>7, <1>8, <1>9, <1>10 DEF FirstInv, Begun

(* A worker's push finds the response in the queue. *)
LEMMA FirstDataPushed ==
  ASSUME TypeOK, FirstInv, NEW w \in Worker, PushData(w)
  PROVE  FirstInv'
<1> DEFINE c == wtask[w].conn
           f == [kind |-> "Data", n |-> wtask[w].n]
<1>1. /\ c \in Conn /\ queued \in [Conn -> Seq(Frame)]
      /\ queued[c] \in Seq(Frame) /\ Len(queued[c]) \in Nat /\ queued[c] # <<>>
  BY DEF PushData, TypeOK, Task, FirstInv, Begun
<1>2. UNCHANGED <<upgraded, tasks, wtask, pc, reply, cur, todo>>
      /\ wpc' = [wpc EXCEPT ![w] = "mod"] /\ wpc \in [Worker -> {"idle", "run", "mod", "notify"}]
  BY DEF PushData, connVars, ioVars, TypeOK
<1>3. \A d \in Conn \ {c} : queued'[d] = queued[d]
  BY <1>1 DEF PushData
<1>4. queued'[c] = Append(queued[c], f) \/ queued'[c] = Append(Append(queued[c], f), f)
  BY <1>1 DEF PushData
<1>5. f.kind = "Data"
  OBVIOUS
<1> HIDE DEF f, c
<1>6. /\ queued'[c] # <<>>
      /\ \A i \in 1..Len(queued'[c]) :
           (i \in 1..Len(queued[c]) /\ queued'[c][i] = queued[c][i]) \/ (i # 1 /\ queued'[c][i] = f)
  <2>0. Len(queued[c]) > 0
    BY <1>1
  <2>1. CASE queued'[c] = Append(queued[c], f)
    BY <1>1, <2>0, <2>1
  <2>2. CASE queued'[c] = Append(Append(queued[c], f), f)
    <3>1. /\ Len(queued'[c]) = Len(queued[c]) + 2
          /\ \A i \in 1..Len(queued[c]) : queued'[c][i] = queued[c][i]
          /\ queued'[c][Len(queued[c]) + 1] = f /\ queued'[c][Len(queued[c]) + 2] = f
          /\ queued'[c] # <<>>
      BY <1>1, <2>2
    <3> QED BY <1>1, <2>0, <3>1
  <2> QED BY <1>4, <2>1, <2>2
<1>7. \A d \in Conn : Begun(d) <=> queued'[d] # <<>>
  BY <1>1, <1>3, <1>6 DEF Begun
<1>8. UpgradeResponseFirst'
  BY <1>3, <1>5, <1>6 DEF FirstInv, UpgradeResponseFirst
<1>9. \A i \in 1..Len(tasks) : tasks[i].conn \in Conn
  BY TaskConns
<1>10. \A v \in Worker : wpc[v] = "run" => wtask[v].conn \in Conn
  BY DEF TypeOK, Task
<1>11. \A v \in Worker : wpc'[v] = "run" => queued'[wtask[v].conn] # <<>>
  BY <1>2, <1>7, <1>10 DEF FirstInv
<1>12. \A i \in 1..Len(tasks) : queued'[tasks[i].conn] # <<>>
  BY <1>7, <1>9 DEF FirstInv
<1>13. pc = "ping" => \A d \in todo : queued'[d] # <<>>
  BY <1>7 DEF FirstInv, TypeOK
<1>14. pc = "push" => upgraded[cur] /\ (reply = "101" => queued'[cur] = <<>>)
  BY <1>7 DEF FirstInv, TypeOK, HandlerPC
<1>15. \A d \in Conn : /\ ~ upgraded[d] => queued'[d] = <<>>
                       /\ upgraded[d] /\ queued'[d] = <<>> => pc = "push" /\ reply = "101" /\ cur = d
  BY <1>7 DEF FirstInv
<1> QED BY <1>2, <1>8, <1>11, <1>12, <1>13, <1>14, <1>15 DEF FirstInv, Begun

(* Every step keeps the response first. *)
LEMMA FirstStep ==
  ASSUME TypeOK, FirstInv, [Next]_vars
  PROVE  FirstInv'
<1> USE DEF connVars, peerVars, poolVars, ioVars
<1>0. upgraded \in [Conn -> BOOLEAN] /\ tls \in [Conn -> {"early", "accept", "done"}]
  BY DEF TypeOK
<1>1. ASSUME NEW c \in Conn, Accept(c) PROVE FirstInv'
  BY <1>0, <1>1, FirstKept DEF Accept
<1>2. ASSUME NEW c \in Conn, EpollHangUp(c) PROVE FirstInv'
  BY <1>0, <1>2, FirstKept DEF EpollHangUp, closeConnection
<1>3. ASSUME NEW c \in Conn, EarlyFinish(c) PROVE FirstInv'
  BY <1>0, <1>3, FirstKept DEF EarlyFinish, Goto
<1>4. ASSUME NEW c \in Conn, HandshakeDone(c) PROVE FirstInv'
  BY <1>0, <1>4, FirstKept DEF HandshakeDone, Goto
<1>5. ASSUME NEW c \in Conn, Fail(c) PROVE FirstInv'
  BY <1>0, <1>5, FirstKept DEF Fail, closeConnection, EndHandler
<1>6. ASSUME NEW c \in Conn, RecvUpgrade(c) PROVE FirstInv'
  <2>1. /\ pc \in {"early", "read"} /\ pc' = "push" /\ reply' = "101" /\ cur' = c
        /\ ~ upgraded[c] /\ upgraded' = [upgraded EXCEPT ![c] = TRUE]
        /\ UNCHANGED <<queued, tasks, wpc, wtask>>
    BY <1>6 DEF RecvUpgrade, Reading, Answer
  <2> QED BY <1>0, <2>1 DEF FirstInv, UpgradeResponseFirst, Begun
<1>7. ASSUME NEW c \in Conn, RecvPing(c) PROVE FirstInv'
  BY <1>7, FirstAnswered DEF RecvPing, Reading, Answer
<1>8. ASSUME NEW c \in Conn, RecvPong(c) PROVE FirstInv'
  BY <1>0, <1>8, FirstKept DEF RecvPong, Reading, Received, NextBuffer
<1>9. ASSUME NEW c \in Conn, RecvClose(c) PROVE FirstInv'
  BY <1>9, FirstAnswered DEF RecvClose, Reading, Answer
<1>10. ASSUME NEW c \in Conn, SkipOut(c) PROVE FirstInv'
  BY <1>0, <1>10, FirstKept DEF SkipOut, EndHandler
<1>11. ASSUME NEW c \in Conn, CloseDrained(c) PROVE FirstInv'
  BY <1>0, <1>11, FirstKept DEF CloseDrained, closeConnection, EndHandler
<1>12. ASSUME NEW c \in Conn, Reap(c) PROVE FirstInv'
  <2>1. pc = "reap" /\ pc' \in {"wait", "reap"} /\ UNCHANGED <<queued, upgraded, tasks, wpc, wtask>>
    BY <1>12 DEF Reap, closeConnection
  <2> QED BY <2>1, FirstKept
<1>13. ASSUME NEW c \in Conn, PeerReads(c) PROVE FirstInv'
  BY <1>0, <1>13, FirstKept DEF PeerReads
<1>14. ASSUME NEW c \in Conn, PeerLeaves(c) PROVE FirstInv'
  BY <1>0, <1>14, FirstKept DEF PeerLeaves
<1>15. ASSUME NEW c \in Conn, HandshakeRetry(c) PROVE FirstInv'
  BY <1>0, <1>15, FirstKept DEF HandshakeRetry, EndHandler
<1>16. ASSUME NEW c \in Conn, FirstFlush(c) PROVE FirstInv'
  BY <1>0, <1>16, FirstKept DEF FirstFlush, Goto
<1>17. ASSUME NEW c \in Conn, FlushReply(c) PROVE FirstInv'
  BY <1>0, <1>17, FirstKept DEF FlushReply, NextBuffer
<1>18. ASSUME NEW c \in Conn, FlushOut(c) PROVE FirstInv'
  BY <1>0, <1>18, FirstKept DEF FlushOut, Goto, EndHandler
<1>19. ASSUME NEW c \in Conn, Sweep(c) PROVE FirstInv'
  BY <1>0, <1>19, FirstKept DEF Sweep
<1>20. ASSUME NEW c \in Conn, PushReply(c) PROVE FirstInv'
  <2>1. /\ pc = "push" /\ cur = c /\ Pushed(c, reply, rcvd[c]) /\ pc' = "flush"
        /\ UNCHANGED <<upgraded, tasks, wpc, wtask>>
    BY <1>20 DEF PushReply, Goto
  <2>2. reply \in FrameKind
    BY <2>1 DEF TypeOK, FrameKind
  <2>3. upgraded[c] /\ (reply = "101" <=> ~ Begun(c))
    BY <2>1 DEF FirstInv
  <2> QED BY <2>1, <2>2, <2>3, FirstPushed
<1>21. ASSUME NEW c \in Conn, TimerPing(c) PROVE FirstInv'
  <2>1. /\ pc = "ping" /\ pc' = "ping" /\ c \in todo /\ Pushed(c, "Ping", 0) /\ todo' \subseteq todo
        /\ UNCHANGED <<upgraded, tasks, wpc, wtask>>
    BY <1>21 DEF TimerPing
  <2>2. "Ping" \in FrameKind /\ Begun(c) /\ upgraded[c]
    BY <1>0, <2>1 DEF FirstInv, FrameKind
  <2> QED BY <2>1, <2>2, FirstPushed
<1>22. ASSUME NEW c \in Conn, NEW b \in BOOLEAN, HandshakeWants(c, b) PROVE FirstInv'
  BY <1>0, <1>22, FirstKept DEF HandshakeWants, Goto
<1>23. ASSUME NEW c \in Conn, NEW b \in BOOLEAN, ReadWants(c, b) PROVE FirstInv'
  BY <1>0, <1>23, FirstKept DEF ReadWants, Goto
<1>24. ASSUME NEW c \in Conn, NEW b \in BOOLEAN, EpollConn(c, b) PROVE FirstInv'
  <2>1. pc = "wait" /\ pc' \notin {"push", "ping"} /\ UNCHANGED <<queued, upgraded, tasks, wpc, wtask>>
    BY <1>0, <1>24 DEF EpollConn
  <2> QED BY <2>1, FirstKept
<1>25. ASSUME NEW c \in Conn, NEW k \in TaskKind, RecvData(c, k) PROVE FirstInv'
  <2> DEFINE t == [conn |-> c, kind |-> k, n |-> rcvd[c] + 1]
  <2>1. /\ pc \in {"early", "read"} /\ pc' \notin {"push", "ping"} /\ upgraded[c]
        /\ tasks' = Append(tasks, t)
        /\ UNCHANGED <<queued, upgraded, wpc, wtask>>
    BY <1>0, <1>25 DEF RecvData, Reading, NextBuffer
  <2>2. Begun(c) /\ t.conn = c /\ tasks \in Seq(Task)
    BY <2>1 DEF FirstInv, TypeOK
  <2> HIDE DEF t
  <2>3. \A i \in 1..Len(tasks') : tasks'[i] = t \/ (i \in 1..Len(tasks) /\ tasks'[i] = tasks[i])
    BY <2>1, <2>2
  <2> QED BY <2>1, <2>2, <2>3 DEF FirstInv, UpgradeResponseFirst, Begun
<1>26. ASSUME TimerSweep PROVE FirstInv'
  BY <1>0, <1>26, FirstKept DEF TimerSweep
<1>27. ASSUME SweepEnd PROVE FirstInv'
  <2>1. pc = "sweep" /\ pc' \in {"wait", "reap"} /\ UNCHANGED <<queued, upgraded, tasks, wpc, wtask>>
    BY <1>27 DEF SweepEnd
  <2> QED BY <2>1, FirstKept
<1>28. ASSUME WakeEvent PROVE FirstInv'
  BY <1>0, <1>28, FirstKept DEF WakeEvent
<1>29. ASSUME TimerTick PROVE FirstInv'
  <2>1. pc = "wait" /\ pc' = "ping" /\ UNCHANGED <<queued, upgraded, tasks, wpc, wtask, reply, cur>>
        /\ \A c \in todo' : c \in Conn /\ upgraded[c]
    BY <1>29 DEF TimerTick, Flushable
  <2> QED BY <2>1 DEF FirstInv, UpgradeResponseFirst, Begun
<1>30. ASSUME NEW w \in Worker, Take(w) PROVE FirstInv'
  <2>1. /\ tasks # <<>> /\ wtask' = [wtask EXCEPT ![w] = Head(tasks)] /\ tasks' = Tail(tasks)
        /\ wpc' = [wpc EXCEPT ![w] = "run"]
        /\ UNCHANGED <<queued, upgraded, pc, reply, cur, todo>>
    BY <1>30 DEF Take
  <2>2. tasks \in Seq(Task) /\ wpc \in [Worker -> {"idle", "run", "mod", "notify"}]
        /\ wtask \in [Worker -> Task \cup {NoTask}]
    BY DEF TypeOK
  <2>3. \A i \in 1..Len(tasks') : i + 1 \in 1..Len(tasks) /\ tasks'[i] = tasks[i + 1]
    BY <2>1, <2>2
  <2>4. Head(tasks) = tasks[1] /\ 1 \in 1..Len(tasks)
    BY <2>1, <2>2
  <2>5. \A v \in Worker : wpc'[v] = "run" => Begun(wtask'[v].conn)
    BY <2>1, <2>2, <2>4 DEF FirstInv
  <2>6. \A i \in 1..Len(tasks') : Begun(tasks'[i].conn)
    BY <2>3 DEF FirstInv
  <2> QED BY <2>1, <2>5, <2>6 DEF FirstInv, UpgradeResponseFirst, Begun
<1>31. ASSUME NEW w \in Worker, Drop(w) PROVE FirstInv'
  <2>1. /\ UNCHANGED <<queued, upgraded, tasks, pc, reply, cur, todo>>
        /\ wpc' = [wpc EXCEPT ![w] = "idle"] /\ wtask' = [wtask EXCEPT ![w] = NoTask]
        /\ wpc \in [Worker -> {"idle", "run", "mod", "notify"}]
        /\ wtask \in [Worker -> Task \cup {NoTask}]
    BY <1>31 DEF Drop, TaskEnds, TypeOK
  <2>2. \A v \in Worker : wpc'[v] = "run" => wpc[v] = "run" /\ wtask'[v] = wtask[v]
    BY <2>1
  <2> QED BY <2>1, <2>2 DEF FirstInv, UpgradeResponseFirst, Begun
<1>32. ASSUME NEW w \in Worker, WorkerMod(w) PROVE FirstInv'
  <2>1. /\ UNCHANGED <<queued, upgraded, tasks, wtask, pc, reply, cur, todo>>
        /\ wpc' = [wpc EXCEPT ![w] = "notify"]
        /\ wpc \in [Worker -> {"idle", "run", "mod", "notify"}]
    BY <1>32 DEF WorkerMod, TypeOK
  <2>2. \A v \in Worker : wpc'[v] = "run" => wpc[v] = "run"
    BY <2>1
  <2> QED BY <2>1, <2>2 DEF FirstInv, UpgradeResponseFirst, Begun
<1>33. ASSUME NEW w \in Worker, Notify(w) PROVE FirstInv'
  <2>1. /\ UNCHANGED <<queued, upgraded, tasks, pc, reply, cur, todo>>
        /\ wpc' = [wpc EXCEPT ![w] = "idle"] /\ wtask' = [wtask EXCEPT ![w] = NoTask]
        /\ wpc \in [Worker -> {"idle", "run", "mod", "notify"}]
        /\ wtask \in [Worker -> Task \cup {NoTask}]
    BY <1>33 DEF Notify, TaskEnds, TypeOK
  <2>2. \A v \in Worker : wpc'[v] = "run" => wpc[v] = "run" /\ wtask'[v] = wtask[v]
    BY <2>1
  <2> QED BY <2>1, <2>2 DEF FirstInv, UpgradeResponseFirst, Begun
<1>34. ASSUME NEW w \in Worker, PushData(w) PROVE FirstInv'
  BY <1>34, FirstDataPushed
<1>35. CASE UNCHANGED vars
  BY <1>35, FirstKept DEF vars
<1>36. ASSUME NEW c \in Conn, Handler(c) PROVE FirstInv'
  BY <1>36, <1>3, <1>4, <1>5, <1>6, <1>7, <1>8, <1>9, <1>10, <1>11, <1>12, <1>15, <1>16, <1>17,
     <1>18, <1>19, <1>20, <1>21, <1>22, <1>23, <1>25 DEF Handler
<1>37. ASSUME NEW w \in Worker, WorkerStep(w) PROVE FirstInv'
  BY <1>37, <1>30, <1>31, <1>32, <1>33, <1>34 DEF WorkerStep
<1>38. ASSUME EpollWait PROVE FirstInv'
  BY <1>38, <1>1, <1>2, <1>24, <1>28, <1>29 DEF EpollWait
<1> QED
  BY <1>13, <1>14, <1>26, <1>27, <1>35, <1>36, <1>37, <1>38 DEF Next, IOStep

(* Whatever the connections, workers and frames: the 101 response is the    *)
(* first frame of every connection's queue, and it is there once.           *)
THEOREM UpgradeFirst == Spec => []UpgradeResponseFirst
<1>1. ASSUME Init PROVE FirstInv
  BY <1>1 DEF Init, FirstInv, UpgradeResponseFirst, Begun
<1>2. TypeOK /\ FirstInv /\ [Next]_vars => FirstInv'
  BY FirstStep
<1>3. FirstInv => UpgradeResponseFirst
  BY DEF FirstInv
<1> QED BY <1>1, <1>2, <1>3, TypeCorrect, PTL DEF Spec
(***************************************************************************)
(* No echo is lost or doubled.  Inbound frames are numbered in their order *)
(* of arrival, so a new one is in no place yet; a task that may end        *)
(* without a reply, or with two, is not that of a text frame.              *)
(***************************************************************************)
Known(t, r, x) == t.n <= r[t.conn] /\ (t.kind = "Binary" => t.n \notin x[t.conn])

Waiting(c, n) == {i \in 1..Len(tasks) : tasks[i].conn = c /\ tasks[i].n = n}
Running(c, n) == {w \in Worker : wpc[w] = "run" /\ wtask[w].conn = c /\ wtask[w].n = n}
Echoed(c, n) == {i \in 1..Len(queued[c]) : queued[c][i].kind = "Data" /\ queued[c][i].n = n}

OnePlace(c, n) ==
  \/ (\E i : Waiting(c, n) = {i}) /\ Running(c, n) = {} /\ Echoed(c, n) = {}
  \/ Waiting(c, n) = {} /\ (\E w : Running(c, n) = {w}) /\ Echoed(c, n) = {}
  \/ Waiting(c, n) = {} /\ Running(c, n) = {} /\ (\E i : Echoed(c, n) = {i})

EchoInv ==
  /\ \A c \in Conn : \A n \in texts[c] : n <= rcvd[c]
  /\ \A i \in 1..Len(tasks) : Known(tasks[i], rcvd, texts)
  /\ \A w \in Worker : wpc[w] = "run" => Known(wtask[w], rcvd, texts)
  /\ \A c \in Conn : \A i \in 1..Len(queued[c]) :
       queued[c][i].kind = "Data" => queued[c][i].n <= rcvd[c]
  /\ \A c \in Conn : ~ closing[c] => \A n \in texts[c] : OnePlace(c, n)

(* A step that moves no text frame from one place to another.               *)
LEMMA EchoKept ==
  ASSUME TypeOK, EchoInv, UNCHANGED <<queued, tasks, texts>>,
         \A v \in Worker : (wpc'[v] = "run") = (wpc[v] = "run"),
         \A v \in Worker : wpc[v] = "run" => wtask'[v] = wtask[v],
         \A c \in Conn : rcvd'[c] \in Nat /\ rcvd[c] <= rcvd'[c],
         \A c \in Conn : closing[c] => closing'[c]
  PROVE  EchoInv'
<1>1. ASSUME NEW t, t.conn \in Conn, t.n \in Nat, Known(t, rcvd, texts) PROVE t.n <= rcvd'[t.conn]
  BY <1>1 DEF Known, TypeOK
<1>2. \A i \in 1..Len(tasks) : Known(tasks[i], rcvd', texts')
  <2>1. \A i \in 1..Len(tasks) : tasks[i].conn \in Conn /\ tasks[i].n \in Nat
    BY TaskConns DEF Task
  <2>2. \A i \in 1..Len(tasks) : tasks[i].n <= rcvd'[tasks[i].conn]
    BY <1>1, <2>1 DEF EchoInv
  <2> QED BY <2>2 DEF EchoInv, Known
<1>3. \A w \in Worker : wpc'[w] = "run" => Known(wtask[w], rcvd', texts') /\ wtask'[w] = wtask[w]
  <2>1. \A w \in Worker : wpc[w] = "run" => wtask[w].conn \in Conn /\ wtask[w].n \in Nat
    BY DEF TypeOK, Task
  <2>2. \A w \in Worker : wpc[w] = "run" => wtask[w].n <= rcvd'[wtask[w].conn]
    BY <1>1, <2>1 DEF EchoInv
  <2>3. ASSUME NEW w \in Worker, wpc'[w] = "run" PROVE Known(wtask[w], rcvd', texts') /\ wtask'[w] = wtask[w]
    <3>1. wpc[w] = "run"
      BY <2>3
    <3>4. wtask'[w] = wtask[w]
      BY <3>1
    <3>2. wtask[w].kind = "Binary" => wtask[w].n \notin texts'[wtask[w].conn]
      BY <3>1 DEF EchoInv, Known
    <3> QED BY <2>2, <3>1, <3>2, <3>4 DEF Known
  <2> QED BY <2>3
<1>4. \A c \in Conn : \A n \in texts[c] : n <= rcvd'[c]
  BY DEF EchoInv, TypeOK
<1>5. \A c \in Conn : \A i \in 1..Len(queued[c]) :
        queued[c][i].kind = "Data" => queued[c][i].n <= rcvd'[c]
  <2>1. ASSUME NEW c \in Conn, NEW i \in 1..Len(queued[c]), queued[c][i].kind = "Data"
        PROVE  queued[c][i].n <= rcvd'[c]
    <3>1. queued[c] \in Seq(Frame)
      BY DEF TypeOK
    <3>2. queued[c][i] \in Frame
      BY <3>1
    <3>3. queued[c][i].n \in Nat /\ rcvd[c] \in Nat /\ queued[c][i].n <= rcvd[c]
      BY <2>1, <3>2 DEF Frame, EchoInv, TypeOK
    <3> QED BY <3>3
  <2> QED BY <2>1
<1>6. ASSUME NEW c \in Conn, NEW n \in texts[c], ~ closing'[c] PROVE OnePlace(c, n)'
  <2>1. OnePlace(c, n)
    BY <1>6 DEF EchoInv
  <2>2. Waiting(c, n)' = Waiting(c, n) /\ Echoed(c, n)' = Echoed(c, n)
    BY DEF Waiting, Echoed
  <2>3. \A w \in Worker : wpc'[w] = "run" /\ wtask'[w].conn = c /\ wtask'[w].n = n
                         <=> wpc[w] = "run" /\ wtask[w].conn = c /\ wtask[w].n = n
    OBVIOUS
  <2>4. Running(c, n)' = Running(c, n)
    BY <2>3 DEF Running
  <2> QED BY <2>1, <2>2, <2>4 DEF OnePlace
<1>7. \A c \in Conn : ~ closing'[c] => \A n \in texts'[c] : OnePlace(c, n)'
  BY <1>6
<1> QED BY <1>2, <1>3, <1>4, <1>5, <1>7 DEF EchoInv

(* A control frame is no echo.                                              *)
LEMMA EchoControl ==
  ASSUME TypeOK, EchoInv, NEW c \in Conn, NEW k \in FrameKind \ {"Data"}, NEW n, Pushed(c, k, n),
         UNCHANGED <<tasks, texts, wpc, wtask, rcvd, closing>>
  PROVE  EchoInv'
<1>1. /\ Len(queued[c]) \in Nat
      /\ Len(queued'[c]) = Len(queued[c]) + 1
      /\ \A i \in 1..Len(queued[c]) : queued'[c][i] = queued[c][i]
      /\ queued'[c][Len(queued[c]) + 1] = [kind |-> k, n |-> n]
      /\ \A d \in Conn \ {c} : queued'[d] = queued[d]
  BY PushShape
<1>2. queued'[c][Len(queued[c]) + 1].kind # "Data"
  <2>1. [kind |-> k, n |-> n].kind = k
    OBVIOUS
  <2> QED BY <1>1, <2>1
<1>3. \A i \in 1..Len(queued'[c]) : i \in 1..Len(queued[c]) \/ i = Len(queued[c]) + 1
  BY <1>1
<1>4. \A i : i \in 1..Len(queued'[c]) /\ queued'[c][i].kind = "Data"
             => i \in 1..Len(queued[c]) /\ queued'[c][i] = queued[c][i]
  BY <1>1, <1>2, <1>3
<1>5. \A i \in 1..Len(queued[c]) : i \in 1..Len(queued'[c])
  BY <1>1
<1>6. ASSUME NEW d \in Conn, NEW m PROVE Echoed(d, m)' = Echoed(d, m)
  <2>1. CASE d = c
    BY <1>1, <1>4, <1>5, <2>1 DEF Echoed
  <2>2. CASE d # c
    BY <1>1, <2>2 DEF Echoed
  <2> QED BY <2>1, <2>2
<1>7. ASSUME NEW d \in Conn, NEW m \in texts[d], ~ closing[d] PROVE OnePlace(d, m)'
  <2>1. OnePlace(d, m)
    BY <1>7 DEF EchoInv
  <2>2. Waiting(d, m)' = Waiting(d, m) /\ Running(d, m)' = Running(d, m)
    BY DEF Waiting, Running
  <2> QED BY <1>6, <2>1, <2>2 DEF OnePlace
<1>8. \A d \in Conn : ~ closing'[d] => \A m \in texts'[d] : OnePlace(d, m)'
  BY <1>7
<1>9. \A d \in Conn : \A i \in 1..Len(queued'[d]) :
        queued'[d][i].kind = "Data" => queued'[d][i].n <= rcvd[d]
  <2>1. ASSUME NEW i \in 1..Len(queued'[c]), queued'[c][i].kind = "Data"
        PROVE  queued'[c][i].n <= rcvd[c]
    BY <1>4, <2>1 DEF EchoInv
  <2> QED BY <1>1, <2>1 DEF EchoInv
<1>10. \A t : Known(t, rcvd', texts') <=> Known(t, rcvd, texts)
  BY DEF Known
<1> QED BY <1>8, <1>9, <1>10 DEF EchoInv

(* A new data frame: its number is in no place but the end of the task queue. *)
LEMMA EchoSubmitted ==
  ASSUME TypeOK, EchoInv, NEW c \in Conn, NEW k \in TaskKind, RecvData(c, k)
  PROVE  EchoInv'
<1> DEFINE m == rcvd[c] + 1
           t == [conn |-> c, kind |-> k, n |-> m]
<1>1. /\ rcvd' = [rcvd EXCEPT ![c] = m]
      /\ texts' = [texts EXCEPT ![c] = @ \cup {n \in {m} : k = "Text"}]
      /\ tasks' = Append(tasks, t)
      /\ UNCHANGED <<queued, wpc, wtask, closing>>
  BY DEF RecvData, NextBuffer
<1>2. rcvd \in [Conn -> 0..MaxInput] /\ tasks \in Seq(Task) /\ rcvd[c] \in Nat /\ m \in Nat
      /\ texts \in [Conn -> SUBSET (1..MaxInput)]
  BY DEF TypeOK
<1>3. \A d \in Conn : rcvd'[d] = (IF d = c THEN m ELSE rcvd[d])
  BY <1>1, <1>2
<1>4. \A d \in Conn : texts'[d] = (IF d = c THEN texts[c] \cup {n \in {m} : k = "Text"} ELSE texts[d])
  BY <1>1, <1>2
<1>5. t.conn = c /\ t.n = m /\ t.kind = k
  OBVIOUS
<1>6. rcvd[c] < m
  BY <1>2
<1> HIDE DEF t, m
<1>7. /\ Len(tasks) \in Nat /\ Len(tasks') = Len(tasks) + 1
      /\ \A i \in 1..Len(tasks) : tasks'[i] = tasks[i]
      /\ tasks'[Len(tasks) + 1] = t
  BY <1>1, <1>2
<1>8. \A d \in Conn : rcvd[d] \in Nat /\ rcvd[d] <= rcvd'[d] /\ rcvd'[d] \in Nat
  BY <1>2, <1>3, <1>6
<1>9. ASSUME NEW u \in Task, Known(u, rcvd, texts) PROVE Known(u, rcvd', texts')
  <2>1. u.conn \in Conn /\ u.n \in Nat /\ u.n <= rcvd[u.conn]
    BY <1>9 DEF Task, Known
  <2>2. u.n <= rcvd'[u.conn]
    BY <1>8, <2>1
  <2>3. u.conn = c => u.n # m
    BY <1>2, <1>6, <2>1
  <2>4. u.kind = "Binary" => u.n \notin texts'[u.conn]
    BY <1>4, <1>9, <2>1, <2>3 DEF Known
  <2> QED BY <2>2, <2>4 DEF Known
<1>10. \A d \in Conn : \A n \in texts[d] : n \in Nat /\ n <= rcvd[d]
  BY DEF EchoInv, TypeOK
<1>11. Known(t, rcvd', texts')
  <2>1. m <= rcvd'[c]
    BY <1>2, <1>3
  <2>2. k = "Binary" => m \notin texts'[c]
    BY <1>2, <1>4, <1>6, <1>10
  <2> QED BY <1>5, <2>1, <2>2 DEF Known
<1>12. \A i \in 1..Len(tasks') : Known(tasks'[i], rcvd', texts')
  <2>1. \A i \in 1..Len(tasks') : i \in 1..Len(tasks) \/ i = Len(tasks) + 1
    BY <1>7
  <2>2. \A i \in 1..Len(tasks) : Known(tasks[i], rcvd', texts')
    BY <1>9, TaskConns DEF EchoInv
  <2> QED BY <1>7, <1>11, <2>1, <2>2
<1>13. \A v \in Worker : wpc[v] = "run" => Known(wtask[v], rcvd', texts')
  BY <1>9 DEF EchoInv, TypeOK
<1>14. \A d \in Conn : \A n \in texts'[d] : n <= rcvd'[d]
  <2>1. ASSUME NEW d \in Conn, NEW n \in texts'[d] PROVE n <= rcvd'[d]
    <3>1. n \in texts[d] \/ (d = c /\ n = m)
      BY <1>4
    <3>2. CASE n \in texts[d]
      BY <1>8, <1>10, <3>2
    <3>3. CASE d = c /\ n = m
      BY <1>2, <1>3, <3>3
    <3> QED BY <3>1, <3>2, <3>3
  <2> QED BY <2>1
<1>15. \A d \in Conn : \A i \in 1..Len(queued[d]) :
         queued[d][i].kind = "Data" => queued[d][i].n \in Nat /\ queued[d][i].n <= rcvd[d]
  <2>1. ASSUME NEW d \in Conn, NEW i \in 1..Len(queued[d]) PROVE queued[d][i].n \in Nat
    <3>1. queued[d] \in Seq(Frame)
      BY DEF TypeOK
    <3>2. queued[d][i] \in Frame
      BY <3>1
    <3> QED BY <3>2 DEF Frame
  <2> QED BY <2>1 DEF EchoInv
<1>16. \A d \in Conn : \A i \in 1..Len(queued[d]) :
         queued[d][i].kind = "Data" => queued[d][i].n <= rcvd'[d]
  BY <1>8, <1>15
<1>17. ASSUME NEW d \in Conn, NEW n \in texts'[d], ~ closing[d] PROVE OnePlace(d, n)'
  <2>1. Running(d, n)' = Running(d, n) /\ Echoed(d, n)' = Echoed(d, n)
    BY <1>1 DEF Running, Echoed
  <2>2. CASE d = c /\ n = m
    <3>1. ASSUME NEW i \in 1..Len(tasks), tasks[i].conn = c PROVE tasks[i].n # m
      <4>1. Known(tasks[i], rcvd, texts) /\ tasks[i].n \in Nat
        BY TaskConns DEF EchoInv, Task
      <4> QED BY <1>2, <1>6, <3>1, <4>1 DEF Known
    <3>2. Waiting(d, n)' = {Len(tasks) + 1}
      BY <1>5, <1>7, <2>2, <3>1 DEF Waiting
    <3>3. ASSUME NEW v \in Worker, wpc[v] = "run", wtask[v].conn = c PROVE wtask[v].n # m
      <4>1. Known(wtask[v], rcvd, texts) /\ wtask[v].n \in Nat
        BY <3>3 DEF EchoInv, TypeOK, Task
      <4> QED BY <1>2, <1>6, <3>3, <4>1 DEF Known
    <3>4. Running(d, n) = {}
      BY <2>2, <3>3 DEF Running
    <3>5. ASSUME NEW i \in 1..Len(queued[c]), queued[c][i].kind = "Data" PROVE queued[c][i].n # m
      BY <1>2, <1>6, <1>15, <3>5
    <3>6. Echoed(d, n) = {}
      BY <2>2, <3>5 DEF Echoed
    <3> QED BY <2>1, <3>2, <3>4, <3>6 DEF OnePlace
  <2>3. CASE ~ (d = c /\ n = m)
    <3>1. n \in texts[d] /\ OnePlace(d, n)
      BY <1>4, <1>17, <2>3 DEF EchoInv
    <3>2. Waiting(d, n)' = Waiting(d, n)
      BY <1>5, <1>7, <2>3 DEF Waiting
    <3> QED BY <2>1, <3>1, <3>2 DEF OnePlace
  <2> QED BY <2>2, <2>3
<1> QED BY <1>1, <1>12, <1>13, <1>14, <1>16, <1>17 DEF EchoInv

(* The oldest task goes from the head of the queue into a worker's hands.   *)
LEMMA EchoTaken ==
  ASSUME TypeOK, EchoInv, NEW w \in Worker, Take(w)
  PROVE  EchoInv'
<1>1. /\ wpc[w] = "idle" /\ tasks # <<>> /\ tasks' = Tail(tasks)
      /\ wtask' = [wtask EXCEPT ![w] = Head(tasks)] /\ wpc' = [wpc EXCEPT ![w] = "run"]
      /\ UNCHANGED <<queued, texts, rcvd, closing>>
  BY DEF Take, connVars, peerVars
<1>2. /\ tasks \in Seq(Task) /\ wpc \in [Worker -> {"idle", "run", "mod", "notify"}]
      /\ wtask \in [Worker -> Task \cup {NoTask}]
  BY DEF TypeOK
<1>3. /\ Len(tasks) \in Nat /\ Len(tasks) > 0 /\ Len(tasks') = Len(tasks) - 1
      /\ \A i \in 1..Len(tasks') : tasks'[i] = tasks[i + 1]
      /\ Head(tasks) = tasks[1]
  BY <1>1, <1>2
<1>4. /\ wtask'[w] = tasks[1] /\ wpc'[w] = "run"
      /\ \A v \in Worker \ {w} : wtask'[v] = wtask[v] /\ wpc'[v] = wpc[v]
  BY <1>1, <1>2, <1>3
<1>5. \A t : Known(t, rcvd', texts') <=> Known(t, rcvd, texts)
  BY <1>1 DEF Known
<1>6. 1 \in 1..Len(tasks) /\ \A i \in 1..Len(tasks') : i + 1 \in 1..Len(tasks)
  BY <1>3
<1>7. \A i \in 1..Len(tasks') : Known(tasks'[i], rcvd', texts')
  BY <1>3, <1>5, <1>6 DEF EchoInv
<1>8. \A v \in Worker : wpc'[v] = "run" => Known(wtask'[v], rcvd', texts')
  BY <1>4, <1>5, <1>6 DEF EchoInv
<1>9. ASSUME NEW d \in Conn, NEW n \in texts[d], ~ closing[d] PROVE OnePlace(d, n)'
  <2>0. OnePlace(d, n) /\ Echoed(d, n)' = Echoed(d, n)
    BY <1>1, <1>9 DEF EchoInv, Echoed
  <2>1. \A i : i \in Waiting(d, n)' <=> i \in Nat /\ i >= 1 /\ i + 1 \in Waiting(d, n)
    BY <1>3 DEF Waiting
  <2>2. \A v \in Worker \ {w} : v \in Running(d, n)' <=> v \in Running(d, n)
    BY <1>4 DEF Running
  <2>3. w \notin Running(d, n) /\ Running(d, n) \subseteq Worker /\ Running(d, n)' \subseteq Worker
    BY <1>1 DEF Running
  <2>4. CASE 1 \in Waiting(d, n)
    <3>1. Waiting(d, n) = {1} /\ Running(d, n) = {} /\ Echoed(d, n) = {}
      BY <2>0, <2>4 DEF OnePlace
    <3>2. Waiting(d, n)' = {}
      BY <2>1, <3>1
    <3>3. w \in Running(d, n)'
      BY <1>4, <2>4 DEF Waiting, Running
    <3>4. Running(d, n)' = {w}
      BY <2>2, <2>3, <3>1, <3>3
    <3> QED BY <2>0, <3>1, <3>2, <3>4 DEF OnePlace
  <2>5. CASE 1 \notin Waiting(d, n)
    <3>1. w \notin Running(d, n)'
      BY <1>4, <1>6, <2>5 DEF Waiting, Running
    <3>2. Running(d, n)' = Running(d, n)
      BY <2>2, <2>3, <3>1
    <3>3. CASE Waiting(d, n) = {}
      BY <2>0, <2>1, <3>2, <3>3 DEF OnePlace
    <3>4. CASE Waiting(d, n) # {}
      <4>1. PICK i : Waiting(d, n) = {i}
        BY <2>0, <3>4 DEF OnePlace
      <4>2. i \in 1..Len(tasks) /\ i # 1
        BY <2>5, <4>1 DEF Waiting
      <4>3. i \in Nat /\ i - 1 \in Nat /\ i - 1 >= 1 /\ (i - 1) + 1 = i
        BY <1>3, <4>2
      <4>4. Waiting(d, n)' = {i - 1}
        BY <2>1, <4>1, <4>3
      <4>5. Running(d, n) = {} /\ Echoed(d, n) = {}
        BY <2>0, <3>4 DEF OnePlace
      <4> QED BY <2>0, <3>2, <4>4, <4>5 DEF OnePlace
    <3> QED BY <3>3, <3>4
  <2> QED BY <2>4, <2>5
<1> QED BY <1>1, <1>7, <1>8, <1>9 DEF EchoInv

(* A task that ends without a reply is of a closing connection, or not that *)
(* of a text frame.                                                         *)
LEMMA EchoDropped ==
  ASSUME TypeOK, EchoInv, NEW w \in Worker, Drop(w)
  PROVE  EchoInv'
<1>1. /\ wpc[w] = "run"
      /\ closing[wtask[w].conn] \/ wtask[w].kind = "Binary"
      /\ wtask' = [wtask EXCEPT ![w] = NoTask] /\ wpc' = [wpc EXCEPT ![w] = "idle"]
      /\ UNCHANGED <<queued, texts, rcvd, closing, tasks>>
  BY DEF Drop, TaskEnds, connVars, peerVars
<1>2. /\ wpc \in [Worker -> {"idle", "run", "mod", "notify"}]
      /\ wtask \in [Worker -> Task \cup {NoTask}]
  BY DEF TypeOK
<1>3. /\ wpc'[w] # "run"
      /\ \A v \in Worker \ {w} : wtask'[v] = wtask[v] /\ wpc'[v] = wpc[v]
  BY <1>1, <1>2
<1>4. \A t : Known(t, rcvd', texts') <=> Known(t, rcvd, texts)
  BY <1>1 DEF Known
<1>5. ASSUME NEW d \in Conn, NEW n \in texts[d], ~ closing[d] PROVE OnePlace(d, n)'
  <2>1. w \notin Running(d, n)
    BY <1>1, <1>5 DEF EchoInv, Known, Running
  <2>2. Running(d, n)' = Running(d, n)
    BY <1>3, <2>1 DEF Running
  <2>3. Waiting(d, n)' = Waiting(d, n) /\ Echoed(d, n)' = Echoed(d, n)
    BY <1>1 DEF Waiting, Echoed
  <2> QED BY <1>5, <2>2, <2>3 DEF EchoInv, OnePlace
<1> QED BY <1>1, <1>3, <1>4, <1>5 DEF EchoInv

(* A worker's push is the echo of the frame in its hands, and of no other.  *)
LEMMA EchoPushed ==
  ASSUME TypeOK, EchoInv, NEW w \in Worker, PushData(w)
  PROVE  EchoInv'
<1> DEFINE c == wtask[w].conn
           m == wtask[w].n
           f == [kind |-> "Data", n |-> m]
<1>1. /\ c \in Conn /\ queued \in [Conn -> Seq(Frame)] /\ wtask[w].kind \in TaskKind
      /\ queued[c] \in Seq(Frame) /\ Len(queued[c]) \in Nat
      /\ wpc[w] = "run" /\ Known(wtask[w], rcvd, texts)
  <2>1. wpc[w] = "run" /\ wtask[w] \in Task /\ Known(wtask[w], rcvd, texts)
    BY DEF PushData, TypeOK, EchoInv
  <2>2. c \in Conn /\ wtask[w].kind \in TaskKind
    BY <2>1 DEF Task
  <2>3. queued \in [Conn -> Seq(Frame)]
    BY DEF TypeOK
  <2> QED BY <2>1, <2>2, <2>3
<1>2. UNCHANGED <<texts, rcvd, closing, tasks, wtask>>
      /\ wpc' = [wpc EXCEPT ![w] = "mod"] /\ wpc \in [Worker -> {"idle", "run", "mod", "notify"}]
  BY DEF PushData, connVars, peerVars, TypeOK
<1>3. \A d \in Conn \ {c} : queued'[d] = queued[d]
  BY <1>1 DEF PushData
<1>4. \/ queued'[c] = Append(queued[c], f)
      \/ wtask[w].kind = "Binary" /\ queued'[c] = Append(Append(queued[c], f), f)
  BY <1>1 DEF PushData
<1>5. f.kind = "Data" /\ f.n = m
  OBVIOUS
<1> HIDE DEF f, c, m
<1>6. \A i \in 1..Len(queued'[c]) :
           (i \in 1..Len(queued[c]) /\ queued'[c][i] = queued[c][i]) \/ queued'[c][i] = f
  <2>1. CASE queued'[c] = Append(queued[c], f)
    BY <1>1, <2>1
  <2>2. CASE queued'[c] = Append(Append(queued[c], f), f)
    BY <1>1, <2>2
  <2> QED BY <1>4, <2>1, <2>2
<1>7. \A i \in 1..Len(queued[c]) : i \in 1..Len(queued'[c]) /\ queued'[c][i] = queued[c][i]
  <2>1. CASE queued'[c] = Append(queued[c], f)
    BY <1>1, <2>1
  <2>2. CASE queued'[c] = Append(Append(queued[c], f), f)
    BY <1>1, <2>2
  <2> QED BY <1>4, <2>1, <2>2
<1>8. /\ wpc'[w] # "run"
      /\ \A v \in Worker \ {w} : wpc'[v] = wpc[v]
  BY <1>2
<1>9. \A t : Known(t, rcvd', texts') <=> Known(t, rcvd, texts)
  BY <1>2 DEF Known
<1>10. \A d \in Conn : \A i \in 1..Len(queued'[d]) :
         queued'[d][i].kind = "Data" => queued'[d][i].n <= rcvd[d]
  <2>1. m <= rcvd[c]
    BY <1>1 DEF Known, c, m
  <2> QED BY <1>3, <1>5, <1>6, <2>1 DEF EchoInv
<1>11. ASSUME NEW d \in Conn, NEW n \in texts[d], ~ closing[d] PROVE OnePlace(d, n)'
  <2>1. OnePlace(d, n) /\ Waiting(d, n)' = Waiting(d, n)
    BY <1>2, <1>11 DEF EchoInv, Waiting
  <2>2. CASE d = c /\ n = m
    <3>1. w \in Running(d, n)
      BY <1>1, <2>2 DEF Running, c, m
    <3>2. Waiting(d, n) = {} /\ Running(d, n) = {w} /\ Echoed(d, n) = {}
      BY <2>1, <3>1 DEF OnePlace
    <3>3. Running(d, n)' = {}
      BY <1>2, <1>8, <3>2 DEF Running
    <3>4. queued'[c] = Append(queued[c], f)
      BY <1>1, <1>4, <1>11, <2>2 DEF Known, c, m
    <3>5. /\ Len(queued'[c]) = Len(queued[c]) + 1
          /\ queued'[c][Len(queued[c]) + 1] = f
          /\ \A i \in 1..Len(queued'[c]) : i \in 1..Len(queued[c]) \/ i = Len(queued[c]) + 1
          /\ Len(queued[c]) + 1 \in 1..Len(queued'[c])
      BY <1>1, <3>4
    <3>6. Echoed(d, n)' = {Len(queued[c]) + 1}
      BY <1>5, <1>7, <2>2, <3>2, <3>5 DEF Echoed
    <3> QED BY <2>1, <3>2, <3>3, <3>6 DEF OnePlace
  <2>3. CASE ~ (d = c /\ n = m)
    <3>1. Running(d, n)' = Running(d, n)
      BY <1>2, <1>8, <2>3 DEF Running, c, m
    <3>2. Echoed(d, n)' = Echoed(d, n)
      <4>1. CASE d # c
        BY <1>3, <4>1 DEF Echoed
      <4>2. CASE d = c /\ n # m
        BY <1>5, <1>6, <1>7, <4>2 DEF Echoed
      <4> QED BY <2>3, <4>1, <4>2
    <3> QED BY <2>1, <3>1, <3>2 DEF OnePlace
  <2> QED BY <2>2, <2>3
<1> QED BY <1>2, <1>8, <1>9, <1>10, <1>11 DEF EchoInv

(* Every step keeps each text frame in one place. *)
LEMMA EchoStep ==
  ASSUME TypeOK, EchoInv, [Next]_vars
  PROVE  EchoInv'
<1> USE DEF connVars, peerVars, poolVars, ioVars
<1>0. /\ closing \in [Conn -> BOOLEAN] /\ rcvd \in [Conn -> 0..MaxInput]
      /\ \A c \in Conn : rcvd[c] \in Nat /\ rcvd[c] <= rcvd[c] /\ rcvd[c] <= rcvd[c] + 1
                          /\ rcvd[c] + 1 \in Nat
  BY DEF TypeOK
<1>1. ASSUME NEW c \in Conn, Accept(c) PROVE EchoInv'
  BY <1>0, <1>1, EchoKept DEF Accept
<1>2. ASSUME NEW c \in Conn, EpollHangUp(c) PROVE EchoInv'
  BY <1>0, <1>2, EchoKept DEF EpollHangUp, closeConnection
<1>3. ASSUME NEW c \in Conn, EarlyFinish(c) PROVE EchoInv'
  BY <1>0, <1>3, EchoKept DEF EarlyFinish, Goto
<1>4. ASSUME NEW c \in Conn, HandshakeDone(c) PROVE EchoInv'
  BY <1>0, <1>4, EchoKept DEF HandshakeDone, Goto
<1>5. ASSUME NEW c \in Conn, Fail(c) PROVE EchoInv'
  BY <1>0, <1>5, EchoKept DEF Fail, closeConnection, EndHandler
<1>6. ASSUME NEW c \in Conn, RecvUpgrade(c) PROVE EchoInv'
  <2>1. /\ rcvd' = [rcvd EXCEPT ![c] = @ + 1] /\ \A d \in Conn : closing[d] => closing'[d]
        /\ UNCHANGED <<queued, tasks, texts, wpc, wtask>>
    BY <1>0, <1>6 DEF RecvUpgrade, Received, NextBuffer
  <2>2. \A d \in Conn : rcvd'[d] \in Nat /\ rcvd[d] <= rcvd'[d]
    BY <1>0, <2>1
  <2> QED BY <2>1, <2>2, EchoKept
<1>7. ASSUME NEW c \in Conn, RecvPing(c) PROVE EchoInv'
  <2>1. /\ rcvd' = [rcvd EXCEPT ![c] = @ + 1] /\ \A d \in Conn : closing[d] => closing'[d]
        /\ UNCHANGED <<queued, tasks, texts, wpc, wtask>>
    BY <1>0, <1>7 DEF RecvPing, Received, NextBuffer
  <2>2. \A d \in Conn : rcvd'[d] \in Nat /\ rcvd[d] <= rcvd'[d]
    BY <1>0, <2>1
  <2> QED BY <2>1, <2>2, EchoKept
<1>8. ASSUME NEW c \in Conn, RecvPong(c) PROVE EchoInv'
  <2>1. /\ rcvd' = [rcvd EXCEPT ![c] = @ + 1] /\ \A d \in Conn : closing[d] => closing'[d]
        /\ UNCHANGED <<queued, tasks, texts, wpc, wtask>>
    BY <1>0, <1>8 DEF RecvPong, Received, NextBuffer
  <2>2. \A d \in Conn : rcvd'[d] \in Nat /\ rcvd[d] <= rcvd'[d]
    BY <1>0, <2>1
  <2> QED BY <2>1, <2>2, EchoKept
<1>9. ASSUME NEW c \in Conn, RecvClose(c) PROVE EchoInv'
  <2>1. /\ rcvd' = [rcvd EXCEPT ![c] = @ + 1] /\ \A d \in Conn : closing[d] => closing'[d]
        /\ UNCHANGED <<queued, tasks, texts, wpc, wtask>>
    BY <1>0, <1>9 DEF RecvClose, Received, NextBuffer
  <2>2. \A d \in Conn : rcvd'[d] \in Nat /\ rcvd[d] <= rcvd'[d]
    BY <1>0, <2>1
  <2> QED BY <2>1, <2>2, EchoKept
<1>10. ASSUME NEW c \in Conn, SkipOut(c) PROVE EchoInv'
  BY <1>0, <1>10, EchoKept DEF SkipOut, EndHandler
<1>11. ASSUME NEW c \in Conn, CloseDrained(c) PROVE EchoInv'
  BY <1>0, <1>11, EchoKept DEF CloseDrained, closeConnection, EndHandler
<1>12. ASSUME NEW c \in Conn, Reap(c) PROVE EchoInv'
  BY <1>0, <1>12, EchoKept DEF Reap, closeConnection
<1>13. ASSUME NEW c \in Conn, PeerReads(c) PROVE EchoInv'
  BY <1>0, <1>13, EchoKept DEF PeerReads
<1>14. ASSUME NEW c \in Conn, PeerLeaves(c) PROVE EchoInv'
  BY <1>0, <1>14, EchoKept DEF PeerLeaves
<1>15. ASSUME NEW c \in Conn, HandshakeRetry(c) PROVE EchoInv'
  BY <1>0, <1>15, EchoKept DEF HandshakeRetry, EndHandler
<1>16. ASSUME NEW c \in Conn, FirstFlush(c) PROVE EchoInv'
  BY <1>0, <1>16, EchoKept DEF FirstFlush, Goto
<1>17. ASSUME NEW c \in Conn, FlushReply(c) PROVE EchoInv'
  BY <1>0, <1>17, EchoKept DEF FlushReply, NextBuffer
<1>18. ASSUME NEW c \in Conn, FlushOut(c) PROVE EchoInv'
  BY <1>0, <1>18, EchoKept DEF FlushOut, Goto, EndHandler
<1>19. ASSUME NEW c \in Conn, Sweep(c) PROVE EchoInv'
  BY <1>0, <1>19, EchoKept DEF Sweep
<1>20. ASSUME NEW c \in Conn, PushReply(c) PROVE EchoInv'
  <2>1. reply \in FrameKind \ {"Data"}
    BY <1>20 DEF PushReply, TypeOK, FrameKind
  <2> QED BY <1>20, <2>1, EchoControl DEF PushReply
<1>21. ASSUME NEW c \in Conn, TimerPing(c) PROVE EchoInv'
  <2>1. "Ping" \in FrameKind \ {"Data"}
    BY DEF FrameKind
  <2> QED BY <1>21, <2>1, EchoControl DEF TimerPing
<1>22. ASSUME NEW c \in Conn, NEW b \in BOOLEAN, HandshakeWants(c, b) PROVE EchoInv'
  BY <1>0, <1>22, EchoKept DEF HandshakeWants, Goto
<1>23. ASSUME NEW c \in Conn, NEW b \in BOOLEAN, ReadWants(c, b) PROVE EchoInv'
  BY <1>0, <1>23, EchoKept DEF ReadWants, Goto
<1>24. ASSUME NEW c \in Conn, NEW b \in BOOLEAN, EpollConn(c, b) PROVE EchoInv'
  BY <1>0, <1>24, EchoKept DEF EpollConn
<1>25. ASSUME NEW c \in Conn, NEW k \in TaskKind, RecvData(c, k) PROVE EchoInv'
  BY <1>25, EchoSubmitted
<1>26. ASSUME TimerSweep PROVE EchoInv'
  BY <1>0, <1>26, EchoKept DEF TimerSweep
<1>27. ASSUME SweepEnd PROVE EchoInv'
  BY <1>0, <1>27, EchoKept DEF SweepEnd
<1>28. ASSUME WakeEvent PROVE EchoInv'
  BY <1>0, <1>28, EchoKept DEF WakeEvent
<1>29. ASSUME TimerTick PROVE EchoInv'
  BY <1>0, <1>29, EchoKept DEF TimerTick
<1>30. ASSUME NEW w \in Worker, Take(w) PROVE EchoInv'
  BY <1>30, EchoTaken
<1>31. ASSUME NEW w \in Worker, Drop(w) PROVE EchoInv'
  BY <1>31, EchoDropped
<1>32. ASSUME NEW w \in Worker, WorkerMod(w) PROVE EchoInv'
  <2>1. /\ UNCHANGED <<queued, tasks, texts, rcvd, closing, wtask>>
        /\ wpc[w] = "mod" /\ wpc' = [wpc EXCEPT ![w] = "notify"]
        /\ wpc \in [Worker -> {"idle", "run", "mod", "notify"}]
    BY <1>32 DEF WorkerMod, TypeOK
  <2>2. \A v \in Worker : wpc'[v] = "run" <=> wpc[v] = "run"
    BY <2>1
  <2> QED BY <1>0, <2>1, <2>2, EchoKept
<1>33. ASSUME NEW w \in Worker, Notify(w) PROVE EchoInv'
  <2>1. /\ UNCHANGED <<queued, tasks, texts, rcvd, closing>>
        /\ wpc[w] = "notify" /\ wpc' = [wpc EXCEPT ![w] = "idle"]
        /\ wtask' = [wtask EXCEPT ![w] = NoTask]
        /\ wpc \in [Worker -> {"idle", "run", "mod", "notify"}]
        /\ wtask \in [Worker -> Task \cup {NoTask}]
    BY <1>33 DEF Notify, TaskEnds, TypeOK
  <2>2. \A v \in Worker : /\ wpc'[v] = "run" <=> wpc[v] = "run"
                         /\ wpc[v] = "run" => wtask'[v] = wtask[v]
    BY <2>1
  <2> QED BY <1>0, <2>1, <2>2, EchoKept
<1>34. ASSUME NEW w \in Worker, PushData(w) PROVE EchoInv'
  BY <1>34, EchoPushed
<1>35. CASE UNCHANGED vars
  BY <1>0, <1>35, EchoKept DEF vars
<1>36. ASSUME NEW c \in Conn, Handler(c) PROVE EchoInv'
  BY <1>36, <1>3, <1>4, <1>5, <1>6, <1>7, <1>8, <1>9, <1>10, <1>11, <1>12, <1>15, <1>16, <1>17,
     <1>18, <1>19, <1>20, <1>21, <1>22, <1>23, <1>25 DEF Handler
<1>37. ASSUME NEW w \in Worker, WorkerStep(w) PROVE EchoInv'
  BY <1>37, <1>30, <1>31, <1>32, <1>33, <1>34 DEF WorkerStep
<1>38. ASSUME EpollWait PROVE EchoInv'
  BY <1>38, <1>1, <1>2, <1>24, <1>28, <1>29 DEF EpollWait
<1> QED
  BY <1>13, <1>14, <1>26, <1>27, <1>35, <1>36, <1>37, <1>38 DEF Next, IOStep

(* Whatever the connections, workers and frames: on a connection that is    *)
(* not closing every text frame accepted is in one place and once there.    *)
THEOREM EchoCorrect == Spec => []EchoExactlyOnce
<1>1. ASSUME Init PROVE EchoInv
  BY <1>1 DEF Init, EchoInv
<1>2. TypeOK /\ EchoInv /\ [Next]_vars => EchoInv'
  BY EchoStep
<1>3. TypeOK /\ EchoInv => EchoExactlyOnce
  <2> SUFFICES ASSUME TypeOK, EchoInv, NEW c \in Conn, ~ closing[c], NEW n \in texts[c]
               PROVE  Cardinality(Waiting(c, n)) + Cardinality(Running(c, n))
                      + Cardinality({i \in 1..Len(queued[c]) : queued[c][i] = [kind |-> "Data", n |-> n]}) = 1
    BY DEF EchoExactlyOnce, Waiting, Running
  <2> DEFINE W == Cardinality(Waiting(c, n))
             R == Cardinality(Running(c, n))
             S == {i \in 1..Len(queued[c]) : queued[c][i] = [kind |-> "Data", n |-> n]}
             E == Cardinality(S)
  <2>1. \A i \in 1..Len(queued[c]) :
          queued[c][i] = [kind |-> "Data", n |-> n] <=> queued[c][i].kind = "Data" /\ queued[c][i].n = n
    <3>1. queued[c] \in Seq(Frame)
      BY DEF TypeOK
    <3>2. \A i \in 1..Len(queued[c]) : queued[c][i] \in Frame
      BY <3>1
    <3> QED BY <3>2 DEF Frame
  <2>2. S = Echoed(c, n)
    BY <2>1 DEF Echoed
  <2>3. OnePlace(c, n)
    BY DEF EchoInv
  <2>4. Cardinality({}) = 0 /\ \A x : Cardinality({x}) = 1
    BY FS_EmptySet, FS_Singleton
  <2>5. \/ W = 1 /\ R = 0 /\ E = 0
        \/ W = 0 /\ R = 1 /\ E = 0
        \/ W = 0 /\ R = 0 /\ E = 1
    BY <2>2, <2>3, <2>4 DEF OnePlace
  <2> HIDE DEF W, R, E
  <2>6. W + R + E = 1
    BY <2>5
  <2> QED BY <2>6 DEF W, R, E
<1> QED BY <1>1, <1>2, <1>3, TypeCorrect, PTL DEF Spec
=============================================================================
