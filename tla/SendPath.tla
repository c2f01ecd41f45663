------------------------------ MODULE SendPath ------------------------------
(***************************************************************************)
(* How a frame gets from the server's threads to a client's socket: the    *)
(* outbound queue of every Connection, filled by the IO thread and by the  *)
(* pool's workers, emptied by flushOutbound on the IO thread alone, and    *)
(* the two signals (EPOLLOUT interest, the eventfd) that make the IO       *)
(* thread look at it again (src/src/server/WssServer.cpp).                 *)
(*                                                                         *)
(* A step is what one thread does between two points where another thread  *)
(* can observe it: a critical section of outbound_mu, an epoll_ctl or an   *)
(* eventfd write of a worker, one OpenSSL call of the IO thread.  The IO   *)
(* thread takes one event per epoll_wait.  Descriptor numbers, timestamps  *)
(* and bytes are abstracted: an inbound buffer holds one frame (a parse    *)
(* error discards its whole buffer and Close drops the rest of it, so a    *)
(* longer buffer behaves like one that ends there), and the timer's        *)
(* comparisons of timestamps are free choices.                             *)
(***************************************************************************)
EXTENDS Integers, Sequences, FiniteSets

CONSTANTS
  Conn,        \* Connection objects, each accepted at most once
  Worker,      \* threads of the pool
  NoConn,      \* "no connection": the IO thread serves none, a worker is idle
  EarlyData,   \* SSL_CTX_get_max_early_data(ctx) # 0
  MaxInput,    \* bound: frames a client sends on one connection
  MaxPings     \* bound: Pings the timer queues on one connection

ASSUME SendPathAssumption ==
  /\ NoConn \notin Conn
  /\ EarlyData \in BOOLEAN
  /\ MaxInput \in Nat
  /\ MaxPings \in Nat

VARIABLES
  conn,      \* "new", "open" (in conns, fd >= 0) or "closed" (closeConnection ran)
  tls,       \* "early" (SSL_read_early_data), "accept" (SSL_accept) or "done" (tls_done)
  upgraded,  \* ws_upgraded
  closing,   \* closing
  queued,    \* every frame ever pushed on outbound, oldest first
  sent,      \* how many of them SSL_write has taken: outbound is the rest
  epollout,  \* EPOLLOUT interest: "off", "on", or "ready" when epoll_wait will report it
  full,      \* the socket's send buffer is full: SSL_write answers WANT_WRITE
  gone,      \* the peer has reset or closed the TCP connection
  rcvd,      \* frames received on the connection so far
  texts,     \* history: which of them were text frames handed to the pool
  pings,     \* Pings the timer has queued
  wake,      \* the eventfd's counter is not zero
  tasks,     \* the pool's FIFO of submitted tasks
  wpc,       \* a worker's place: "idle", "run", "mod" or "notify"
  wtask,     \* the task a worker executes
  pc,        \* the IO thread's place in its event loop
  cur,       \* the connection whose event it handles
  evIn,      \* that event has EPOLLIN
  evOut,     \* that event has EPOLLOUT
  reply,     \* the kind of frame it is about to push
  todo,      \* connections its current loop over conns has still to visit
  idle       \* toClose: connections the timer found idle

connVars == <<conn, tls, upgraded, closing>>
peerVars == <<gone, rcvd, texts, pings>>
poolVars == <<tasks, wpc, wtask>>
ioVars   == <<cur, evIn, evOut, reply, todo, idle>>
vars == <<conn, tls, upgraded, closing, queued, sent, epollout, full, gone, rcvd, texts,
          pings, wake, tasks, wpc, wtask, pc, cur, evIn, evOut, reply, todo, idle>>

-----------------------------------------------------------------------------
FrameKind == {"101", "Pong", "Close", "Ping", "Data"}
Frame == [kind : FrameKind, n : 0..MaxInput]   \* n: the inbound frame it answers
TaskKind == {"Text", "Binary"}
Task == [conn : Conn, kind : TaskKind, n : 1..MaxInput]
NoTask == [conn |-> NoConn, kind |-> "none", n |-> 0]

Pending(c) == sent[c] < Len(queued[c])         \* ~ outbound.empty()

(* outbound.push_back under outbound_mu. *)
Pushed(c, k, n) == queued' = [queued EXCEPT ![c] = Append(@, [kind |-> k, n |-> n])]

(* EPOLL_CTL_MOD: re-arms the edge, so a writable socket is reported again. *)
updateInterest(c, wantWrite) ==
  epollout' = [epollout EXCEPT ![c] = IF ~ wantWrite THEN "off"
                                      ELSE IF full[c] THEN "on" ELSE "ready"]

(* Variant of flushOutbound that forgets to ask for EPOLLOUT on WANT_WRITE. *)
flushOutboundNoRearm(c) ==
  \E k \in 0..(Len(queued[c]) - sent[c]) :
    /\ full[c] => k = 0
    /\ sent' = [sent EXCEPT ![c] = @ + k]
    /\ updateInterest(c, FALSE)
    /\ full' = [full EXCEPT ![c] = k < Len(queued[c]) - sent[c]]

(* Variant that pops an item twice once it is sent. *)
flushOutboundPopsTwice(c) ==
  /\ Pending(c)
  /\ sent' = [sent EXCEPT ![c] = @ + 2]
  /\ updateInterest(c, FALSE) /\ UNCHANGED full

(* The whole of flushOutbound, which holds outbound_mu from its first read  *)
(* of the queue to its last epoll_ctl.  Four ways out: drained (EPOLLOUT    *)
(* off), WANT_WRITE (EPOLLOUT on), WANT_READ, which SSL_write answers only  *)
(* while the handshake is unfinished, and a fatal error, which leaves the   *)
(* interest and the rest of the queue as they are.                          *)
flushOutbound(c) ==
  \E k \in 0..(Len(queued[c]) - sent[c]) :
    /\ full[c] => k = 0
    /\ sent' = [sent EXCEPT ![c] = @ + k]
    /\ \/ /\ k = Len(queued[c]) - sent[c]
          /\ updateInterest(c, FALSE) /\ UNCHANGED full
       \/ /\ k < Len(queued[c]) - sent[c]
          /\ full' = [full EXCEPT ![c] = TRUE]
          /\ epollout' = [epollout EXCEPT ![c] = "on"]
       \/ /\ k < Len(queued[c]) - sent[c] /\ tls[c] # "done"
          /\ updateInterest(c, FALSE) /\ UNCHANGED full
       \/ /\ k < Len(queued[c]) - sent[c] /\ gone[c]
          /\ UNCHANGED <<epollout, full>>

(* closeConnection: closing under the lock, out of conns and of epoll, fd closed. *)
closeConnection(c) ==
  /\ conn' = [conn EXCEPT ![c] = "closed"]
  /\ closing' = [closing EXCEPT ![c] = TRUE]
  /\ epollout' = [epollout EXCEPT ![c] = "off"]
  /\ UNCHANGED <<tls, upgraded>>

(* The handler returns to epoll_wait; its locals are gone. *)
EndHandler ==
  /\ pc' = "wait" /\ cur' = NoConn
  /\ evIn' = FALSE /\ evOut' = FALSE /\ reply' = "none"
  /\ UNCHANGED <<todo, idle>>
Goto(l) == pc' = l /\ UNCHANGED ioVars

-----------------------------------------------------------------------------
HandlerPC == {"early", "accept", "retry", "first", "read", "push", "flush", "out", "drained"}

TypeOK ==
  /\ conn \in [Conn -> {"new", "open", "closed"}]
  /\ tls \in [Conn -> {"early", "accept", "done"}]
  /\ upgraded \in [Conn -> BOOLEAN]
  /\ closing \in [Conn -> BOOLEAN]
  /\ queued \in [Conn -> Seq(Frame)]
  /\ sent \in [Conn -> Nat]
  /\ \A c \in Conn : sent[c] <= Len(queued[c])
  /\ epollout \in [Conn -> {"off", "on", "ready"}]
  /\ full \in [Conn -> BOOLEAN]
  /\ gone \in [Conn -> BOOLEAN]
  /\ rcvd \in [Conn -> 0..MaxInput]
  /\ texts \in [Conn -> SUBSET (1..MaxInput)]
  /\ pings \in [Conn -> Nat]
  /\ wake \in BOOLEAN
  /\ tasks \in Seq(Task)
  /\ wpc \in [Worker -> {"idle", "run", "mod", "notify"}]
  /\ wtask \in [Worker -> Task \cup {NoTask}]
  /\ \A w \in Worker : wpc[w] # "idle" => wtask[w] \in Task
  /\ pc \in HandlerPC \cup {"wait", "ping", "sweep", "reap"}
  /\ cur \in Conn \cup {NoConn}
  /\ pc \in HandlerPC => cur \in Conn
  /\ evIn \in BOOLEAN
  /\ evOut \in BOOLEAN
  /\ reply \in {"none", "101", "Pong", "Close"}
  /\ pc = "push" => reply # "none"
  /\ todo \in SUBSET Conn
  /\ idle \in SUBSET Conn

Init ==
  /\ conn = [c \in Conn |-> "new"]
  /\ tls = [c \in Conn |-> IF EarlyData THEN "early" ELSE "accept"]
  /\ upgraded = [c \in Conn |-> FALSE]
  /\ closing = [c \in Conn |-> FALSE]
  /\ queued = [c \in Conn |-> <<>>]
  /\ sent = [c \in Conn |-> 0]
  /\ epollout = [c \in Conn |-> "off"]
  /\ full = [c \in Conn |-> FALSE]
  /\ gone = [c \in Conn |-> FALSE]
  /\ rcvd = [c \in Conn |-> 0]
  /\ texts = [c \in Conn |-> {}]
  /\ pings = [c \in Conn |-> 0]
  /\ wake = FALSE
  /\ tasks = <<>>
  /\ wpc = [w \in Worker |-> "idle"]
  /\ wtask = [w \in Worker |-> NoTask]
  /\ pc = "wait" /\ cur = NoConn /\ evIn = FALSE /\ evOut = FALSE
  /\ reply = "none" /\ todo = {} /\ idle = {}

-----------------------------------------------------------------------------
(* accept(): a fresh Connection, registered for EPOLLIN only. *)
Accept(c) ==
  /\ pc = "wait" /\ conn[c] = "new"
  /\ conn' = [conn EXCEPT ![c] = "open"]
  /\ UNCHANGED <<tls, upgraded, closing, queued, sent, epollout, full, peerVars, wake,
                 poolVars, pc, ioVars>>

(* epoll_wait reports c.  The report is the socket's whole state: EPOLLOUT  *)
(* is in it whenever it is of interest and the socket writable, even if    *)
(* something else woke the loop; an edge is reported once.                  *)
EpollConn(c, in) ==
  /\ pc = "wait" /\ conn[c] = "open"
  /\ in \/ epollout[c] = "ready"
  /\ cur' = c /\ evIn' = in
  /\ evOut' = (epollout[c] # "off" /\ ~ full[c])
  /\ epollout' = [epollout EXCEPT ![c] = IF @ = "ready" THEN "on" ELSE @]
  /\ pc' = IF tls[c] # "done" THEN tls[c] ELSE IF in THEN "read" ELSE "out"
  /\ UNCHANGED <<connVars, queued, sent, full, peerVars, wake, poolVars, reply, todo, idle>>

(* EPOLLERR, or a hang-up with nothing to read. *)
EpollHangUp(c) ==
  /\ pc = "wait" /\ conn[c] = "open" /\ gone[c]
  /\ closeConnection(c)
  /\ UNCHANGED <<queued, sent, full, peerVars, wake, poolVars, pc, ioVars>>

-----------------------------------------------------------------------------
(* The handshake: driveTlsEarlyRead, then driveTlsAccept. *)
EarlyFinish(c) ==                                  \* SSL_READ_EARLY_DATA_FINISH
  /\ pc = "early" /\ cur = c
  /\ tls' = [tls EXCEPT ![c] = "accept"]
  /\ Goto("accept")
  /\ UNCHANGED <<conn, upgraded, closing, queued, sent, epollout, full, peerVars, wake, poolVars>>

HandshakeWants(c, write) ==                        \* WANT_READ or WANT_WRITE
  /\ pc \in {"early", "accept"} /\ cur = c
  /\ full' = [full EXCEPT ![c] = @ \/ write]
  /\ epollout' = [epollout EXCEPT ![c] = IF write THEN "on" ELSE "off"]
  /\ Goto("retry")
  /\ UNCHANGED <<connVars, queued, sent, peerVars, wake, poolVars>>

(* adv == 0: the event had EPOLLOUT, so the queue is flushed all the same. *)
HandshakeRetry(c) ==
  /\ pc = "retry" /\ cur = c
  /\ IF evOut THEN flushOutbound(c) ELSE UNCHANGED <<sent, epollout, full>>
  /\ EndHandler
  /\ UNCHANGED <<connVars, queued, peerVars, wake, poolVars>>

HandshakeDone(c) ==                                \* SSL_accept = 1
  /\ pc = "accept" /\ cur = c
  /\ tls' = [tls EXCEPT ![c] = "done"]
  /\ updateInterest(c, FALSE)
  /\ Goto("first")
  /\ UNCHANGED <<conn, upgraded, closing, queued, sent, full, peerVars, wake, poolVars>>

FirstFlushForgotten(c) ==                          \* variant: nothing flushed here
  /\ pc = "first" /\ cur = c
  /\ Goto(IF evIn THEN "read" ELSE "out")
  /\ UNCHANGED <<connVars, queued, sent, epollout, full, peerVars, wake, poolVars>>

FirstFlush(c) ==                                   \* adv == 1
  /\ pc = "first" /\ cur = c
  /\ flushOutbound(c)
  /\ Goto(IF evIn THEN "read" ELSE "out")
  /\ UNCHANGED <<connVars, queued, peerVars, wake, poolVars>>

(* A failed handshake, a parse error, SSL_read returning 0 or an error. *)
Fail(c) ==
  /\ pc \in {"early", "accept", "read"} /\ cur = c
  /\ closeConnection(c)
  /\ EndHandler
  /\ UNCHANGED <<queued, sent, full, peerVars, wake, poolVars>>

-----------------------------------------------------------------------------
(* processWsInboundBuffer, from the early-data loop or from the SSL_read loop. *)
Reading(c) == pc \in {"early", "read"} /\ cur = c /\ rcvd[c] < MaxInput

Received(c) == rcvd' = [rcvd EXCEPT ![c] = @ + 1] /\ UNCHANGED <<gone, texts, pings>>

(* Back in the loop that read the buffer, or out of it once c is closing.   *)
NextBuffer(c) ==
  /\ tls' = [tls EXCEPT ![c] = IF @ = "early" /\ closing[c] THEN "accept" ELSE @]
  /\ pc' = CASE tls[c] = "early" /\ ~ closing[c] -> "early"
             [] tls[c] = "early" /\ closing[c]   -> "accept"
             [] tls[c] # "early" /\ ~ closing[c] -> "read"
             [] tls[c] # "early" /\ closing[c]   -> "out"
  /\ UNCHANGED <<conn, upgraded, closing>>

Answer(k) == pc' = "push" /\ reply' = k /\ UNCHANGED <<cur, evIn, evOut, todo, idle>>

RecvUpgrade(c) ==
  /\ Reading(c) /\ ~ upgraded[c] /\ Received(c)
  /\ upgraded' = [upgraded EXCEPT ![c] = TRUE]
  /\ Answer("101")
  /\ UNCHANGED <<conn, tls, closing, queued, sent, epollout, full, wake, poolVars>>

RecvPing(c) ==
  /\ Reading(c) /\ upgraded[c] /\ Received(c)
  /\ Answer("Pong")
  /\ UNCHANGED <<connVars, queued, sent, epollout, full, wake, poolVars>>

RecvPong(c) ==
  /\ Reading(c) /\ upgraded[c] /\ Received(c)
  /\ NextBuffer(c)
  /\ UNCHANGED <<queued, sent, epollout, full, wake, poolVars, ioVars>>

(* closing is set before the Close frame is queued, outside outbound_mu. *)
RecvClose(c) ==
  /\ Reading(c) /\ upgraded[c] /\ Received(c)
  /\ closing' = [closing EXCEPT ![c] = TRUE]
  /\ Answer("Close")
  /\ UNCHANGED <<conn, tls, upgraded, queued, sent, epollout, full, wake, poolVars>>

RecvData(c, k) ==                                  \* pool.submit
  /\ Reading(c) /\ upgraded[c]
  /\ rcvd' = [rcvd EXCEPT ![c] = @ + 1]
  /\ texts' = [texts EXCEPT ![c] = @ \cup {n \in {rcvd[c] + 1} : k = "Text"}]
  /\ UNCHANGED <<gone, pings>>
  /\ tasks' = Append(tasks, [conn |-> c, kind |-> k, n |-> rcvd[c] + 1])
  /\ NextBuffer(c)
  /\ UNCHANGED <<queued, sent, epollout, full, wake, wpc, wtask, ioVars>>

PushReply(c) ==
  /\ pc = "push" /\ cur = c
  /\ Pushed(c, reply, rcvd[c])
  /\ updateInterest(c, TRUE)
  /\ Goto("flush")
  /\ UNCHANGED <<connVars, sent, full, peerVars, wake, poolVars>>

(* if (c->tls_done) flushOutbound, then on with the buffer. *)
FlushReply(c) ==
  /\ pc = "flush" /\ cur = c
  /\ IF tls[c] = "done" THEN flushOutbound(c) ELSE UNCHANGED <<sent, epollout, full>>
  /\ NextBuffer(c)
  /\ UNCHANGED <<queued, peerVars, wake, poolVars, ioVars>>

-----------------------------------------------------------------------------
(* The end of the SSL_read loop, and the EPOLLOUT part of the handler. *)
ReadWants(c, write) ==                             \* WANT_READ or WANT_WRITE
  /\ pc = "read" /\ cur = c
  /\ write => full[c]
  /\ IF write THEN updateInterest(c, TRUE) ELSE UNCHANGED epollout
  /\ Goto("out")
  /\ UNCHANGED <<connVars, queued, sent, full, peerVars, wake, poolVars>>

SkipOut(c) ==
  /\ pc = "out" /\ cur = c /\ ~ evOut
  /\ EndHandler
  /\ UNCHANGED <<connVars, queued, sent, epollout, full, peerVars, wake, poolVars>>

FlushOut(c) ==
  /\ pc = "out" /\ cur = c /\ evOut
  /\ flushOutbound(c)
  /\ IF closing[c] /\ sent'[c] = Len(queued[c]) THEN Goto("drained") ELSE EndHandler
  /\ UNCHANGED <<connVars, queued, peerVars, wake, poolVars>>

CloseDrained(c) ==
  /\ pc = "drained" /\ cur = c
  /\ closeConnection(c)
  /\ EndHandler
  /\ UNCHANGED <<queued, sent, full, peerVars, wake, poolVars>>

-----------------------------------------------------------------------------
(* The eventfd and the timer: loops over every connection. *)
Flushable == {c \in Conn : conn[c] = "open" /\ tls[c] = "done" /\ ~ closing[c]}

WakeEvent ==
  /\ pc = "wait" /\ wake
  /\ wake' = FALSE
  /\ pc' = "sweep" /\ todo' = Flushable
  /\ UNCHANGED <<connVars, queued, sent, epollout, full, peerVars, poolVars,
                 cur, evIn, evOut, reply, idle>>

(* Variant of TimerTick that does not look at ws_upgraded. *)
TimerTickAnyPhase ==
  /\ pc = "wait"
  /\ \E due \in SUBSET {c \in Flushable : pings[c] < MaxPings} :
       /\ todo' = due
       /\ idle' \in SUBSET ({c \in Conn : conn[c] = "open"} \ due)
  /\ pc' = "ping"
  /\ UNCHANGED <<connVars, queued, sent, epollout, full, peerVars, wake, poolVars,
                 cur, evIn, evOut, reply>>

(* due: the ping interval has passed; late: last_ping is too old, which it   *)
(* is not on a connection just pinged.                                      *)
TimerTick ==
  /\ pc = "wait"
  /\ \E due \in SUBSET {c \in Flushable : upgraded[c] /\ pings[c] < MaxPings} :
       /\ todo' = due
       /\ idle' \in SUBSET ({c \in Conn : conn[c] = "open"} \ due)
  /\ pc' = "ping"
  /\ UNCHANGED <<connVars, queued, sent, epollout, full, peerVars, wake, poolVars,
                 cur, evIn, evOut, reply>>

TimerPing(c) ==
  /\ pc = "ping" /\ c \in todo
  /\ Pushed(c, "Ping", 0)
  /\ pings' = [pings EXCEPT ![c] = @ + 1]
  /\ updateInterest(c, TRUE)
  /\ todo' = todo \ {c}
  /\ UNCHANGED <<connVars, sent, full, gone, rcvd, texts, wake, poolVars, pc, cur, evIn,
                 evOut, reply, idle>>

TimerSweep ==
  /\ pc = "ping" /\ todo = {}
  /\ pc' = "sweep" /\ todo' = Flushable
  /\ UNCHANGED <<connVars, queued, sent, epollout, full, peerVars, wake, poolVars,
                 cur, evIn, evOut, reply, idle>>

Sweep(c) ==
  /\ pc = "sweep" /\ c \in todo
  /\ flushOutbound(c)
  /\ todo' = todo \ {c}
  /\ UNCHANGED <<connVars, queued, peerVars, wake, poolVars, pc, cur, evIn, evOut, reply, idle>>

SweepEnd ==
  /\ pc = "sweep" /\ todo = {}
  /\ pc' = IF idle = {} THEN "wait" ELSE "reap"
  /\ UNCHANGED <<connVars, queued, sent, epollout, full, peerVars, wake, poolVars, ioVars>>

Reap(c) ==
  /\ pc = "reap" /\ c \in idle
  /\ closeConnection(c)
  /\ idle' = idle \ {c}
  /\ pc' = IF idle = {c} THEN "wait" ELSE "reap"
  /\ UNCHANGED <<queued, sent, full, peerVars, wake, poolVars, cur, evIn, evOut, reply, todo>>

-----------------------------------------------------------------------------
(* Variant of Take that leaves the task it takes in the queue. *)
TakeCopies(w) ==
  /\ wpc[w] = "idle" /\ tasks # <<>>
  /\ wtask' = [wtask EXCEPT ![w] = Head(tasks)]
  /\ wpc' = [wpc EXCEPT ![w] = "run"]
  /\ UNCHANGED <<tasks, connVars, queued, sent, epollout, full, peerVars, wake, pc, ioVars>>

(* A worker: take the oldest task, build the reply, queue it, signal. *)
Take(w) ==
  /\ wpc[w] = "idle" /\ tasks # <<>>
  /\ wtask' = [wtask EXCEPT ![w] = Head(tasks)]
  /\ tasks' = Tail(tasks)
  /\ wpc' = [wpc EXCEPT ![w] = "run"]
  /\ UNCHANGED <<connVars, queued, sent, epollout, full, peerVars, wake, pc, ioVars>>

TaskEnds(w) ==
  /\ wpc' = [wpc EXCEPT ![w] = "idle"]
  /\ wtask' = [wtask EXCEPT ![w] = NoTask]

(* No reply: weak.lock() failed, the connection is closing, or the file     *)
(* manager answered nothing.                                                *)
Drop(w) ==
  /\ wpc[w] = "run"
  /\ closing[wtask[w].conn] \/ wtask[w].kind = "Binary"
  /\ TaskEnds(w)
  /\ UNCHANGED <<connVars, queued, sent, epollout, full, peerVars, wake, tasks, pc, ioVars>>

(* Variant of PushData that does not look at `closing`.               *)
PushDataUnchecked(w) ==
  LET c == wtask[w].conn
      f == [kind |-> "Data", n |-> wtask[w].n]
  IN /\ wpc[w] = "run"
     /\ queued' = [queued EXCEPT ![c] = Append(@, f)]
     /\ wpc' = [wpc EXCEPT ![w] = "mod"]
     /\ UNCHANGED <<connVars, sent, epollout, full, peerVars, wake, tasks, wtask, pc, ioVars>>

(* One echo, or the file manager's one or two replies, in one critical section. *)
PushData(w) ==
  LET c == wtask[w].conn
      f == [kind |-> "Data", n |-> wtask[w].n]
  IN /\ wpc[w] = "run" /\ ~ closing[c]
     /\ \/ queued' = [queued EXCEPT ![c] = Append(@, f)]
        \/ wtask[w].kind = "Binary" /\ queued' = [queued EXCEPT ![c] = Append(Append(@, f), f)]
     /\ wpc' = [wpc EXCEPT ![w] = "mod"]
     /\ UNCHANGED <<connVars, sent, epollout, full, peerVars, wake, tasks, wtask, pc, ioVars>>

(* updateInterest(conn->fd, true) after the lock is released. *)
WorkerMod(w) ==
  LET c == wtask[w].conn
  IN /\ wpc[w] = "mod"
     /\ IF conn[c] = "open" THEN updateInterest(c, TRUE) ELSE UNCHANGED epollout
     /\ wpc' = [wpc EXCEPT ![w] = "notify"]
     /\ UNCHANGED <<connVars, queued, sent, full, peerVars, wake, tasks, wtask, pc, ioVars>>

Notify(w) ==
  /\ wpc[w] = "notify"
  /\ wake' = TRUE
  /\ TaskEnds(w)
  /\ UNCHANGED <<connVars, queued, sent, epollout, full, peerVars, tasks, pc, ioVars>>

-----------------------------------------------------------------------------
(* The peer: it reads what fills the socket, or it leaves. *)
PeerReads(c) ==
  /\ full[c] /\ ~ gone[c]
  /\ full' = [full EXCEPT ![c] = FALSE]
  /\ epollout' = [epollout EXCEPT ![c] = IF @ = "on" THEN "ready" ELSE @]
  /\ UNCHANGED <<connVars, queued, sent, peerVars, wake, poolVars, pc, ioVars>>

PeerLeaves(c) ==
  /\ conn[c] = "open" /\ ~ gone[c]
  /\ gone' = [gone EXCEPT ![c] = TRUE]
  /\ UNCHANGED <<connVars, queued, sent, epollout, full, rcvd, texts, pings, wake, poolVars,
                 pc, ioVars>>

-----------------------------------------------------------------------------
(* What the IO thread does on its own once an event is in its hands. *)
Handler(c) ==
  \/ EarlyFinish(c) \/ HandshakeRetry(c) \/ HandshakeDone(c) \/ FirstFlush(c) \/ Fail(c)
  \/ \E write \in BOOLEAN : HandshakeWants(c, write) \/ ReadWants(c, write)
  \/ RecvUpgrade(c) \/ RecvPing(c) \/ RecvPong(c) \/ RecvClose(c)
  \/ \E k \in TaskKind : RecvData(c, k)
  \/ PushReply(c) \/ FlushReply(c) \/ SkipOut(c) \/ FlushOut(c) \/ CloseDrained(c)
  \/ TimerPing(c) \/ Sweep(c) \/ Reap(c)

IOStep == TimerSweep \/ SweepEnd \/ \E c \in Conn : Handler(c)

EpollWait ==
  \/ WakeEvent \/ TimerTick
  \/ \E c \in Conn : Accept(c) \/ EpollHangUp(c) \/ \E in \in BOOLEAN : EpollConn(c, in)

WorkerStep(w) == Take(w) \/ Drop(w) \/ PushData(w) \/ WorkerMod(w) \/ Notify(w)

Next ==
  \/ IOStep \/ EpollWait
  \/ \E w \in Worker : WorkerStep(w)
  \/ \E c \in Conn : PeerReads(c) \/ PeerLeaves(c)

Spec == Init /\ [][Next]_vars

(* The threads run; epoll_wait serves its ready list in turn, so an event   *)
(* that stays pending is reported although others are; a peer that is there *)
(* reads, so that a socket which is offered a frame again and again in the  *)
(* end takes it.  Nothing is assumed of the timer or of new input.          *)
Accepts(c) ==
  (FirstFlush(c) \/ FlushReply(c) \/ FlushOut(c) \/ Sweep(c)) /\ sent'[c] > sent[c]

Fairness ==
  /\ WF_vars(IOStep)
  /\ SF_vars(WakeEvent)
  /\ \A c \in Conn : SF_vars(\E in \in BOOLEAN : epollout[c] = "ready" /\ EpollConn(c, in))
  /\ \A c \in Conn : SF_vars(EpollHangUp(c)) /\ SF_vars(Accepts(c)) /\ WF_vars(PeerReads(c))
  /\ \A w \in Worker : WF_vars(WorkerStep(w))

LiveSpec == Spec /\ Fairness

-----------------------------------------------------------------------------
(* Once a Close frame is queued on a connection no echo and no file reply   *)
(* is queued behind it, although workers and the IO thread fill the queue   *)
(* concurrently and `closing` is written outside the lock: it is written    *)
(* before the frame is pushed, and workers test it under the lock.          *)
DataNeverFollowsClose ==
  \A c \in Conn : \A i, j \in 1..Len(queued[c]) :
     i < j /\ queued[c][i].kind = "Close" => queued[c][j].kind # "Data"

(* The 101 response is the first thing on a connection's stream and comes   *)
(* once: neither a worker's reply nor the timer's Ping overtakes it.        *)
UpgradeResponseFirst ==
  \A c \in Conn : \A i \in 1..Len(queued[c]) : (queued[c][i].kind = "101") <=> (i = 1)

(* When the IO thread goes back to epoll_wait, a connection that has data   *)
(* to send and can send it has a signal on its way: an EPOLLOUT report, the *)
(* eventfd, or a worker that has queued a reply and has yet to signal it.   *)
Signalled(c) ==
  \/ epollout[c] = "ready"
  \/ epollout[c] = "on" /\ full[c]
  \/ ~ closing[c] /\ (wake \/ \E w \in Worker : wpc[w] \in {"mod", "notify"} /\ wtask[w].conn = c)
  \/ gone[c]

NoLostWakeup ==
  pc = "wait" =>
    \A c \in Conn : conn[c] = "open" /\ tls[c] = "done" /\ Pending(c) => Signalled(c)

(* A text frame accepted on a connection that is not closing is in exactly  *)
(* one place: the pool's queue, the hands of one worker, or, once, among    *)
(* the frames queued for sending.  No echo is lost and none is doubled.     *)
EchoExactlyOnce ==
  \A c \in Conn : ~ closing[c] =>
    \A n \in texts[c] :
      Cardinality({i \in 1..Len(tasks) : tasks[i].conn = c /\ tasks[i].n = n})
      + Cardinality({w \in Worker : wpc[w] = "run" /\ wtask[w].conn = c /\ wtask[w].n = n})
      + Cardinality({i \in 1..Len(queued[c]) : queued[c][i] = [kind |-> "Data", n |-> n]}) = 1

(* Whatever is queued on a connection whose handshake is finished is sent,  *)
(* or the connection closes: EPOLLOUT and the eventfd are enough, without   *)
(* the timer's sweep over all connections.                                  *)
EventuallySent ==
  \A c \in Conn :
    (conn[c] = "open" /\ tls[c] = "done" /\ Pending(c)) ~> (~ Pending(c) \/ conn[c] = "closed")
=============================================================================
