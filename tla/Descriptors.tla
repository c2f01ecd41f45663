---------------------------- MODULE Descriptors ----------------------------
(***************************************************************************)
(* Who owns which descriptor number.  One IO thread accepts connections on *)
(* the WSS and the HTTP port, keeps them in two tables keyed by descriptor *)
(* and handles whole batches of epoll events that name descriptors only;   *)
(* Connection objects live on in the hands of workers after their socket   *)
(* is closed; and the kernel gives the lowest free number to the next      *)
(* socket or temporary file (src/src/server/WssServer.cpp).                *)
(*                                                                         *)
(* A step is what one thread does between two points at which another one  *)
(* can take or give back a number, or read conn->fd.  What a handler reads *)
(* and writes is left open: it ends with the connection kept, moved on to  *)
(* its next phase, or closed.  A batch is a set: epoll orders it as it     *)
(* likes.  Several tasks of one connection count as one.                   *)
(***************************************************************************)
EXTENDS Integers, FiniteSets

CONSTANTS
  Wss, Http,  \* connections made to the two ports, each at most once
  Worker,     \* threads of the pool
  MaxFd,      \* bound: descriptors for connections and temporary files
  MaxBatch,   \* events one epoll_wait returns
  Free,       \* owner of a number nobody has
  TempFile,   \* owner of a number some file session has
  Nobody      \* no connection

ASSUME DescriptorsAssumption ==
  /\ Wss \cap Http = {} /\ MaxFd \in Nat /\ MaxBatch \in Nat
  /\ {Free, TempFile, Nobody} \cap (Wss \cup Http) = {}
  /\ Free # TempFile

VARIABLES
  owner,      \* the kernel's descriptor table
  interest,   \* EPOLLIN and EPOLLOUT of the number's registration, {} if it has none
  conns,      \* conns: the Connection kept under a number
  httpConns,  \* http_conns: the phase of the HttpConnection kept under a number
  fdOf,       \* fd of a Connection, 0 for -1
  sslFd,      \* the number its SSL writes to (SSL_set_fd), 0 if the object is gone
  seen,       \* connections taken from a listening socket
  tlsDone,    \* those whose handshake is complete
  tasks,      \* Connections the queued tasks have a weak_ptr to
  batch,      \* events of the last epoll_wait still to handle
  reaped,     \* history: Connections the timer has closed since then
  toClose,    \* the timer's list of numbers to close
  pc,         \* the IO thread's place
  dropping,   \* the Connection whose reference the IO thread is about to drop
  wpc,        \* a worker's place
  wobj,       \* the Connection it has locked
  wfd         \* its copy of conn->fd

objVars == <<fdOf, sslFd, seen, tlsDone>>
workVars == <<wpc, wobj, wfd>>
vars == <<owner, interest, conns, httpConns, objVars, tasks, batch, reaped, toClose, pc,
          dropping, workVars>>

-----------------------------------------------------------------------------
Fd == 1..MaxFd
alive == {c \in Wss : sslFd[c] # 0}  \* Connection objects that exist
FreeFds == {f \in Fd : owner[f] = Free}
LowestFree(f) == f \in FreeFds /\ \A g \in FreeFds : f <= g

Event == [kind : {"timer", "wake", "listen", "http_listen"}, fd : {0}, of : {Nobody}, mask : {{}}]
         \cup [kind : {"sock"}, fd : Fd, of : Wss \cup Http, mask : SUBSET {"in", "out"}]

Signal(k) == [kind |-> k, fd |-> 0, of |-> Nobody, mask |-> {}]

TypeOK ==
  /\ owner \in [Fd -> Wss \cup Http \cup {TempFile, Free}]
  /\ interest \in [Fd -> SUBSET {"in", "out"}]
  /\ conns \in [Fd -> Wss \cup {Nobody}]
  /\ httpConns \in [Fd -> {"none", "reading", "writing"}]
  /\ fdOf \in [Wss -> 0..MaxFd] /\ sslFd \in [Wss -> 0..MaxFd]
  /\ seen \subseteq Wss \cup Http
  /\ tlsDone \subseteq Wss /\ tasks \subseteq Wss
  /\ batch \subseteq Event
  /\ reaped \subseteq Wss /\ toClose \subseteq Fd
  /\ pc \in {"loop", "accept", "http_accept", "reap", "drop", "stopped"}
  /\ dropping \in Wss \cup {Nobody}
  /\ wpc \in [Worker -> {"idle", "run", "mod", "ctl", "end"}]
  /\ wobj \in [Worker -> Wss \cup {Nobody}]
  /\ wfd \in [Worker -> 0..MaxFd]
  /\ \A w \in Worker : /\ wpc[w] = "idle" <=> wobj[w] = Nobody
                       /\ wpc[w] = "ctl" <=> wfd[w] # 0

Init ==
  /\ owner = [f \in Fd |-> Free] /\ interest = [f \in Fd |-> {}]
  /\ conns = [f \in Fd |-> Nobody] /\ httpConns = [f \in Fd |-> "none"]
  /\ fdOf = [c \in Wss |-> 0] /\ sslFd = [c \in Wss |-> 0]
  /\ seen = {} /\ tlsDone = {} /\ tasks = {}
  /\ batch = {} /\ reaped = {} /\ toClose = {}
  /\ pc = "loop" /\ dropping = Nobody
  /\ wpc = [w \in Worker |-> "idle"] /\ wobj = [w \in Worker |-> Nobody]
  /\ wfd = [w \in Worker |-> 0]

-----------------------------------------------------------------------------
(* The last reference to c is gone: ~Connection.  SSL_shutdown writes its   *)
(* close_notify, if the handshake was completed, to the number the SSL has; *)
(* then the destructor closes fd if it is still set.                        *)
Destroy(c) ==
  /\ tlsDone' = tlsDone \ {c} /\ sslFd' = [sslFd EXCEPT ![c] = 0]
  /\ IF fdOf[c] = 0 THEN UNCHANGED <<owner, interest>>
     ELSE /\ owner' = [owner EXCEPT ![fdOf[c]] = Free]
          /\ interest' = [interest EXCEPT ![fdOf[c]] = {}]

Release(c, held) ==
  IF held THEN UNCHANGED <<tlsDone, sslFd, owner, interest>> ELSE Destroy(c)

(* Variant of closeConnection that does not set c->fd to -1.                *)
closeConnectionKeepsFd(f) ==
  LET c == conns[f]
  IN /\ conns' = [conns EXCEPT ![f] = Nobody]
     /\ owner' = [owner EXCEPT ![fdOf[c]] = Free]
     /\ interest' = [interest EXCEPT ![f] = {}]
     /\ UNCHANGED fdOf
     /\ dropping' = c /\ pc' = "drop"

(* closeConnection: out of conns, out of epoll, close(c->fd), c->fd = -1.   *)
(* The reference the IO thread still has goes in a step of its own, DropRef.*)
closeConnection(f) ==
  LET c == conns[f]
  IN /\ conns' = [conns EXCEPT ![f] = Nobody]
     /\ owner' = [owner EXCEPT ![fdOf[c]] = Free]
     /\ interest' = [interest EXCEPT ![f] = {}]
     /\ fdOf' = [fdOf EXCEPT ![c] = 0]
     /\ dropping' = c /\ pc' = "drop"

closeHttpConnection(f) ==
  /\ httpConns' = [httpConns EXCEPT ![f] = "none"]
  /\ owner' = [owner EXCEPT ![f] = Free]
  /\ interest' = [interest EXCEPT ![f] = {}]

DropRef ==
  /\ pc = "drop"
  /\ Release(dropping, \E w \in Worker : wobj[w] = dropping)
  /\ dropping' = Nobody
  /\ pc' = IF toClose = {} THEN "loop" ELSE "reap"
  /\ UNCHANGED <<conns, httpConns, fdOf, seen, tasks, batch, reaped, toClose,
                 workVars>>

-----------------------------------------------------------------------------
(* epoll_wait: some of what may be ready, each registration at most once.   *)
EpollWait ==
  /\ pc = "loop" /\ batch = {}
  /\ \E fs \in SUBSET {f \in Fd : interest[f] # {}} :
     \E ks \in SUBSET {"timer", "wake", "listen", "http_listen"} :
       batch' = {[kind |-> "sock", fd |-> f, of |-> owner[f], mask |-> interest[f]] : f \in fs}
                \cup {Signal(k) : k \in ks}
  /\ Cardinality(batch') \in 1..MaxBatch
  /\ reaped' = {}
  /\ UNCHANGED <<owner, interest, conns, httpConns, objVars, tasks, toClose, pc,
                 dropping, workVars>>

Taken(e) == pc = "loop" /\ e \in batch /\ batch' = batch \ {e}

(* The timer: Pings and flushes change interests only; idle connections are *)
(* listed by number and closed one after the other.                         *)
TimerEvent(e) ==
  /\ Taken(e) /\ e.kind = "timer"
  /\ toClose' \in SUBSET {f \in Fd : conns[f] # Nobody}
  /\ reaped' = reaped \cup {conns[f] : f \in toClose'}
  /\ pc' = IF toClose' = {} THEN "loop" ELSE "reap"
  /\ UNCHANGED <<owner, interest, conns, httpConns, objVars, tasks, dropping, workVars>>

Reap(f) ==
  /\ pc = "reap" /\ f \in toClose
  /\ closeConnection(f)
  /\ toClose' = toClose \ {f}
  /\ UNCHANGED <<httpConns, sslFd, seen, tlsDone, tasks, batch, reaped, workVars>>

(* Variant of WakeEvent that closes connections it has drained.             *)
WakeEventCloses(e) ==
  /\ Taken(e) /\ e.kind = "wake"
  /\ toClose' \in SUBSET {f \in Fd : conns[f] # Nobody}
  /\ pc' = IF toClose' = {} THEN "loop" ELSE "reap"
  /\ UNCHANGED <<owner, interest, conns, httpConns, objVars, tasks, reaped, dropping,
                 workVars>>

(* The eventfd: flushOutbound on every connection whose handshake is done.  *)
WakeEvent(e) ==
  /\ Taken(e) /\ e.kind = "wake"
  /\ \E out \in SUBSET {f \in Fd : conns[f] \in tlsDone} :
       interest' = [f \in Fd |-> IF conns[f] \notin tlsDone THEN interest[f]
                                 ELSE IF f \in out THEN {"in", "out"} ELSE {"in"}]
  /\ UNCHANGED <<owner, conns, httpConns, objVars, tasks, reaped, toClose, pc, dropping,
                 workVars>>

-----------------------------------------------------------------------------
(* accept() until EAGAIN.  With no number left it fails, which the loop     *)
(* does not survive.                                                        *)
ListenEvent(e) ==
  /\ Taken(e) /\ e.kind \in {"listen", "http_listen"}
  /\ pc' = IF e.kind = "listen" THEN "accept" ELSE "http_accept"
  /\ UNCHANGED <<owner, interest, conns, httpConns, objVars, tasks, reaped, toClose, dropping,
                 workVars>>

AcceptEnds ==
  /\ pc \in {"accept", "http_accept"}
  /\ pc' = "loop"
  /\ UNCHANGED <<owner, interest, conns, httpConns, objVars, tasks, batch, reaped, toClose,
                 dropping, workVars>>

AcceptFails ==
  /\ pc \in {"accept", "http_accept"} /\ FreeFds = {}
  /\ ~ (IF pc = "accept" THEN Wss ELSE Http) \subseteq seen
  /\ pc' = "stopped"
  /\ UNCHANGED <<owner, interest, conns, httpConns, objVars, tasks, batch, reaped, toClose,
                 dropping, workVars>>

Accept(c) ==
  /\ pc = "accept" /\ c \in Wss \ seen
  /\ seen' = seen \cup {c}
  /\ \E f \in Fd :
        /\ LowestFree(f)
        /\ owner' = [owner EXCEPT ![f] = c]
        /\ interest' = [interest EXCEPT ![f] = {"in"}]
        /\ conns' = [conns EXCEPT ![f] = c]
        /\ fdOf' = [fdOf EXCEPT ![c] = f] /\ sslFd' = [sslFd EXCEPT ![c] = f]
  /\ UNCHANGED <<httpConns, tlsDone, tasks, batch, reaped, toClose, pc, dropping, workVars>>

(* emplace keeps what is already there under the number.                    *)
HttpAccept(h) ==
  /\ pc = "http_accept" /\ h \in Http \ seen
  /\ seen' = seen \cup {h}
  /\ \E f \in Fd :
        /\ LowestFree(f)
        /\ owner' = [owner EXCEPT ![f] = h]
        /\ interest' = [interest EXCEPT ![f] = {"in"}]
        /\ httpConns' = [httpConns EXCEPT ![f] = IF @ = "none" THEN "reading" ELSE @]
  /\ UNCHANGED <<conns, fdOf, sslFd, tlsDone, tasks, batch, reaped, toClose, pc,
                 dropping, workVars>>

-----------------------------------------------------------------------------
(* An event that names a number of http_conns: a hang-up without the rest   *)
(* closes, EPOLLOUT writes the response, EPOLLIN reads the request.         *)
HttpTurn(e, f) == Taken(e) /\ e.kind = "sock" /\ e.fd = f /\ httpConns[f] # "none"

HttpUnchanged == UNCHANGED <<conns, objVars, tasks, reaped, toClose, pc, dropping, workVars>>

HttpCloses(e, f) ==
  /\ HttpTurn(e, f)
  /\ closeHttpConnection(f)
  /\ HttpUnchanged

HttpReads(e, f) ==
  /\ HttpTurn(e, f) /\ httpConns[f] = "reading" /\ "in" \in e.mask
  /\ \/ httpConns' = [httpConns EXCEPT ![f] = "writing"]
        /\ interest' = [interest EXCEPT ![f] = {"out"}]
     \/ interest' = [interest EXCEPT ![f] = {"in"}] /\ UNCHANGED httpConns
  /\ UNCHANGED owner
  /\ HttpUnchanged

(* More to read or to write, or nothing the phase has a use for.            *)
HttpKept(e, f) ==
  /\ HttpTurn(e, f)
  /\ UNCHANGED <<owner, interest, httpConns>>
  /\ HttpUnchanged

(* An event that names a number of conns.                                   *)
WssTurn(e, f) ==
  Taken(e) /\ e.kind = "sock" /\ e.fd = f /\ httpConns[f] = "none" /\ conns[f] # Nobody

(* A hang-up, an error, the end of a Close handshake.                       *)
WssCloses(e, f) ==
  /\ WssTurn(e, f)
  /\ closeConnection(f)
  /\ UNCHANGED <<httpConns, sslFd, seen, tlsDone, tasks, reaped, toClose, workVars>>

(* The handshake advances, replies are queued and flushed, data messages go *)
(* to the pool with a weak_ptr, which early data does before tls_done.      *)
WssServes(e, f) ==
  /\ WssTurn(e, f)
  /\ \E done \in SUBSET {conns[f]} : tlsDone' = tlsDone \cup done
  /\ \E sub \in SUBSET {conns[f]} : /\ sub # {} => "in" \in e.mask
                                    /\ tasks' = tasks \cup sub
  /\ \E out \in SUBSET {"out"} : interest' = [interest EXCEPT ![f] = {"in"} \cup out]
  /\ UNCHANGED <<owner, conns, httpConns, fdOf, sslFd, seen, reaped, toClose, pc,
                 dropping, workVars>>

(* Neither table knows the number any more.                                 *)
UnknownFd(e) ==
  /\ Taken(e) /\ e.kind = "sock" /\ httpConns[e.fd] = "none" /\ conns[e.fd] = Nobody
  /\ UNCHANGED <<owner, interest, conns, httpConns, objVars, tasks, reaped, toClose, pc,
                 dropping, workVars>>

-----------------------------------------------------------------------------
(* A worker: weak.lock(), the reply under the lock unless the connection is *)
(* closing, then, without the lock, conn->fd and epoll_ctl with it.         *)
Take(w, c) ==
  /\ wpc[w] = "idle" /\ c \in tasks
  /\ tasks' = tasks \ {c}
  /\ IF c \in alive
     THEN wpc' = [wpc EXCEPT ![w] = "run"] /\ wobj' = [wobj EXCEPT ![w] = c]
     ELSE UNCHANGED <<wpc, wobj>>
  /\ UNCHANGED <<owner, interest, conns, httpConns, objVars, batch, reaped, toClose, pc,
                 dropping, wfd>>

(* A START message may open a temporary file first.                         *)
OpenFile(w) ==
  /\ wpc[w] = "run"
  /\ \E f \in Fd : LowestFree(f) /\ owner' = [owner EXCEPT ![f] = TempFile]
  /\ UNCHANGED <<interest, conns, httpConns, objVars, tasks, batch, reaped, toClose, pc,
                 dropping, workVars>>

(* A file session ends, in a worker or in the timer's cleanup.              *)
CloseFile(f) ==
  /\ owner[f] = TempFile
  /\ owner' = [owner EXCEPT ![f] = Free]
  /\ UNCHANGED <<interest, conns, httpConns, objVars, tasks, batch, reaped, toClose, pc,
                 dropping, workVars>>

Goes(w, l) == wpc' = [wpc EXCEPT ![w] = l]

Reply(w) ==
  /\ wpc[w] = "run"
  /\ \/ fdOf[wobj[w]] # 0 /\ Goes(w, "mod")
     \/ Goes(w, "end")
  /\ UNCHANGED <<owner, interest, conns, httpConns, objVars, tasks, batch, reaped, toClose, pc,
                 dropping, wobj, wfd>>

(* Variant of ReadFd for an updateInterest that does not test for fd < 0.   *)
ReadFdUnchecked(w) ==
  /\ wpc[w] = "mod"
  /\ wfd' = [wfd EXCEPT ![w] = fdOf[wobj[w]]]
  /\ Goes(w, "ctl")
  /\ UNCHANGED <<owner, interest, conns, httpConns, objVars, tasks, batch, reaped, toClose, pc,
                 dropping, wobj>>

ReadFd(w) ==
  /\ wpc[w] = "mod"
  /\ wfd' = [wfd EXCEPT ![w] = fdOf[wobj[w]]]
  /\ Goes(w, IF wfd'[w] = 0 THEN "end" ELSE "ctl")
  /\ UNCHANGED <<owner, interest, conns, httpConns, objVars, tasks, batch, reaped, toClose, pc,
                 dropping, wobj>>

(* Variant of updateInterest that takes back EPOLLOUT.                      *)
ModReadOnly(f) == interest' = [interest EXCEPT ![f] = IF @ = {} THEN {} ELSE {"in"}]

(* updateInterest(epoll_fd, fd, true): it takes effect on whatever socket   *)
(* is now registered under the number.                                      *)
Mod(f) == interest' = [interest EXCEPT ![f] = IF @ = {} THEN {} ELSE {"in", "out"}]

Ctl(w) ==
  /\ wpc[w] = "ctl"
  /\ Mod(wfd[w])
  /\ Goes(w, "end") /\ wfd' = [wfd EXCEPT ![w] = 0]
  /\ UNCHANGED <<owner, conns, httpConns, objVars, tasks, batch, reaped, toClose, pc, dropping,
                 wobj>>

EndTask(w) ==
  LET c == wobj[w]
  IN /\ wpc[w] = "end"
     /\ Release(c, (\E f \in Fd : conns[f] = c) \/ dropping = c
                    \/ \E v \in Worker \ {w} : wobj[v] = c)
     /\ Goes(w, "idle") /\ wobj' = [wobj EXCEPT ![w] = Nobody]
     /\ UNCHANGED <<conns, httpConns, fdOf, seen, tasks, batch, reaped,
                    toClose, pc, dropping, wfd>>

-----------------------------------------------------------------------------
SockEvent(e, f) ==
  \/ HttpCloses(e, f) \/ HttpReads(e, f) \/ HttpKept(e, f)
  \/ WssCloses(e, f) \/ WssServes(e, f)

IOStep ==
  \/ EpollWait \/ DropRef \/ AcceptEnds \/ AcceptFails
  \/ \E c \in Wss : Accept(c)
  \/ \E h \in Http : HttpAccept(h)
  \/ \E f \in Fd : Reap(f)
  \/ \E e \in batch : \/ TimerEvent(e) \/ WakeEvent(e) \/ ListenEvent(e) \/ UnknownFd(e)
                      \/ \E f \in Fd : SockEvent(e, f)

WorkerStep(w) ==
  \/ OpenFile(w) \/ Reply(w) \/ ReadFd(w) \/ Ctl(w) \/ EndTask(w)
  \/ \E c \in Wss : Take(w, c)

Next == IOStep \/ (\E w \in Worker : WorkerStep(w)) \/ (\E f \in Fd : CloseFile(f))

Spec == Init /\ [][Next]_vars

-----------------------------------------------------------------------------
(* The tables, the objects and the kernel agree on who owns a number: a     *)
(* table entry's number is that connection's own, every connection's socket *)
(* is in the table of its port and in epoll, and a Connection's fd, which   *)
(* closeConnection and the destructor close, never names what another owns. *)
OwnDescriptor ==
  /\ \A f \in Fd :
       /\ conns[f] # Nobody => conns[f] \in alive /\ fdOf[conns[f]] = f
       /\ owner[f] \in Wss <=> conns[f] # Nobody
       /\ owner[f] \in Http <=> httpConns[f] # "none"
       /\ owner[f] \in Wss \cup Http <=> interest[f] # {}
  /\ \A c \in Wss : fdOf[c] # 0 => owner[fdOf[c]] = c

(* epoll is asked for what a connection's phase waits for, even when a      *)
(* worker's epoll_ctl hits a number that has changed hands.                 *)
InterestCoversPhase ==
  \A f \in Fd :
    /\ conns[f] # Nobody \/ httpConns[f] = "reading" => "in" \in interest[f]
    /\ httpConns[f] = "writing" => "out" \in interest[f]

(* An event is handled for another connection than the one epoll reported   *)
(* it for only if the timer has closed that one earlier in the batch: no    *)
(* other handler closes a connection whose event is still to come.          *)
StaleOnlyAfterReap ==
  \A e \in batch : e.kind = "sock" /\ owner[e.fd] \in Wss \cup Http /\ owner[e.fd] # e.of
                     => e.of \in reaped

(* A Connection's descriptor outlives its SSL: WssServer.cpp:184 defers the *)
(* release of both to the destructor, so that the close_notify SSL_shutdown *)
(* writes there never goes to another connection or into a file.            *)
NoForeignShutdown ==
  [][\A c \in alive \cap tlsDone : c \notin alive' => owner[sslFd[c]] \in {c, Free}]_vars
=============================================================================
