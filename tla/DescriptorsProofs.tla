------------------------- MODULE DescriptorsProofs -------------------------
(* What Descriptors guarantees for every set of connections and workers,    *)
(* every number of descriptors and every size of a batch, proved with       *)
(* TLAPS.                                                                   *)
EXTENDS Descriptors, TLAPS

(***************************************************************************)
(* The inductive invariant.                                                *)
(***************************************************************************)
(* The IO thread's lists: what it is about to drop has no descriptor any    *)
(* more, what it has yet to accept has none yet, and what the timer is      *)
(* about to close is still in conns.                                        *)
Lists ==
  /\ pc = "drop" => dropping \in Wss /\ fdOf[dropping] = 0
  /\ toClose # {} => pc \in {"reap", "drop"}
  /\ \A f \in toClose : conns[f] \in reaped
  /\ \A c \in Wss \ seen : fdOf[c] = 0

(* The connection an event was reported for still has its number or has     *)
(* been reaped, and no number has two events.                               *)
Events ==
  \A e \in batch : e.kind = "sock" =>
    /\ e.of \in reaped \/ owner[e.fd] = e.of
    /\ \A d \in batch : d.kind = "sock" /\ d.fd = e.fd => d = e

IInv == TypeOK /\ OwnDescriptor /\ InterestCoversPhase /\ Lists /\ Events

LEMMA Distinct ==
  /\ Free \notin Wss /\ Free \notin Http /\ TempFile \notin Wss /\ TempFile \notin Http
  /\ Nobody \notin Wss /\ Nobody \notin Http /\ Free # TempFile
  /\ \A c \in Wss : c \notin Http
  /\ 0 \notin Fd /\ \A f \in Fd : f \in 0..MaxFd /\ f # 0
BY DescriptorsAssumption DEF Fd

(***************************************************************************)
(* Types.                                                                  *)
(***************************************************************************)
LEMMA CloseTypes ==
  ASSUME TypeOK, NEW f \in Fd, conns[f] # Nobody, closeConnection(f)
  PROVE  /\ owner' \in [Fd -> Wss \cup Http \cup {TempFile, Free}]
         /\ interest' \in [Fd -> SUBSET {"in", "out"}]
         /\ conns' \in [Fd -> Wss \cup {Nobody}]
         /\ fdOf' \in [Wss -> 0..MaxFd]
         /\ dropping' \in Wss /\ pc' = "drop"
<1>1. 0 \in 0..MaxFd
  BY DescriptorsAssumption
<1> QED BY <1>1 DEF TypeOK, closeConnection

LEMMA ReleaseTypes ==
  ASSUME TypeOK, NEW c \in Wss, NEW held \in BOOLEAN, Release(c, held)
  PROVE  /\ owner' \in [Fd -> Wss \cup Http \cup {TempFile, Free}]
         /\ interest' \in [Fd -> SUBSET {"in", "out"}]
         /\ sslFd' \in [Wss -> 0..MaxFd] /\ tlsDone' \subseteq Wss
<1>1. 0 \in 0..MaxFd
  BY DescriptorsAssumption
<1>2. CASE held
  BY <1>2 DEF Release, TypeOK
<1>3. CASE ~ held
  <2>1. sslFd' \in [Wss -> 0..MaxFd] /\ tlsDone' \subseteq Wss
    BY <1>1, <1>3 DEF Release, Destroy, TypeOK
  <2>2. CASE fdOf[c] = 0
    BY <1>3, <2>1, <2>2 DEF Release, Destroy, TypeOK
  <2>3. CASE fdOf[c] # 0
    BY <1>3, <2>1, <2>3 DEF Release, Destroy, TypeOK
  <2> QED BY <2>2, <2>3
<1> QED BY <1>2, <1>3

(* What epoll_wait reports. *)
LEMMA EpollShape ==
  ASSUME EpollWait
  PROVE  \E fs \in SUBSET {f \in Fd : interest[f] # {}} :
         \E ks \in SUBSET {"timer", "wake", "listen", "http_listen"} :
           batch' = {[kind |-> "sock", fd |-> f, of |-> owner[f], mask |-> interest[f]] : f \in fs}
                    \cup {Signal(k) : k \in ks}
BY DEF EpollWait

(* For every registered number the event names its owner, a connection.     *)
LEMMA EpollTypes ==
  ASSUME TypeOK, OwnDescriptor, EpollWait
  PROVE  /\ batch' \subseteq Event
         /\ \A e \in batch' : e.kind = "sock" =>
              /\ e.of = owner[e.fd] /\ e.fd \in Fd
              /\ \A d \in batch' : d.kind = "sock" /\ d.fd = e.fd => d = e
<1>1. PICK fs \in SUBSET {f \in Fd : interest[f] # {}},
           ks \in SUBSET {"timer", "wake", "listen", "http_listen"} :
        batch' = {[kind |-> "sock", fd |-> f, of |-> owner[f], mask |-> interest[f]] : f \in fs}
                 \cup {Signal(k) : k \in ks}
  BY EpollShape
<1> DEFINE ev(f) == [kind |-> "sock", fd |-> f, of |-> owner[f], mask |-> interest[f]]
<1>2. \A f \in fs : f \in Fd /\ owner[f] \in Wss \cup Http /\ interest[f] \in SUBSET {"in", "out"}
  BY <1>1 DEF OwnDescriptor, TypeOK
<1>3. \A f \in fs : ev(f) \in Event
  BY <1>2 DEF Event
<1>4. \A k \in ks : Signal(k) \in Event /\ Signal(k).kind # "sock"
  BY <1>1 DEF Event, Signal
<1>5. \A e \in batch' : (\E f \in fs : e = ev(f)) \/ (\E k \in ks : e = Signal(k))
  BY <1>1
<1>6. \A e \in batch' : e.kind = "sock" => \E f \in fs : e = ev(f)
  BY <1>4, <1>5
<1> QED BY <1>2, <1>3, <1>4, <1>5, <1>6

LEMMA TypeStep == ASSUME TypeOK, OwnDescriptor, Lists, [Next]_vars PROVE TypeOK'
<1> USE DEF objVars, workVars
<1>1. CASE EpollWait
  <2>1. batch' \subseteq Event
    BY <1>1, EpollTypes
  <2>2. /\ UNCHANGED <<owner, interest, conns, httpConns, objVars, tasks, toClose, pc, dropping,
                       workVars>>
        /\ reaped' = {}
    BY <1>1 DEF EpollWait
  <2> QED BY <2>1, <2>2 DEF TypeOK
<1>2. CASE DropRef
  <2>1. /\ UNCHANGED <<conns, httpConns, fdOf, seen, tasks, batch, reaped, toClose, workVars>>
        /\ dropping' = Nobody /\ pc' \in {"loop", "reap"}
    BY <1>2 DEF DropRef
  <2>2. /\ owner' \in [Fd -> Wss \cup Http \cup {TempFile, Free}]
        /\ interest' \in [Fd -> SUBSET {"in", "out"}]
        /\ sslFd' \in [Wss -> 0..MaxFd] /\ tlsDone' \subseteq Wss
    <3>1. dropping \in Wss /\ (\E w \in Worker : wobj[w] = dropping) \in BOOLEAN
      BY <1>2 DEF DropRef, Lists
    <3> QED BY <1>2, <3>1, ReleaseTypes DEF DropRef
  <2> QED BY <2>1, <2>2 DEF TypeOK
<1>3. CASE AcceptEnds \/ AcceptFails
  BY <1>3 DEF AcceptEnds, AcceptFails, TypeOK
<1>4. ASSUME NEW c \in Wss, Accept(c) PROVE TypeOK'
  <2>1. PICK f \in Fd : /\ owner' = [owner EXCEPT ![f] = c]
                        /\ interest' = [interest EXCEPT ![f] = {"in"}]
                        /\ conns' = [conns EXCEPT ![f] = c]
                        /\ fdOf' = [fdOf EXCEPT ![c] = f] /\ sslFd' = [sslFd EXCEPT ![c] = f]
    BY <1>4 DEF Accept
  <2>2. f \in 0..MaxFd
    BY Distinct
  <2>3. seen' \subseteq Wss \cup Http
    BY <1>4 DEF Accept, TypeOK
  <2>4. UNCHANGED <<httpConns, tlsDone, tasks, batch, reaped, toClose, pc, dropping, workVars>>
    BY <1>4 DEF Accept
  <2> QED BY <2>1, <2>2, <2>3, <2>4 DEF TypeOK
<1>5. ASSUME NEW h \in Http, HttpAccept(h) PROVE TypeOK'
  BY <1>5 DEF HttpAccept, TypeOK
<1>6. ASSUME NEW f \in Fd, Reap(f) PROVE TypeOK'
  <2>1. conns[f] # Nobody
    BY <1>6, Distinct DEF Reap, Lists, TypeOK
  <2>2. UNCHANGED <<httpConns, sslFd, seen, tlsDone, tasks, batch, reaped, workVars>>
    BY <1>6 DEF Reap
  <2>3. toClose' \subseteq Fd
    BY <1>6 DEF Reap, TypeOK
  <2> QED BY <1>6, <2>1, <2>2, <2>3, CloseTypes DEF Reap, TypeOK
<1>7. ASSUME NEW e \in batch, TimerEvent(e) PROVE TypeOK'
  <2>1. batch' \subseteq Event
    BY <1>7 DEF TimerEvent, Taken, TypeOK
  <2>2. toClose' \subseteq Fd /\ reaped' \subseteq Wss
    BY <1>7 DEF TimerEvent, TypeOK
  <2>3. pc' \in {"loop", "reap"}
    BY <1>7 DEF TimerEvent
  <2>4. UNCHANGED <<owner, interest, conns, httpConns, objVars, tasks, dropping, workVars>>
    BY <1>7 DEF TimerEvent
  <2> QED BY <2>1, <2>2, <2>3, <2>4 DEF TypeOK
<1>8. ASSUME NEW e \in batch, WakeEvent(e) PROVE TypeOK'
  <2>1. batch' \subseteq Event
    BY <1>8 DEF WakeEvent, Taken, TypeOK
  <2>2. interest' \in [Fd -> SUBSET {"in", "out"}]
    BY <1>8 DEF WakeEvent, TypeOK
  <2>3. UNCHANGED <<owner, conns, httpConns, objVars, tasks, reaped, toClose, pc, dropping,
                    workVars>>
    BY <1>8 DEF WakeEvent
  <2> QED BY <2>1, <2>2, <2>3 DEF TypeOK
<1>9. ASSUME NEW e \in batch, ListenEvent(e) \/ UnknownFd(e) PROVE TypeOK'
  <2>1. batch' \subseteq Event
    BY <1>9 DEF ListenEvent, UnknownFd, Taken, TypeOK
  <2>2. pc' \in {pc, "accept", "http_accept"}
    BY <1>9 DEF ListenEvent, UnknownFd
  <2>3. UNCHANGED <<owner, interest, conns, httpConns, objVars, tasks, reaped, toClose, dropping,
                    workVars>>
    BY <1>9 DEF ListenEvent, UnknownFd
  <2> QED BY <2>1, <2>2, <2>3 DEF TypeOK
<1>10. ASSUME NEW e \in batch, NEW f \in Fd, HttpCloses(e, f) \/ HttpReads(e, f) \/ HttpKept(e, f)
       PROVE  TypeOK'
  <2>1. batch' \subseteq Event
    BY <1>10 DEF HttpCloses, HttpReads, HttpKept, HttpTurn, Taken, TypeOK
  <2>2. /\ owner' \in [Fd -> Wss \cup Http \cup {TempFile, Free}]
        /\ interest' \in [Fd -> SUBSET {"in", "out"}]
        /\ httpConns' \in [Fd -> {"none", "reading", "writing"}]
    BY <1>10 DEF HttpCloses, HttpReads, HttpKept, closeHttpConnection, TypeOK
  <2>3. UNCHANGED <<conns, objVars, tasks, reaped, toClose, pc, dropping, workVars>>
    BY <1>10 DEF HttpCloses, HttpReads, HttpKept, HttpUnchanged
  <2> QED BY <2>1, <2>2, <2>3 DEF TypeOK
<1>11. ASSUME NEW e \in batch, NEW f \in Fd, WssCloses(e, f) PROVE TypeOK'
  <2>1. batch' \subseteq Event
    BY <1>11 DEF WssCloses, WssTurn, Taken, TypeOK
  <2>2. conns[f] # Nobody /\ closeConnection(f)
    BY <1>11 DEF WssCloses, WssTurn
  <2>3. UNCHANGED <<httpConns, sslFd, seen, tlsDone, tasks, reaped, toClose, workVars>>
    BY <1>11 DEF WssCloses
  <2> QED BY <2>1, <2>2, <2>3, CloseTypes DEF TypeOK
<1>12. ASSUME NEW e \in batch, NEW f \in Fd, WssServes(e, f) PROVE TypeOK'
  <2>1. batch' \subseteq Event
    BY <1>12 DEF WssServes, WssTurn, Taken, TypeOK
  <2>2. conns[f] \in Wss
    BY <1>12 DEF WssServes, WssTurn, TypeOK
  <2>3. tlsDone' \subseteq Wss /\ tasks' \subseteq Wss
    BY <1>12, <2>2 DEF WssServes, TypeOK
  <2>4. interest' \in [Fd -> SUBSET {"in", "out"}]
    BY <1>12 DEF WssServes, TypeOK
  <2>5. UNCHANGED <<owner, conns, httpConns, fdOf, sslFd, seen, reaped, toClose, pc, dropping,
                    workVars>>
    BY <1>12 DEF WssServes
  <2> QED BY <2>1, <2>3, <2>4, <2>5 DEF TypeOK
<1>13. ASSUME NEW w \in Worker, NEW c \in Wss, Take(w, c) PROVE TypeOK'
  <2>1. tasks' \subseteq Wss
    BY <1>13 DEF Take, TypeOK
  <2>2. UNCHANGED <<owner, interest, conns, httpConns, objVars, batch, reaped, toClose, pc,
                    dropping, wfd>>
    BY <1>13 DEF Take
  <2>3. CASE c \in alive
    <3>1. wpc' = [wpc EXCEPT ![w] = "run"] /\ wobj' = [wobj EXCEPT ![w] = c] /\ wpc[w] = "idle"
      BY <1>13, <2>3 DEF Take
    <3> QED BY <2>1, <2>2, <3>1, Distinct DEF TypeOK
  <2>4. CASE c \notin alive
    <3>1. UNCHANGED <<wpc, wobj>>
      BY <1>13, <2>4 DEF Take
    <3> QED BY <2>1, <2>2, <3>1 DEF TypeOK
  <2> QED BY <2>3, <2>4
<1>14. ASSUME NEW w \in Worker, OpenFile(w) PROVE TypeOK'
  <2>1. owner' \in [Fd -> Wss \cup Http \cup {TempFile, Free}]
    BY <1>14 DEF OpenFile, TypeOK
  <2>2. UNCHANGED <<interest, conns, httpConns, objVars, tasks, batch, reaped, toClose, pc,
                    dropping, workVars>>
    BY <1>14 DEF OpenFile
  <2> QED BY <2>1, <2>2 DEF TypeOK
<1>15. ASSUME NEW f \in Fd, CloseFile(f) PROVE TypeOK'
  BY <1>15 DEF CloseFile, TypeOK
<1>16. ASSUME NEW w \in Worker, Reply(w) PROVE TypeOK'
  <2>1. /\ wpc' = [wpc EXCEPT ![w] = "mod"] \/ wpc' = [wpc EXCEPT ![w] = "end"]
        /\ wpc[w] = "run"
    BY <1>16 DEF Reply, Goes
  <2>2. UNCHANGED <<owner, interest, conns, httpConns, objVars, tasks, batch, reaped, toClose, pc,
                    dropping, wobj, wfd>>
    BY <1>16 DEF Reply
  <2> QED BY <2>1, <2>2 DEF TypeOK
<1>17. ASSUME NEW w \in Worker, ReadFd(w) PROVE TypeOK'
  <2>1. wobj[w] \in Wss /\ fdOf[wobj[w]] \in 0..MaxFd
    BY <1>17, Distinct DEF ReadFd, TypeOK
  <2>2. /\ wfd' = [wfd EXCEPT ![w] = fdOf[wobj[w]]]
        /\ wpc' = [wpc EXCEPT ![w] = IF fdOf[wobj[w]] = 0 THEN "end" ELSE "ctl"]
        /\ wpc[w] = "mod"
    BY <1>17 DEF ReadFd, Goes, TypeOK
  <2>3. UNCHANGED <<owner, interest, conns, httpConns, objVars, tasks, batch, reaped, toClose, pc,
                    dropping, wobj>>
    BY <1>17 DEF ReadFd
  <2> QED BY <2>1, <2>2, <2>3 DEF TypeOK
<1>18. ASSUME NEW w \in Worker, Ctl(w) PROVE TypeOK'
  <2>1. interest' \in [Fd -> SUBSET {"in", "out"}]
    BY <1>18 DEF Ctl, Mod, TypeOK
  <2>2. /\ wpc' = [wpc EXCEPT ![w] = "end"] /\ wfd' = [wfd EXCEPT ![w] = 0] /\ wpc[w] = "ctl"
        /\ 0 \in 0..MaxFd
    BY <1>18, DescriptorsAssumption DEF Ctl, Goes
  <2>3. UNCHANGED <<owner, conns, httpConns, objVars, tasks, batch, reaped, toClose, pc, dropping,
                    wobj>>
    BY <1>18 DEF Ctl
  <2> QED BY <2>1, <2>2, <2>3 DEF TypeOK
<1>19. ASSUME NEW w \in Worker, EndTask(w) PROVE TypeOK'
  <2>1. wobj[w] \in Wss
    BY <1>19 DEF EndTask, TypeOK
  <2>2. /\ owner' \in [Fd -> Wss \cup Http \cup {TempFile, Free}]
        /\ interest' \in [Fd -> SUBSET {"in", "out"}]
        /\ sslFd' \in [Wss -> 0..MaxFd] /\ tlsDone' \subseteq Wss
    BY <1>19, <2>1, ReleaseTypes DEF EndTask
  <2>3. /\ wpc' = [wpc EXCEPT ![w] = "idle"] /\ wobj' = [wobj EXCEPT ![w] = Nobody]
        /\ wpc[w] = "end"
    BY <1>19 DEF EndTask, Goes
  <2>4. UNCHANGED <<conns, httpConns, fdOf, seen, tasks, batch, reaped, toClose, pc, dropping, wfd>>
    BY <1>19 DEF EndTask
  <2> QED BY <2>2, <2>3, <2>4 DEF TypeOK
<1>20. CASE UNCHANGED vars
  BY <1>20 DEF vars, TypeOK
<1> QED
  BY <1>1, <1>2, <1>3, <1>4, <1>5, <1>6, <1>7, <1>8, <1>9, <1>10, <1>11, <1>12, <1>13, <1>14,
     <1>15, <1>16, <1>17, <1>18, <1>19, <1>20 DEF Next, IOStep, SockEvent, WorkerStep

(***************************************************************************)
(* The tables.                                                             *)
(***************************************************************************)
Tables == OwnDescriptor /\ InterestCoversPhase

(* A Connection that has a descriptor is in conns under it.                 *)
LEMMA InConns ==
  ASSUME TypeOK, OwnDescriptor, NEW c \in Wss, fdOf[c] # 0
  PROVE  fdOf[c] \in Fd /\ conns[fdOf[c]] = c
<1>1. fdOf[c] \in Fd /\ owner[fdOf[c]] = c
  BY DescriptorsAssumption DEF OwnDescriptor, TypeOK, Fd
<1>2. conns[fdOf[c]] # Nobody /\ conns[fdOf[c]] \in Wss
  BY <1>1 DEF OwnDescriptor, TypeOK
<1>3. fdOf[conns[fdOf[c]]] = fdOf[c]
  BY <1>1, <1>2 DEF OwnDescriptor
<1>4. owner[fdOf[conns[fdOf[c]]]] = conns[fdOf[c]]
  BY <1>2, <1>3 DEF OwnDescriptor
<1> QED BY <1>1, <1>3, <1>4

(* A step that touches one number has to agree on that one only.            *)
Agree(g) ==
  /\ owner[g] \in Wss <=> conns[g] # Nobody
  /\ owner[g] \in Http <=> httpConns[g] # "none"
  /\ owner[g] \in Wss \cup Http <=> interest[g] # {}

LEMMA OneNumber ==
  ASSUME OwnDescriptor, NEW f \in Fd, Agree(f)',
         \A g \in Fd \ {f} : /\ owner'[g] = owner[g] /\ interest'[g] = interest[g]
                             /\ conns'[g] = conns[g] /\ httpConns'[g] = httpConns[g]
  PROVE  \A g \in Fd : Agree(g)'
<1>1. SUFFICES ASSUME NEW g \in Fd, g # f PROVE Agree(g)'
  OBVIOUS
<1>2. /\ owner'[g] = owner[g] /\ interest'[g] = interest[g]
      /\ conns'[g] = conns[g] /\ httpConns'[g] = httpConns[g]
  BY <1>1
<1>3. Agree(g)
  BY DEF OwnDescriptor, Agree
<1> QED BY <1>2, <1>3 DEF Agree

LEMMA CloseStep ==
  ASSUME TypeOK, Tables, NEW f \in Fd, conns[f] # Nobody, closeConnection(f),
         UNCHANGED <<httpConns, sslFd>>
  PROVE  /\ Tables'
         /\ owner' = [owner EXCEPT ![f] = Free] /\ conns' = [conns EXCEPT ![f] = Nobody]
         /\ dropping' = conns[f] /\ conns[f] \in Wss /\ fdOf'[conns[f]] = 0 /\ pc' = "drop"
<1> DEFINE c == conns[f]
<1>1. c \in Wss /\ fdOf[c] = f /\ owner[f] = c
  <2>1. c \in Wss /\ fdOf[c] = f /\ f # 0
    BY Distinct DEF TypeOK, Tables, OwnDescriptor
  <2> QED BY <2>1 DEF Tables, OwnDescriptor
<1>2. /\ owner' = [owner EXCEPT ![f] = Free] /\ conns' = [conns EXCEPT ![f] = Nobody]
      /\ interest' = [interest EXCEPT ![f] = {}] /\ fdOf' = [fdOf EXCEPT ![c] = 0]
      /\ dropping' = c /\ pc' = "drop"
  BY <1>1 DEF closeConnection
<1>3. httpConns[f] = "none"
  BY <1>1, Distinct DEF Tables, OwnDescriptor
<1>4. UNCHANGED alive
  BY DEF alive
<1>5. \A g \in Fd : conns[g] # Nobody => (conns[g] = c <=> g = f)
  BY <1>1 DEF Tables, OwnDescriptor
<1> HIDE DEF c
<1>6. \A g \in Fd : conns'[g] # Nobody => conns'[g] \in alive' /\ fdOf'[conns'[g]] = g
  BY <1>1, <1>2, <1>4, <1>5, Distinct DEF Tables, OwnDescriptor, TypeOK
<1>7. \A g \in Fd : Agree(g)'
  <2>1. \A g \in Fd \ {f} : /\ owner'[g] = owner[g] /\ interest'[g] = interest[g]
                               /\ conns'[g] = conns[g] /\ httpConns'[g] = httpConns[g]
    BY <1>2, <1>3 DEF TypeOK
  <2>2. Agree(f)'
    BY <1>2, <1>3, Distinct DEF TypeOK, Agree
  <2> QED BY <2>1, <2>2, OneNumber DEF Tables
<1>8. \A d \in Wss : fdOf'[d] # 0 => owner'[fdOf'[d]] = d
  <2>1. SUFFICES ASSUME NEW d \in Wss, fdOf'[d] # 0 PROVE owner'[fdOf'[d]] = d
    OBVIOUS
  <2>2. d # c /\ fdOf'[d] = fdOf[d]
    BY <1>1, <1>2, <2>1 DEF TypeOK
  <2>3. fdOf[d] \in Fd /\ owner[fdOf[d]] = d
    BY <2>1, <2>2, InConns DEF Tables, OwnDescriptor
  <2> QED BY <1>1, <1>2, <2>2, <2>3 DEF TypeOK
<1>9. InterestCoversPhase'
  BY <1>2, <1>3 DEF Tables, InterestCoversPhase, TypeOK
<1>10. fdOf'[c] = 0
  BY <1>1, <1>2 DEF TypeOK
<1> QED BY <1>1, <1>2, <1>6, <1>7, <1>8, <1>9, <1>10 DEF Tables, OwnDescriptor, Agree, c

(* The destructor of a Connection that has no descriptor.                   *)
LEMMA ReleaseStep ==
  ASSUME TypeOK, Tables, NEW c \in Wss, NEW held \in BOOLEAN, ~ held => fdOf[c] = 0,
         Release(c, held), UNCHANGED <<conns, httpConns, fdOf>>
  PROVE  Tables' /\ UNCHANGED owner
<1>1. UNCHANGED <<owner, interest>>
  BY DEF Release, Destroy
<1>2. \A f \in Fd : conns[f] # Nobody => conns[f] \in alive'
  <2>1. CASE held
    BY <2>1 DEF Release, alive, Tables, OwnDescriptor
  <2>2. CASE ~ held
    <3>1. sslFd' = [sslFd EXCEPT ![c] = 0] /\ fdOf[c] = 0
      BY <2>2 DEF Release, Destroy
    <3>2. \A f \in Fd : conns[f] # Nobody => conns[f] \in alive /\ conns[f] # c
      BY <3>1, Distinct DEF Tables, OwnDescriptor
    <3> QED BY <3>1, <3>2 DEF alive, TypeOK
  <2> QED BY <2>1, <2>2
<1> QED BY <1>1, <1>2 DEF Tables, OwnDescriptor, InterestCoversPhase

LEMMA TablesStep == ASSUME TypeOK, Tables, Lists, [Next]_vars PROVE Tables'
<1> USE DEF objVars, workVars
<1>1. ASSUME UNCHANGED <<owner, interest, conns, httpConns, fdOf, sslFd>> PROVE Tables'
  BY <1>1 DEF Tables, OwnDescriptor, InterestCoversPhase, alive
<1>2. CASE EpollWait \/ AcceptEnds \/ AcceptFails \/ UNCHANGED vars
  BY <1>1, <1>2 DEF EpollWait, AcceptEnds, AcceptFails, vars
<1>3. ASSUME NEW e \in batch, TimerEvent(e) \/ ListenEvent(e) \/ UnknownFd(e) PROVE Tables'
  BY <1>1, <1>3 DEF TimerEvent, ListenEvent, UnknownFd
<1>4. ASSUME NEW w \in Worker, Reply(w) \/ ReadFd(w) \/ (\E c \in Wss : Take(w, c)) PROVE Tables'
  BY <1>1, <1>4 DEF Reply, ReadFd, Take
<1>5. CASE DropRef
  <2>1. dropping \in Wss /\ fdOf[dropping] = 0
    BY <1>5 DEF DropRef, Lists
  <2> QED BY <1>5, <2>1, ReleaseStep DEF DropRef
<1>6. ASSUME NEW w \in Worker, EndTask(w) PROVE Tables'
  <2> DEFINE c == wobj[w]
             held == (\E f \in Fd : conns[f] = c) \/ dropping = c \/ \E v \in Worker \ {w} : wobj[v] = c
  <2>1. c \in Wss /\ Release(c, held) /\ UNCHANGED <<conns, httpConns, fdOf>>
    BY <1>6 DEF EndTask, TypeOK
  <2>2. ~ held => fdOf[c] = 0
    BY <2>1, InConns DEF Tables
  <2> QED BY <2>1, <2>2, ReleaseStep
<1>7. ASSUME NEW c \in Wss, Accept(c) PROVE Tables'
  <2>1. PICK f \in Fd : /\ owner[f] = Free
                        /\ owner' = [owner EXCEPT ![f] = c]
                        /\ interest' = [interest EXCEPT ![f] = {"in"}]
                        /\ conns' = [conns EXCEPT ![f] = c]
                        /\ fdOf' = [fdOf EXCEPT ![c] = f] /\ sslFd' = [sslFd EXCEPT ![c] = f]
                        /\ UNCHANGED httpConns
    BY <1>7 DEF Accept, LowestFree, FreeFds
  <2>2. httpConns[f] = "none" /\ conns[f] = Nobody
    BY <2>1, Distinct DEF Tables, OwnDescriptor
  <2>3. fdOf[c] = 0 /\ c # Nobody /\ f \in 0..MaxFd /\ f # 0
    BY <1>7, Distinct DEF Accept, Lists
  <2>4. \A g \in Fd : conns[g] # c
    BY <2>3, Distinct DEF Tables, OwnDescriptor
  <2>5. \A d \in Wss : d # c => fdOf'[d] = fdOf[d] /\ sslFd'[d] = sslFd[d]
    BY <2>1 DEF TypeOK
  <2>6. fdOf'[c] = f /\ sslFd'[c] = f
    BY <2>1 DEF TypeOK
  <2>7. \A g \in Fd : conns'[g] # Nobody => conns'[g] \in alive' /\ fdOf'[conns'[g]] = g
    <3>1. SUFFICES ASSUME NEW g \in Fd, conns'[g] # Nobody
                   PROVE  conns'[g] \in alive' /\ fdOf'[conns'[g]] = g
      OBVIOUS
    <3>2. CASE g = f
      BY <2>1, <2>3, <2>6, <3>2 DEF TypeOK, alive
    <3>3. CASE g # f
      BY <2>1, <2>4, <2>5, <3>1, <3>3 DEF Tables, OwnDescriptor, TypeOK, alive
    <3> QED BY <3>2, <3>3
  <2>8. \A g \in Fd : Agree(g)'
    <3>1. \A g \in Fd \ {f} : /\ owner'[g] = owner[g] /\ interest'[g] = interest[g]
                                 /\ conns'[g] = conns[g] /\ httpConns'[g] = httpConns[g]
      BY <2>1, <2>2, <2>3 DEF TypeOK
    <3>2. Agree(f)'
      BY <2>1, <2>2, <2>3, Distinct DEF TypeOK, Agree
    <3> QED BY <3>1, <3>2, OneNumber DEF Tables
  <2>9. \A d \in Wss : fdOf'[d] # 0 => owner'[fdOf'[d]] = d
    <3>1. SUFFICES ASSUME NEW d \in Wss, fdOf'[d] # 0 PROVE owner'[fdOf'[d]] = d
      OBVIOUS
    <3>2. CASE d = c
      BY <2>1, <2>6, <3>2 DEF TypeOK
    <3>3. CASE d # c
      <4>1. fdOf[d] \in Fd /\ owner[fdOf[d]] = d /\ fdOf'[d] = fdOf[d]
        BY <2>5, <3>1, <3>3, InConns DEF Tables, OwnDescriptor
      <4>2. fdOf[d] # f
        BY <2>1, <4>1, Distinct
      <4> QED BY <2>1, <4>1, <4>2 DEF TypeOK
    <3> QED BY <3>2, <3>3
  <2>10. InterestCoversPhase'
    BY <2>1, <2>2 DEF Tables, InterestCoversPhase, TypeOK
  <2> QED BY <2>7, <2>8, <2>9, <2>10 DEF Tables, OwnDescriptor, Agree
<1>8. ASSUME NEW h \in Http, HttpAccept(h) PROVE Tables'
  <2>1. PICK f \in Fd : /\ owner[f] = Free
                        /\ owner' = [owner EXCEPT ![f] = h]
                        /\ interest' = [interest EXCEPT ![f] = {"in"}]
                        /\ httpConns' = [httpConns EXCEPT ![f] = IF @ = "none" THEN "reading" ELSE @]
                        /\ UNCHANGED <<conns, fdOf, sslFd>>
    BY <1>8 DEF HttpAccept, LowestFree, FreeFds
  <2>2. httpConns[f] = "none" /\ conns[f] = Nobody /\ h \notin Wss
    BY <2>1, Distinct DEF Tables, OwnDescriptor
  <2>3. \A d \in Wss : fdOf[d] # 0 => owner'[fdOf[d]] = d
    BY <2>1, InConns, Distinct DEF Tables, OwnDescriptor, TypeOK
  <2>4. \A g \in Fd : Agree(g)'
    <3>1. \A g \in Fd \ {f} : /\ owner'[g] = owner[g] /\ interest'[g] = interest[g]
                                 /\ conns'[g] = conns[g] /\ httpConns'[g] = httpConns[g]
      BY <2>1, <2>2 DEF TypeOK
    <3>2. Agree(f)'
      BY <2>1, <2>2, Distinct DEF TypeOK, Agree
    <3> QED BY <3>1, <3>2, OneNumber DEF Tables
  <2>5. InterestCoversPhase'
    BY <2>1, <2>2 DEF Tables, InterestCoversPhase, TypeOK
  <2> QED BY <2>1, <2>3, <2>4, <2>5 DEF Tables, OwnDescriptor, Agree, alive
<1>9. ASSUME NEW f \in Fd, Reap(f) PROVE Tables'
  <2>1. conns[f] # Nobody
    BY <1>9, Distinct DEF Reap, Lists, TypeOK
  <2> QED BY <1>9, <2>1, CloseStep DEF Reap
<1>10. ASSUME NEW e \in batch, NEW f \in Fd, WssCloses(e, f) PROVE Tables'
  BY <1>10, CloseStep DEF WssCloses, WssTurn
<1>11. ASSUME UNCHANGED <<owner, conns, httpConns, fdOf, sslFd>>,
              \A f \in Fd : /\ interest'[f] # {} <=> interest[f] # {}
                            /\ conns[f] # Nobody => "in" \in interest'[f]
                            /\ httpConns[f] = "reading" => "in" \in interest'[f]
                            /\ httpConns[f] = "writing" => "out" \in interest'[f]
       PROVE  Tables'
  BY <1>11 DEF Tables, OwnDescriptor, InterestCoversPhase, alive
<1>12. ASSUME NEW e \in batch, WakeEvent(e) PROVE Tables'
  <2>1. PICK out \in SUBSET {f \in Fd : conns[f] \in tlsDone} :
          interest' = [f \in Fd |-> IF conns[f] \notin tlsDone THEN interest[f]
                                    ELSE IF f \in out THEN {"in", "out"} ELSE {"in"}]
    BY <1>12 DEF WakeEvent
  <2>2. UNCHANGED <<owner, conns, httpConns, fdOf, sslFd>>
    BY <1>12 DEF WakeEvent
  <2>3. \A f \in Fd : conns[f] \in tlsDone => conns[f] # Nobody /\ interest[f] # {}
                                                /\ httpConns[f] = "none"
    BY Distinct DEF Tables, OwnDescriptor, TypeOK
  <2> QED BY <1>11, <2>1, <2>2, <2>3 DEF Tables, InterestCoversPhase
<1>13. ASSUME NEW w \in Worker, Ctl(w) PROVE Tables'
  <2>1. interest' = [interest EXCEPT ![wfd[w]] = IF @ = {} THEN {} ELSE {"in", "out"}]
        /\ UNCHANGED <<owner, conns, httpConns, fdOf, sslFd>>
    BY <1>13 DEF Ctl, Mod
  <2>2. \A f \in Fd : interest'[f] = interest[f] \/ (interest[f] # {} /\ interest'[f] = {"in", "out"})
    BY <2>1 DEF TypeOK
  <2> QED BY <1>11, <2>1, <2>2 DEF Tables, InterestCoversPhase
<1>14. ASSUME NEW e \in batch, NEW f \in Fd, WssServes(e, f) PROVE Tables'
  <2>1. PICK out \in SUBSET {"out"} : interest' = [interest EXCEPT ![f] = {"in"} \cup out]
    BY <1>14 DEF WssServes
  <2>2. conns[f] # Nobody /\ httpConns[f] = "none" /\ interest[f] # {}
    BY <1>14 DEF WssServes, WssTurn, Tables, OwnDescriptor
  <2>3. UNCHANGED <<owner, conns, httpConns, fdOf, sslFd>>
    BY <1>14 DEF WssServes
  <2> QED BY <1>11, <2>1, <2>2, <2>3 DEF Tables, InterestCoversPhase, TypeOK
<1>15. ASSUME NEW e \in batch, NEW f \in Fd, HttpReads(e, f) PROVE Tables'
  <2>1. conns[f] = Nobody /\ interest[f] # {} /\ httpConns[f] = "reading"
    <3>1. httpConns[f] = "reading"
      BY <1>15 DEF HttpReads
    <3> QED BY <3>1, Distinct DEF Tables, OwnDescriptor
  <2>2. UNCHANGED <<owner, conns, fdOf, sslFd>>
    BY <1>15 DEF HttpReads, HttpUnchanged
  <2>3. CASE /\ httpConns' = [httpConns EXCEPT ![f] = "writing"]
             /\ interest' = [interest EXCEPT ![f] = {"out"}]
    <3>1. \A g \in Fd : Agree(g)'
      <4>1. \A g \in Fd \ {f} : /\ owner'[g] = owner[g] /\ interest'[g] = interest[g]
                                 /\ conns'[g] = conns[g] /\ httpConns'[g] = httpConns[g]
        BY <2>2, <2>3 DEF TypeOK
      <4>2. httpConns'[f] # "none" /\ interest'[f] # {} /\ owner'[f] = owner[f] /\ conns'[f] = conns[f]
        BY <2>2, <2>3 DEF TypeOK
      <4>3. Agree(f)'
        BY <2>1, <4>2 DEF Tables, OwnDescriptor, Agree
      <4> QED BY <4>1, <4>3, OneNumber DEF Tables
    <3>2. InterestCoversPhase'
      BY <2>1, <2>2, <2>3 DEF Tables, InterestCoversPhase, TypeOK
    <3> QED BY <2>2, <3>1, <3>2 DEF Tables, OwnDescriptor, Agree, alive
  <2>4. CASE interest' = [interest EXCEPT ![f] = {"in"}] /\ UNCHANGED httpConns
    BY <1>11, <2>1, <2>2, <2>4 DEF Tables, InterestCoversPhase, TypeOK
  <2> QED BY <1>15, <2>3, <2>4 DEF HttpReads
<1>16. ASSUME NEW e \in batch, NEW f \in Fd, HttpKept(e, f) PROVE Tables'
  BY <1>1, <1>16 DEF HttpKept, HttpUnchanged
<1>17. ASSUME NEW e \in batch, NEW f \in Fd, HttpCloses(e, f) PROVE Tables'
  <2>1. owner[f] \in Http /\ conns[f] = Nobody
    BY <1>17, Distinct DEF HttpCloses, HttpTurn, Tables, OwnDescriptor
  <2>2. /\ owner' = [owner EXCEPT ![f] = Free] /\ interest' = [interest EXCEPT ![f] = {}]
        /\ httpConns' = [httpConns EXCEPT ![f] = "none"] /\ UNCHANGED <<conns, fdOf, sslFd>>
    BY <1>17 DEF HttpCloses, closeHttpConnection, HttpUnchanged
  <2>3. \A d \in Wss : fdOf[d] # 0 => owner'[fdOf[d]] = d
    BY <2>1, <2>2, InConns, Distinct DEF Tables, OwnDescriptor, TypeOK
  <2>4. \A g \in Fd : Agree(g)'
    <3>1. \A g \in Fd \ {f} : /\ owner'[g] = owner[g] /\ interest'[g] = interest[g]
                                 /\ conns'[g] = conns[g] /\ httpConns'[g] = httpConns[g]
      BY <2>1, <2>2 DEF TypeOK
    <3>2. Agree(f)'
      BY <2>1, <2>2, Distinct DEF TypeOK, Agree
    <3> QED BY <3>1, <3>2, OneNumber DEF Tables
  <2>5. InterestCoversPhase'
    BY <2>1, <2>2 DEF Tables, InterestCoversPhase, TypeOK
  <2> QED BY <2>2, <2>3, <2>4, <2>5 DEF Tables, OwnDescriptor, Agree, alive
<1>18. ASSUME NEW o, NEW p, NEW f \in Fd, {o, p} = {Free, TempFile},
              owner[f] = o, owner' = [owner EXCEPT ![f] = p],
              UNCHANGED <<interest, conns, httpConns, fdOf, sslFd>>
       PROVE  Tables'
  <2>1. o \notin Wss \cup Http /\ p \notin Wss \cup Http
    BY <1>18, Distinct
  <2>2. \A d \in Wss : fdOf[d] # 0 => owner'[fdOf[d]] = d
    BY <1>18, <2>1, InConns DEF Tables, OwnDescriptor, TypeOK
  <2>3. \A g \in Fd : (owner'[g] \in Wss <=> owner[g] \in Wss) /\ (owner'[g] \in Http <=> owner[g] \in Http)
    BY <1>18, <2>1 DEF TypeOK
  <2> QED BY <1>18, <2>2, <2>3 DEF Tables, OwnDescriptor, InterestCoversPhase, alive
<1>19. ASSUME NEW w \in Worker, OpenFile(w) PROVE Tables'
  <2>1. PICK f \in Fd : owner[f] = Free /\ owner' = [owner EXCEPT ![f] = TempFile]
    BY <1>19 DEF OpenFile, LowestFree, FreeFds
  <2>2. UNCHANGED <<interest, conns, httpConns, fdOf, sslFd>>
    BY <1>19 DEF OpenFile
  <2> QED BY <1>18, <2>1, <2>2
<1>20. ASSUME NEW f \in Fd, CloseFile(f) PROVE Tables'
  BY <1>18, <1>20 DEF CloseFile
<1> QED
  BY <1>2, <1>3, <1>4, <1>5, <1>6, <1>7, <1>8, <1>9, <1>10, <1>12, <1>13, <1>14, <1>15, <1>16,
     <1>17, <1>19, <1>20 DEF Next, IOStep, SockEvent, WorkerStep

(***************************************************************************)
(* The lists of the IO thread and the events of its batch.                 *)
(***************************************************************************)
LEMMA ListsStep == ASSUME TypeOK, Tables, Lists, [Next]_vars PROVE Lists'
<1> USE DEF objVars, workVars
<1>1. CASE DropRef
  <2>1. UNCHANGED <<conns, fdOf, seen, reaped, toClose>> /\ pc' = IF toClose = {} THEN "loop" ELSE "reap"
    BY <1>1 DEF DropRef
  <2> QED BY <2>1 DEF Lists
<1>2. ASSUME NEW c \in Wss, Accept(c) PROVE Lists'
  <2>1. pc = "accept" /\ toClose = {} /\ pc' = pc /\ toClose' = toClose /\ seen' = seen \cup {c}
    BY <1>2 DEF Accept, Lists
  <2>2. PICK f \in Fd : fdOf' = [fdOf EXCEPT ![c] = f]
    BY <1>2 DEF Accept
  <2>3. \A d \in Wss \ seen' : fdOf'[d] = fdOf[d] /\ d \notin seen
    BY <2>1, <2>2 DEF TypeOK
  <2> QED BY <2>1, <2>3 DEF Lists
<1>3. ASSUME NEW f \in Fd, Reap(f) PROVE Lists'
  <2>1. conns[f] # Nobody
    BY <1>3, Distinct DEF Reap, Lists, TypeOK
  <2>2. /\ conns' = [conns EXCEPT ![f] = Nobody] /\ dropping' = conns[f] /\ conns[f] \in Wss
        /\ fdOf'[conns[f]] = 0 /\ pc' = "drop" /\ fdOf' = [fdOf EXCEPT ![conns[f]] = 0]
    BY <1>3, <2>1, CloseStep DEF Reap, closeConnection
  <2>3. toClose' = toClose \ {f} /\ UNCHANGED <<reaped, seen>>
    BY <1>3 DEF Reap
  <2>4. \A g \in toClose' : conns'[g] \in reaped'
    BY <2>2, <2>3 DEF Lists, TypeOK
  <2>5. \A d \in Wss \ seen' : fdOf'[d] = 0
    BY <2>2, <2>3 DEF Lists, TypeOK
  <2> QED BY <2>2, <2>4, <2>5 DEF Lists
<1>4. ASSUME NEW e \in batch, TimerEvent(e) PROVE Lists'
  <2>1. /\ toClose' \in SUBSET {f \in Fd : conns[f] # Nobody}
        /\ reaped' = reaped \cup {conns[f] : f \in toClose'}
        /\ pc' = IF toClose' = {} THEN "loop" ELSE "reap"
        /\ UNCHANGED <<conns, fdOf, seen>>
    BY <1>4 DEF TimerEvent
  <2> QED BY <2>1 DEF Lists
<1>5. ASSUME NEW e \in batch, NEW f \in Fd, WssCloses(e, f) PROVE Lists'
  <2>1. pc = "loop" /\ conns[f] # Nobody
    BY <1>5 DEF WssCloses, WssTurn, Taken
  <2>2. /\ dropping' = conns[f] /\ conns[f] \in Wss /\ fdOf'[conns[f]] = 0 /\ pc' = "drop"
        /\ fdOf' = [fdOf EXCEPT ![conns[f]] = 0]
    BY <1>5, <2>1, CloseStep DEF WssCloses, closeConnection
  <2>3. toClose' = toClose /\ toClose = {} /\ seen' = seen
    BY <1>5, <2>1 DEF WssCloses, Lists
  <2>4. \A d \in Wss \ seen' : fdOf'[d] = 0
    BY <2>2, <2>3 DEF Lists, TypeOK
  <2> QED BY <2>2, <2>3, <2>4 DEF Lists
<1>6. ASSUME pc' # "drop", toClose = {}, UNCHANGED <<fdOf, toClose>>, seen \subseteq seen' PROVE Lists'
  BY <1>6 DEF Lists
<1>7. CASE EpollWait \/ AcceptEnds \/ AcceptFails
  <2>1. pc \in {"loop", "accept", "http_accept"} /\ pc' # "drop" /\ UNCHANGED <<fdOf, toClose, seen>>
    BY <1>7 DEF EpollWait, AcceptEnds, AcceptFails
  <2>2. toClose = {}
    BY <2>1 DEF Lists
  <2> QED BY <1>6, <2>1, <2>2
<1>8. ASSUME NEW h \in Http, HttpAccept(h) PROVE Lists'
  <2>1. pc = "http_accept" /\ pc' = pc /\ UNCHANGED <<fdOf, toClose>> /\ seen \subseteq seen'
    BY <1>8 DEF HttpAccept
  <2>2. toClose = {}
    BY <2>1 DEF Lists
  <2> QED BY <1>6, <2>1, <2>2
<1>9. ASSUME NEW e \in batch, \/ WakeEvent(e) \/ ListenEvent(e) \/ UnknownFd(e)
                              \/ \E f \in Fd : \/ HttpCloses(e, f) \/ HttpReads(e, f)
                                               \/ HttpKept(e, f) \/ WssServes(e, f)
      PROVE  Lists'
  <2>1. pc = "loop" /\ pc' # "drop"
    BY <1>9 DEF WakeEvent, ListenEvent, UnknownFd, HttpCloses, HttpReads, HttpKept, HttpUnchanged,
                HttpTurn, WssServes, WssTurn, Taken
  <2>2. UNCHANGED <<fdOf, toClose, seen>>
    BY <1>9 DEF WakeEvent, ListenEvent, UnknownFd, HttpCloses, HttpReads, HttpKept, HttpUnchanged,
                WssServes
  <2>3. toClose = {}
    BY <2>1 DEF Lists
  <2> QED BY <1>6, <2>1, <2>2, <2>3
<1>10. ASSUME UNCHANGED <<conns, fdOf, seen, reaped, toClose, pc, dropping>> PROVE Lists'
  BY <1>10 DEF Lists
<1>11. ASSUME NEW w \in Worker, WorkerStep(w) PROVE Lists'
  BY <1>10, <1>11 DEF WorkerStep, Take, OpenFile, Reply, ReadFd, Ctl, EndTask
<1>12. ASSUME NEW f \in Fd, CloseFile(f) PROVE Lists'
  BY <1>10, <1>12 DEF CloseFile
<1>13. CASE UNCHANGED vars
  BY <1>10, <1>13 DEF vars
<1> QED BY <1>1, <1>2, <1>3, <1>4, <1>5, <1>7, <1>8, <1>9, <1>11, <1>12, <1>13
        DEF Next, IOStep, SockEvent

(* A step that takes no number from a connection and adds no event.         *)
LEMMA EventsKept ==
  ASSUME TypeOK, Events, batch' \subseteq batch, reaped \subseteq reaped',
         \A f \in Fd : owner[f] \in Wss \cup Http => owner'[f] = owner[f] \/ owner[f] \in reaped'
  PROVE  Events'
<1>1. \A e \in batch : e.kind = "sock" => e.fd \in Fd /\ e.of \in Wss \cup Http
  BY DEF TypeOK, Event
<1> QED BY <1>1 DEF Events

LEMMA EventsStep == ASSUME TypeOK, Tables, Lists, Events, [Next]_vars PROVE Events'
<1> USE DEF objVars, workVars
<1>1. CASE EpollWait
  <2>1. owner' = owner
    BY <1>1 DEF EpollWait
  <2> QED BY <1>1, <2>1, EpollTypes DEF Tables, Events
<1>2. ASSUME UNCHANGED <<owner, reaped>>, batch' \subseteq batch PROVE Events'
  BY <1>2, EventsKept
<1>3. CASE AcceptEnds \/ AcceptFails \/ UNCHANGED vars
  BY <1>2, <1>3 DEF AcceptEnds, AcceptFails, vars
<1>4. CASE DropRef
  <2>1. dropping \in Wss /\ fdOf[dropping] = 0 /\ UNCHANGED <<conns, httpConns, fdOf, batch, reaped>>
    BY <1>4 DEF DropRef, Lists
  <2>2. UNCHANGED owner
    BY <1>4, <2>1, ReleaseStep DEF DropRef
  <2> QED BY <1>2, <2>1, <2>2
<1>5. ASSUME NEW w \in Worker, EndTask(w) PROVE Events'
  <2> DEFINE c == wobj[w]
             held == (\E f \in Fd : conns[f] = c) \/ dropping = c \/ \E v \in Worker \ {w} : wobj[v] = c
  <2>1. c \in Wss /\ Release(c, held) /\ UNCHANGED <<conns, httpConns, fdOf, batch, reaped>>
    BY <1>5 DEF EndTask, TypeOK
  <2>2. ~ held => fdOf[c] = 0
    BY <2>1, InConns DEF Tables
  <2>3. UNCHANGED owner
    BY <2>1, <2>2, ReleaseStep
  <2> QED BY <1>2, <2>1, <2>3
<1>6. ASSUME NEW w \in Worker, Reply(w) \/ ReadFd(w) \/ Ctl(w) \/ (\E c \in Wss : Take(w, c))
      PROVE  Events'
  BY <1>2, <1>6 DEF Reply, ReadFd, Ctl, Take
<1>7. ASSUME NEW e \in batch, \/ WakeEvent(e) \/ ListenEvent(e) \/ UnknownFd(e)
                              \/ \E f \in Fd : HttpReads(e, f) \/ HttpKept(e, f) \/ WssServes(e, f)
      PROVE  Events'
  <2>1. UNCHANGED <<owner, reaped>>
    BY <1>7 DEF WakeEvent, ListenEvent, UnknownFd, HttpReads, HttpKept, HttpUnchanged, WssServes
  <2>2. batch' \subseteq batch
    BY <1>7 DEF WakeEvent, ListenEvent, UnknownFd, HttpReads, HttpKept, HttpTurn, WssServes,
                WssTurn, Taken
  <2> QED BY <1>2, <2>1, <2>2
<1>8. ASSUME NEW e \in batch, TimerEvent(e) PROVE Events'
  <2>1. owner' = owner /\ reaped \subseteq reaped' /\ batch' \subseteq batch
    BY <1>8 DEF TimerEvent, Taken
  <2> QED BY <2>1, EventsKept
<1>9. ASSUME NEW f \in Fd, owner[f] \in {Free, TempFile}, UNCHANGED <<batch, reaped>>,
             \A g \in Fd \ {f} : owner'[g] = owner[g]
      PROVE  Events'
  <2>1. \A g \in Fd : owner[g] \in Wss \cup Http => owner'[g] = owner[g]
    BY <1>9, Distinct
  <2> QED BY <1>9, <2>1, EventsKept
<1>10. ASSUME NEW c \in Wss, Accept(c) PROVE Events'
  <2>1. PICK f \in Fd : owner[f] = Free /\ \A g \in Fd \ {f} : owner'[g] = owner[g]
    BY <1>10 DEF Accept, LowestFree, FreeFds, TypeOK
  <2>2. UNCHANGED <<batch, reaped>>
    BY <1>10 DEF Accept
  <2> QED BY <1>9, <2>1, <2>2
<1>11. ASSUME NEW h \in Http, HttpAccept(h) PROVE Events'
  <2>1. PICK f \in Fd : owner[f] = Free /\ \A g \in Fd \ {f} : owner'[g] = owner[g]
    BY <1>11 DEF HttpAccept, LowestFree, FreeFds, TypeOK
  <2>2. UNCHANGED <<batch, reaped>>
    BY <1>11 DEF HttpAccept
  <2> QED BY <1>9, <2>1, <2>2
<1>12. ASSUME NEW w \in Worker, OpenFile(w) PROVE Events'
  <2>1. PICK f \in Fd : owner[f] = Free /\ \A g \in Fd \ {f} : owner'[g] = owner[g]
    BY <1>12 DEF OpenFile, LowestFree, FreeFds, TypeOK
  <2>2. UNCHANGED <<batch, reaped>>
    BY <1>12 DEF OpenFile
  <2> QED BY <1>9, <2>1, <2>2
<1>13. ASSUME NEW f \in Fd, CloseFile(f) PROVE Events'
  BY <1>9, <1>13 DEF CloseFile, TypeOK
<1>14. ASSUME NEW f \in Fd, Reap(f) PROVE Events'
  <2>1. conns[f] # Nobody /\ conns[f] \in reaped
    BY <1>14, Distinct DEF Reap, Lists, TypeOK
  <2>2. owner' = [owner EXCEPT ![f] = Free] /\ UNCHANGED <<batch, reaped>>
    BY <1>14, <2>1, CloseStep DEF Reap
  <2>3. owner[f] = conns[f]
    <3>1. conns[f] \in Wss /\ fdOf[conns[f]] = f /\ f # 0
      BY <2>1, Distinct DEF Tables, OwnDescriptor, TypeOK
    <3> QED BY <3>1 DEF Tables, OwnDescriptor
  <2>4. \A g \in Fd : owner'[g] = owner[g] \/ owner[g] \in reaped'
    BY <2>1, <2>2, <2>3 DEF TypeOK
  <2> QED BY <2>2, <2>4, EventsKept
<1>15. ASSUME NEW e \in batch, NEW f \in Fd, e.kind = "sock", e.fd = f, batch' = batch \ {e},
              reaped' = reaped, owner' = [owner EXCEPT ![f] = Free]
       PROVE  Events'
  <2>1. \A d \in batch' : d.kind = "sock" => d \in batch /\ d.fd \in Fd /\ d.fd # f
    BY <1>15 DEF Events, TypeOK, Event
  <2>2. \A g \in Fd : g # f => owner'[g] = owner[g]
    BY <1>15 DEF TypeOK
  <2> QED BY <1>15, <2>1, <2>2 DEF Events
<1>16. ASSUME NEW e \in batch, NEW f \in Fd, HttpCloses(e, f) PROVE Events'
  BY <1>15, <1>16 DEF HttpCloses, HttpTurn, Taken, closeHttpConnection, HttpUnchanged
<1>17. ASSUME NEW e \in batch, NEW f \in Fd, WssCloses(e, f) PROVE Events'
  <2>1. e.kind = "sock" /\ e.fd = f /\ batch' = batch \ {e} /\ conns[f] # Nobody /\ reaped' = reaped
    BY <1>17 DEF WssCloses, WssTurn, Taken
  <2>2. owner' = [owner EXCEPT ![f] = Free]
    BY <1>17, <2>1, CloseStep DEF WssCloses
  <2> QED BY <1>15, <2>1, <2>2
<1> QED
  BY <1>1, <1>3, <1>4, <1>5, <1>6, <1>7, <1>8, <1>10, <1>11, <1>12, <1>13, <1>14, <1>16, <1>17
     DEF Next, IOStep, SockEvent, WorkerStep

(***************************************************************************)
(* The theorems.                                                           *)
(***************************************************************************)
LEMMA InitInv == Init => IInv
<1> SUFFICES ASSUME Init PROVE IInv
  OBVIOUS
<1>1. TypeOK
  BY DescriptorsAssumption DEF Init, TypeOK
<1>2. OwnDescriptor
  BY Distinct DEF Init, OwnDescriptor
<1> QED BY <1>1, <1>2 DEF IInv, Init, InterestCoversPhase, Lists, Events

LEMMA StepInv == IInv /\ [Next]_vars => IInv'
BY TypeStep, TablesStep, ListsStep, EventsStep DEF IInv, Tables

LEMMA Invariance == Spec => []IInv
BY InitInv, StepInv, PTL DEF Spec

(* Types: every table, object and event names an existing number, and a    *)
(* worker has a Connection and a number in hand exactly where it uses them. *)
THEOREM TypeCorrect == Spec => []TypeOK
<1>1. IInv => TypeOK
  BY DEF IInv
<1> QED BY <1>1, Invariance, PTL

(* No close, by closeConnection, by closeHttpConnection or by the           *)
(* destructor, and no table entry ever names a number that another socket   *)
(* or a temporary file has (WssServer.cpp:183-220, 1204-1309).              *)
THEOREM NumbersOwned == Spec => []OwnDescriptor
<1>1. IInv => OwnDescriptor
  BY DEF IInv
<1> QED BY <1>1, Invariance, PTL

(* A worker's late epoll_ctl never takes away an interest that the number's *)
(* present owner waits for (WssServer.cpp:222-231, 417).                    *)
THEOREM InterestKept == Spec => []InterestCoversPhase
<1>1. IInv => InterestCoversPhase
  BY DEF IInv
<1> QED BY <1>1, Invariance, PTL

(* Only the timer's reaping can make an event of a batch meet another       *)
(* connection than its own (WssServer.cpp:1143-1152, 1311-1313).            *)
THEOREM StaleEvents == Spec => []StaleOnlyAfterReap
<1>1. IInv => StaleOnlyAfterReap
  BY DEF IInv, Events, StaleOnlyAfterReap
<1> QED BY <1>1, Invariance, PTL
=============================================================================
