----------------------------- MODULE Heartbeat -----------------------------
(***************************************************************************)
(* When the server's timer pings a connection and when it gives one up     *)
(* (src/src/server/WssServer.cpp): the two intervals run() computes from   *)
(* its settings, the time stamps last_ping and last_server_ping_sent, and  *)
(* the scan of all connections once a second.                              *)
(*                                                                         *)
(* The scan treats each connection by itself, so the module has one.  Time *)
(* passes in units of 1/Res second; a time stamp is kept as its age.  The  *)
(* IO thread may be busy when the timer expires and scan up to MaxLate     *)
(* units later.  Frames and flushes are those of SendPath, reduced to what *)
(* they do to the time stamps and to `closing`.                            *)
(***************************************************************************)
EXTENDS Integers

CONSTANTS
  IdleSettings,  \* values of wsIdleTimeoutSec
  PingSettings,  \* values of wsServerPingIntervalSec
  DefaultIdle,   \* idle timeout for a setting <= 0: 120 in the code
  MinPing,       \* lower limit of an automatic ping interval: 5 in the code
  Res,           \* units of time in a second, the timer's period
  MaxLate,       \* bound: units from the timer's expiry to its handler
  MaxAge         \* bound: ages grow no further; above every threshold

ASSUME HeartbeatAssumption ==
  /\ IdleSettings \subseteq Int /\ PingSettings \subseteq Int
  /\ DefaultIdle \in Nat \ {0} /\ MinPing \in Nat \ {0}
  /\ Res \in Nat \ {0} /\ MaxLate \in Nat /\ MaxAge \in Nat

VARIABLES
  idleTimeout,   \* idleTimeoutSec
  pingInterval,  \* pingIntervalSec
  open,          \* the connection is in conns
  tlsDone,       \* tls_done
  upgraded,      \* ws_upgraded
  closing,       \* closing
  armed,         \* closing, and EPOLLOUT will report its queue as writable
  sinceKeep,     \* age of last_ping
  sinceSrv,      \* age of last_server_ping_sent
  toExpiry,      \* units until the timer's next expiry
  overdue,       \* 0, or 1 + units since the expiry the IO thread has yet to handle
  talks,         \* the peer may still send frames
  pinged,        \* history: the server has pinged the connection
  upgradeAge,    \* history: sinceKeep at the upgrade, until the first Ping or Close
  why            \* history: who ended the connection, "none" while it is open

settings == <<idleTimeout, pingInterval>>
stamps == <<sinceKeep, sinceSrv, pinged, upgradeAge>>
timer == <<toExpiry, overdue>>
vars == <<settings, open, tlsDone, upgraded, closing, armed, stamps, timer, talks, why>>

-----------------------------------------------------------------------------
Larger(a, b) == IF a >= b THEN a ELSE b

(* Variant that does not correct an interval as long as the timeout.        *)
EffectivePingUncorrected(ping, idle) ==
  IF ping <= 0 THEN Larger(MinPing, idle \div 3) ELSE ping

(* Variant that takes the setting as it comes.                              *)
EffectiveIdleRaw(idle) == idle

(* The two settings as the loop uses them.                                  *)
EffectiveIdle(idle) == IF idle <= 0 THEN DefaultIdle ELSE idle

EffectivePing(ping, idle) ==
  LET wanted == IF ping <= 0 THEN Larger(MinPing, idle \div 3) ELSE ping
  IN IF wanted >= idle THEN Larger(MinPing, idle \div 2) ELSE wanted

(* duration_cast<seconds>(age) >= s: the cast drops fractions of a second.  *)
AtLeast(age, s) == age >= s * Res
Older(age) == IF age < MaxAge THEN age + 1 ELSE MaxAge

-----------------------------------------------------------------------------
TypeOK ==
  /\ idleTimeout \in Nat \ {0} /\ pingInterval \in Nat \ {0}
  /\ open \in BOOLEAN /\ tlsDone \in BOOLEAN /\ upgraded \in BOOLEAN
  /\ closing \in BOOLEAN /\ armed \in BOOLEAN
  /\ sinceKeep \in 0..MaxAge /\ sinceSrv \in 0..MaxAge /\ upgradeAge \in 0..MaxAge
  /\ toExpiry \in 1..Res /\ overdue \in 0..(MaxLate + 1)
  /\ talks \in BOOLEAN /\ pinged \in BOOLEAN
  /\ why \in {"none", "idle", "drained", "peer"}

Init ==
  /\ \E idle \in IdleSettings, ping \in PingSettings :
       /\ idleTimeout = EffectiveIdle(idle)
       /\ pingInterval = EffectivePing(ping, EffectiveIdle(idle))
  /\ open = TRUE /\ tlsDone = FALSE /\ upgraded = FALSE /\ closing = FALSE /\ armed = FALSE
  /\ sinceKeep = 0 /\ sinceSrv = 0 /\ upgradeAge = 0
  /\ toExpiry \in 1..Res /\ overdue = 0
  /\ talks = TRUE /\ pinged = FALSE /\ why = "none"

-----------------------------------------------------------------------------
(* SSL_accept = 1.  A Close frame of the early data is flushed here.        *)
HandshakeDone ==
  /\ open /\ ~ tlsDone
  /\ tlsDone' = TRUE
  /\ armed' \in IF closing THEN BOOLEAN ELSE {FALSE}
  /\ UNCHANGED <<settings, open, upgraded, closing, stamps, timer, talks, why>>

(* The upgrade restarts the ping interval, but leaves last_ping alone.  In   *)
(* early data it may come before the handshake is done.                     *)
Upgrade ==
  /\ open /\ ~ upgraded /\ talks
  /\ upgraded' = TRUE
  /\ sinceSrv' = 0 /\ upgradeAge' = sinceKeep
  /\ UNCHANGED <<settings, open, tlsDone, closing, armed, sinceKeep, pinged, timer, talks, why>>

(* A Ping, Pong, text or binary frame, also one that follows a Close frame  *)
(* in a later read.                                                         *)
KeepAlive ==
  /\ open /\ upgraded /\ talks
  /\ sinceKeep' = 0
  /\ UNCHANGED <<settings, open, tlsDone, upgraded, closing, armed, sinceSrv, pinged,
                 upgradeAge, timer, talks, why>>

(* A Close frame: its answer is flushed at once, with EPOLLOUT off again, or *)
(* stays in the queue with EPOLLOUT on.                                     *)
RecvClose ==
  /\ open /\ upgraded /\ talks
  /\ closing' = TRUE
  /\ armed' \in IF tlsDone THEN BOOLEAN ELSE {TRUE}
  /\ upgradeAge' = 0
  /\ UNCHANGED <<settings, open, tlsDone, upgraded, sinceKeep, sinceSrv, pinged, timer,
                 talks, why>>

End(reason) == open' = FALSE /\ why' = reason

(* EPOLLOUT, the queue drained and the connection closing.                  *)
DrainClose ==
  /\ open /\ closing /\ armed /\ tlsDone
  /\ End("drained")
  /\ UNCHANGED <<settings, tlsDone, upgraded, closing, armed, stamps, timer, talks>>

(* A hang-up, a failed handshake, an illegal frame.                         *)
PeerLeaves ==
  /\ open
  /\ End("peer")
  /\ UNCHANGED <<settings, tlsDone, upgraded, closing, armed, stamps, timer, talks>>

PeerFallsSilent ==
  /\ open /\ talks
  /\ talks' = FALSE
  /\ UNCHANGED <<settings, open, tlsDone, upgraded, closing, armed, stamps, timer, why>>

-----------------------------------------------------------------------------
(* Variants of the choice of connections to ping: one that pings closing    *)
(* connections too, one that takes any traffic for a Ping of its own.       *)
PingDueClosing == tlsDone /\ upgraded /\ AtLeast(sinceSrv, pingInterval)
PingDueOnIdle == tlsDone /\ upgraded /\ ~ closing /\ AtLeast(sinceKeep, pingInterval)

PingDue == tlsDone /\ upgraded /\ ~ closing /\ AtLeast(sinceSrv, pingInterval)

(* The timer's handler: first the Pings, each of which counts as a sign of  *)
(* life, then the idle test of all connections.                             *)
Scan ==
  /\ open /\ overdue > 0
  /\ overdue' = 0
  /\ sinceSrv' = IF PingDue THEN 0 ELSE sinceSrv
  /\ sinceKeep' = IF PingDue THEN 0 ELSE sinceKeep
  /\ pinged' = (pinged \/ PingDue)
  /\ upgradeAge' = IF PingDue THEN 0 ELSE upgradeAge
  /\ IF AtLeast(sinceKeep', idleTimeout + 1) THEN End("idle") ELSE UNCHANGED <<open, why>>
  /\ UNCHANGED <<settings, tlsDone, upgraded, closing, armed, toExpiry, talks>>

(* Time passes; a timer that has expired waits for its handler.             *)
Tick ==
  /\ open /\ overdue <= MaxLate
  /\ sinceKeep' = Older(sinceKeep) /\ sinceSrv' = Older(sinceSrv)
  /\ toExpiry' = IF toExpiry = 1 THEN Res ELSE toExpiry - 1
  /\ overdue' = IF overdue > 0 \/ toExpiry = 1 THEN overdue + 1 ELSE 0
  /\ UNCHANGED <<settings, open, tlsDone, upgraded, closing, armed, pinged, upgradeAge,
                 talks, why>>

(* A connection that has ended has left the tables the timer looks at.      *)
Gone == ~ open /\ UNCHANGED vars

Next ==
  \/ HandshakeDone \/ Upgrade \/ KeepAlive \/ RecvClose
  \/ DrainClose \/ PeerLeaves \/ PeerFallsSilent
  \/ Scan \/ Tick \/ Gone

Spec == Init /\ [][Next]_vars

(* Time passes and the IO thread gets to the timer; nothing is assumed of   *)
(* the peer.                                                                *)
LiveSpec == Spec /\ WF_vars(Tick) /\ WF_vars(Scan)

-----------------------------------------------------------------------------
(* The heartbeat keeps a browser that only answers Pings: the idle timeout  *)
(* ends an upgraded connection only if it is shorter than MinPing - 1       *)
(* seconds, or before the first Ping if the handshake had used up the time  *)
(* by which the timeout exceeds the ping interval.  The second case is the  *)
(* upgrade's: it leaves last_ping where accept() put it.                    *)
HealthyPeerKept ==
  why = "idle" /\ upgraded /\ tlsDone /\ ~ closing =>
    \/ idleTimeout < MinPing - 1
    \/ ~ pinged /\ upgradeAge > (idleTimeout + 1 - pingInterval) * Res

(* Once pinged, a connection is pinged again a ping interval later, give or *)
(* take a scan, whatever the peer sends in between: its frames put off the  *)
(* idle timeout, never the next Ping.                                       *)
PingsKeepPace ==
  open /\ pinged /\ ~ closing => sinceSrv < (pingInterval + 1) * Res + MaxLate

(* A connection whose peer has fallen silent before the upgrade, or after a *)
(* Close frame whose answer was flushed without EPOLLOUT, ends: nothing of  *)
(* the server's own counts as a sign of life of a closing connection.       *)
HalfOpenEnds ==
  open /\ ~ talks /\ (~ upgraded \/ closing) ~> ~ open
=============================================================================
