-------------------------- MODULE HeartbeatProofs --------------------------
(* What Heartbeat guarantees for all settings, resolutions of time and      *)
(* delays of the timer's handler, proved with TLAPS.                        *)
EXTENDS Heartbeat, TLAPS

(***************************************************************************)
(* The inductive invariant.                                                *)
(***************************************************************************)
(* What the correction of the ping interval achieves.                       *)
IntervalFits == pingInterval < idleTimeout \/ pingInterval = MinPing

(* Who may have been pinged, and who may have ended the connection.         *)
Phases ==
  /\ pinged => tlsDone /\ upgraded
  /\ why # "none" => ~ open

(* last_ping is no older than the server's last Ping, or, before the first  *)
(* one, than the upgrade by more than what the handshake took.              *)
KeepFollowsSrv ==
  /\ pinged => sinceKeep <= sinceSrv
  /\ upgraded /\ ~ pinged /\ ~ closing => sinceKeep <= sinceSrv + upgradeAge

(* How old the last Ping can be, by where the timer is in its period.       *)
Pace ==
  open /\ pinged /\ ~ closing =>
    sinceSrv < pingInterval * Res + (IF overdue = 0 THEN Res - toExpiry ELSE Res + overdue - 1)

IInv == TypeOK /\ IntervalFits /\ Phases /\ KeepFollowsSrv /\ Pace /\ HealthyPeerKept

(***************************************************************************)
(* Arithmetic.                                                             *)
(***************************************************************************)
LEMMA LargerFacts ==
  ASSUME NEW a \in Int, NEW b \in Int
  PROVE  /\ Larger(a, b) \in Int /\ Larger(a, b) >= a
         /\ Larger(a, b) = a \/ Larger(a, b) = b
BY DEF Larger

(* The automatic interval for a timeout t, of which it is the k-th part.    *)
LEMMA AutomaticFacts ==
  ASSUME NEW t \in Nat \ {0}, NEW k \in {2, 3}
  PROVE  /\ Larger(MinPing, t \div k) \in Nat \ {0}
         /\ Larger(MinPing, t \div k) = MinPing \/ Larger(MinPing, t \div k) < t
<1> DEFINE q == t \div k
<1>1. q \in Int /\ q < t
  <2>1. CASE k = 2
    BY <2>1
  <2>2. CASE k = 3
    BY <2>2
  <2> QED BY <2>1, <2>2
<1>2. MinPing \in Nat \ {0}
  BY HeartbeatAssumption
<1> HIDE DEF q
<1>3. /\ Larger(MinPing, q) \in Int /\ Larger(MinPing, q) >= MinPing
      /\ Larger(MinPing, q) = MinPing \/ Larger(MinPing, q) = q
  BY <1>1, <1>2, LargerFacts
<1>4. /\ Larger(MinPing, q) \in Nat \ {0}
      /\ Larger(MinPing, q) = MinPing \/ Larger(MinPing, q) < t
  BY <1>1, <1>2, <1>3
<1> QED BY <1>4 DEF q

(* Both settings come out positive, and the ping interval fits the timeout. *)
LEMMA SettingsFit ==
  ASSUME NEW idle \in IdleSettings, NEW ping \in PingSettings
  PROVE  /\ EffectiveIdle(idle) \in Nat \ {0}
         /\ EffectivePing(ping, EffectiveIdle(idle)) \in Nat \ {0}
         /\ \/ EffectivePing(ping, EffectiveIdle(idle)) < EffectiveIdle(idle)
            \/ EffectivePing(ping, EffectiveIdle(idle)) = MinPing
<1> DEFINE t == EffectiveIdle(idle)
           wanted == IF ping <= 0 THEN Larger(MinPing, t \div 3) ELSE ping
<1>1. idle \in Int /\ ping \in Int /\ MinPing \in Nat \ {0} /\ DefaultIdle \in Nat \ {0}
  BY HeartbeatAssumption
<1>2. t \in Nat \ {0}
  BY <1>1 DEF EffectiveIdle
<1>3. /\ Larger(MinPing, t \div 3) \in Nat \ {0} /\ Larger(MinPing, t \div 2) \in Nat \ {0}
      /\ Larger(MinPing, t \div 2) = MinPing \/ Larger(MinPing, t \div 2) < t
  BY <1>2, AutomaticFacts
<1>4. wanted \in Nat \ {0}
  BY <1>1, <1>3
<1>5. EffectivePing(ping, t) = IF wanted >= t THEN Larger(MinPing, t \div 2) ELSE wanted
  BY DEF EffectivePing
<1>6. ~ (wanted >= t) => wanted < t
  BY <1>2, <1>4
<1> QED BY <1>2, <1>3, <1>4, <1>5, <1>6

LEMMA OlderFacts ==
  ASSUME NEW a \in 0..MaxAge
  PROVE  Older(a) \in 0..MaxAge /\ Older(a) <= a + 1 /\ (Older(a) = a + 1 \/ Older(a) = MaxAge)
BY HeartbeatAssumption DEF Older

LEMMA ProductOrder ==
  ASSUME NEW a \in Int, NEW b \in Int, NEW r \in Nat \ {0}, a * r < b * r
  PROVE  a < b
BY Z3

LEMMA ProductSplit ==
  ASSUME NEW a \in Int, NEW b \in Int, NEW r \in Int
  PROVE  /\ (a + 1) * r = a * r + r
         /\ (a - b) * r = a * r - b * r
         /\ a * r \in Int
BY Z3

LEMMA ProductPositive ==
  ASSUME NEW a \in Nat \ {0}, NEW r \in Nat \ {0}
  PROVE  a * r >= r
BY Z3
(***************************************************************************)
(* The initial states and the steps.                                       *)
(***************************************************************************)
LEMMA InitInv == Init => IInv
<1> SUFFICES ASSUME Init PROVE IInv
  OBVIOUS
<1>1. /\ idleTimeout \in Nat \ {0} /\ pingInterval \in Nat \ {0}
      /\ IntervalFits
  BY SettingsFit DEF Init, IntervalFits
<1>2. TypeOK
  <2>1. /\ sinceKeep \in 0..MaxAge /\ sinceSrv \in 0..MaxAge /\ upgradeAge \in 0..MaxAge
        /\ overdue \in 0..(MaxLate + 1)
    BY HeartbeatAssumption DEF Init
  <2> QED BY <1>1, <2>1 DEF Init, TypeOK
<1> QED BY <1>1, <1>2 DEF IInv, Init, Phases, KeepFollowsSrv, Pace, HealthyPeerKept

(* Types are kept by every step. *)
LEMMA TypeStep == ASSUME TypeOK, [Next]_vars PROVE TypeOK'
<1>1. CASE HandshakeDone
  BY <1>1 DEF TypeOK, HandshakeDone, settings, stamps, timer
<1>2. CASE Upgrade
  BY <1>2, HeartbeatAssumption DEF TypeOK, Upgrade, settings, timer
<1>3. CASE KeepAlive
  BY <1>3, HeartbeatAssumption DEF TypeOK, KeepAlive, settings, timer
<1>4. CASE RecvClose
  <2>1. armed' \in BOOLEAN
    BY <1>4, Zenon DEF RecvClose
  <2>2. upgradeAge' \in 0..MaxAge
    BY <1>4, HeartbeatAssumption DEF RecvClose
  <2> QED BY <1>4, <2>1, <2>2 DEF TypeOK, RecvClose, settings, timer
<1>5. CASE DrainClose
  BY <1>5 DEF TypeOK, DrainClose, End, settings, stamps, timer
<1>6. CASE PeerLeaves
  BY <1>6 DEF TypeOK, PeerLeaves, End, settings, stamps, timer
<1>7. CASE PeerFallsSilent
  BY <1>7 DEF TypeOK, PeerFallsSilent, settings, stamps, timer
<1>8. CASE Scan
  <2>1. sinceSrv' \in 0..MaxAge /\ sinceKeep' \in 0..MaxAge /\ upgradeAge' \in 0..MaxAge
    BY <1>8, HeartbeatAssumption DEF TypeOK, Scan
  <2>2. pinged' \in BOOLEAN
    BY <1>8 DEF TypeOK, Scan
  <2>3. open' \in BOOLEAN /\ why' \in {"none", "idle", "drained", "peer"}
    BY <1>8 DEF TypeOK, Scan, End
  <2>4. overdue' \in 0..(MaxLate + 1)
    BY <1>8, HeartbeatAssumption DEF Scan
  <2> QED BY <1>8, <2>1, <2>2, <2>3, <2>4 DEF TypeOK, Scan, settings
<1>9. CASE Tick
  <2>1. sinceKeep' \in 0..MaxAge /\ sinceSrv' \in 0..MaxAge
    BY <1>9, OlderFacts DEF TypeOK, Tick
  <2>2. toExpiry' \in 1..Res /\ overdue' \in 0..(MaxLate + 1)
    BY <1>9, HeartbeatAssumption DEF TypeOK, Tick
  <2> QED BY <1>9, <2>1, <2>2 DEF TypeOK, Tick, settings
<1>10. CASE UNCHANGED vars
  BY <1>10 DEF TypeOK, vars, settings, stamps, timer
<1> QED BY <1>1, <1>2, <1>3, <1>4, <1>5, <1>6, <1>7, <1>8, <1>9, <1>10 DEF Next, Gone

(* The settings do not change. *)
LEMMA SettingsStep == ASSUME [Next]_vars PROVE UNCHANGED settings
BY DEF Next, vars, settings, HandshakeDone, Upgrade, KeepAlive, RecvClose, DrainClose,
       PeerLeaves, PeerFallsSilent, Scan, Tick, Gone

(* Only upgraded connections are pinged, and an ended one is not touched.   *)
LEMMA PhasesStep == ASSUME TypeOK, Phases, [Next]_vars PROVE Phases'
<1>1. CASE Scan
  BY <1>1 DEF TypeOK, Phases, Scan, PingDue, End, settings
<1>2. CASE DrainClose \/ PeerLeaves
  BY <1>2 DEF Phases, DrainClose, PeerLeaves, End, stamps
<1>3. CASE HandshakeDone \/ Upgrade \/ KeepAlive \/ RecvClose \/ PeerFallsSilent \/ Tick
  <2>1. UNCHANGED <<open, why, pinged>>
    BY <1>3 DEF HandshakeDone, Upgrade, KeepAlive, RecvClose, PeerFallsSilent, Tick, stamps
  <2>2. (tlsDone' = TRUE \/ tlsDone' = tlsDone) /\ (upgraded' = TRUE \/ upgraded' = upgraded)
    BY <1>3 DEF HandshakeDone, Upgrade, KeepAlive, RecvClose, PeerFallsSilent, Tick
  <2> QED BY <2>1, <2>2 DEF Phases
<1>4. CASE UNCHANGED vars
  BY <1>4 DEF Phases, vars, stamps
<1> QED BY <1>1, <1>2, <1>3, <1>4 DEF Next, Gone

LEMMA KeepStep ==
  ASSUME TypeOK, Phases, KeepFollowsSrv, [Next]_vars
  PROVE  KeepFollowsSrv'
<1>1. sinceKeep \in Nat /\ sinceSrv \in Nat /\ upgradeAge \in Nat
  BY HeartbeatAssumption DEF TypeOK
<1>2. CASE Upgrade
  BY <1>1, <1>2 DEF Phases, KeepFollowsSrv, Upgrade
<1>3. CASE KeepAlive
  BY <1>1, <1>3 DEF KeepFollowsSrv, KeepAlive
<1>4. CASE RecvClose
  BY <1>4 DEF KeepFollowsSrv, RecvClose
<1>5. CASE Scan
  <2>1. CASE PingDue
    BY <1>1, <1>5, <2>1 DEF KeepFollowsSrv, Scan
  <2>2. CASE ~ PingDue
    BY <1>5, <2>2 DEF KeepFollowsSrv, Scan, TypeOK
  <2> QED BY <2>1, <2>2
<1>6. CASE Tick
  <2>1. /\ sinceKeep' <= sinceKeep + 1 /\ sinceKeep' \in 0..MaxAge
        /\ sinceSrv' = sinceSrv + 1 \/ sinceSrv' = MaxAge
    BY <1>6, OlderFacts DEF TypeOK, Tick
  <2>2. UNCHANGED <<pinged, upgraded, closing, upgradeAge>>
    BY <1>6 DEF Tick
  <2> QED BY <1>1, <2>1, <2>2, HeartbeatAssumption DEF KeepFollowsSrv
<1>7. CASE HandshakeDone \/ DrainClose \/ PeerLeaves \/ PeerFallsSilent \/ UNCHANGED vars
  <2>1. UNCHANGED <<stamps, upgraded, closing>>
    BY <1>7 DEF HandshakeDone, DrainClose, PeerLeaves, PeerFallsSilent, vars
  <2> QED BY <2>1 DEF KeepFollowsSrv, stamps
<1> QED BY <1>2, <1>3, <1>4, <1>5, <1>6, <1>7 DEF Next, Gone

LEMMA PaceStep ==
  ASSUME TypeOK, Phases, Pace, [Next]_vars
  PROVE  Pace'
<1> DEFINE p == pingInterval * Res
<1>1. /\ sinceSrv \in Nat /\ toExpiry \in 1..Res /\ overdue \in Nat
      /\ Res \in Nat \ {0} /\ p \in Int /\ p >= Res
  BY HeartbeatAssumption, ProductSplit, ProductPositive DEF TypeOK
<1>2. UNCHANGED pingInterval
  BY SettingsStep DEF settings
<1>3. p' = p
  BY <1>2
<1>4. Pace <=> (open /\ pinged /\ ~ closing =>
                  sinceSrv < p + (IF overdue = 0 THEN Res - toExpiry ELSE Res + overdue - 1))
  BY DEF Pace
<1>5. Pace' <=> (open' /\ pinged' /\ ~ closing' =>
                   sinceSrv' < p + (IF overdue' = 0 THEN Res - toExpiry' ELSE Res + overdue' - 1))
  BY <1>2 DEF Pace
<1> HIDE DEF p
<1>6. CASE Scan
  <2>1. SUFFICES ASSUME open', pinged', ~ closing' PROVE sinceSrv' < p + (Res - toExpiry')
    BY <1>5, <1>6 DEF Scan
  <2>2. toExpiry' = toExpiry
    BY <1>6 DEF Scan
  <2>3. CASE PingDue
    BY <1>1, <1>6, <2>2, <2>3 DEF Scan
  <2>4. CASE ~ PingDue
    <3>1. pinged /\ ~ closing
      BY <1>6, <2>1, <2>4 DEF Scan
    <3>2. ~ AtLeast(sinceSrv, pingInterval)
      BY <2>4, <3>1 DEF PingDue, Phases
    <3>3. sinceSrv < p
      BY <1>1, <3>2 DEF AtLeast, p
    <3> QED BY <1>1, <1>6, <2>2, <2>4, <3>3 DEF Scan
  <2> QED BY <2>3, <2>4
<1>7. CASE Tick
  <2>1. sinceSrv' \in Nat /\ sinceSrv' <= sinceSrv + 1
    BY <1>7, OlderFacts DEF TypeOK, Tick
  <2>2. UNCHANGED <<open, pinged, closing>>
    BY <1>7 DEF Tick
  <2>3. /\ toExpiry' = IF toExpiry = 1 THEN Res ELSE toExpiry - 1
        /\ overdue' = IF overdue > 0 \/ toExpiry = 1 THEN overdue + 1 ELSE 0
    BY <1>7 DEF Tick
  <2>4. SUFFICES ASSUME open, pinged, ~ closing
                 PROVE  sinceSrv' < p + (IF overdue' = 0 THEN Res - toExpiry' ELSE Res + overdue' - 1)
    BY <1>5, <2>2
  <2>5. sinceSrv < p + (IF overdue = 0 THEN Res - toExpiry ELSE Res + overdue - 1)
    BY <1>4, <2>4
  <2>6. CASE overdue > 0
    BY <1>1, <2>1, <2>3, <2>5, <2>6
  <2>7. CASE overdue = 0 /\ toExpiry = 1
    BY <1>1, <2>1, <2>3, <2>5, <2>7
  <2>8. CASE overdue = 0 /\ toExpiry # 1
    BY <1>1, <2>1, <2>3, <2>5, <2>8
  <2> QED BY <1>1, <2>6, <2>7, <2>8
<1>8. CASE Upgrade
  <2>1. ~ pinged'
    BY <1>8 DEF Upgrade, Phases
  <2> QED BY <1>5, <2>1
<1>9. CASE RecvClose
  BY <1>5, <1>9 DEF RecvClose
<1>10. CASE DrainClose \/ PeerLeaves
  BY <1>5, <1>10 DEF DrainClose, PeerLeaves, End
<1>11. CASE HandshakeDone \/ KeepAlive \/ PeerFallsSilent \/ UNCHANGED vars
  <2>1. UNCHANGED <<open, pinged, closing, sinceSrv, timer>>
    BY <1>11 DEF HandshakeDone, KeepAlive, PeerFallsSilent, vars, stamps
  <2> QED BY <1>4, <1>5, <2>1 DEF timer
<1> QED BY <1>6, <1>7, <1>8, <1>9, <1>10, <1>11 DEF Next, Gone

(* The one step that ends a connection for idleness is a scan that does not *)
(* ping it.                                                                 *)
LEMMA KeptStep ==
  ASSUME IInv, [Next]_vars
  PROVE  HealthyPeerKept'
<1>1. CASE Scan
  <2>1. SUFFICES ASSUME why' = "idle", upgraded, tlsDone, ~ closing, ~ (idleTimeout < MinPing - 1)
                 PROVE  ~ pinged' /\ upgradeAge' > (idleTimeout + 1 - pingInterval) * Res
    BY <1>1 DEF Scan, settings, HealthyPeerKept
  <2>2. open /\ why = "none"
    BY <1>1 DEF Scan, IInv, Phases
  <2>3. AtLeast(sinceKeep', idleTimeout + 1)
    BY <1>1, <2>1, <2>2 DEF Scan, End
  <2>4. /\ idleTimeout \in Nat \ {0} /\ pingInterval \in Nat \ {0} /\ Res \in Nat \ {0}
        /\ MinPing \in Nat \ {0} /\ sinceKeep \in Nat /\ sinceSrv \in Nat /\ upgradeAge \in Nat
    BY HeartbeatAssumption DEF IInv, TypeOK
  <2>5. (idleTimeout + 1) * Res >= Res /\ (idleTimeout + 1) * Res \in Int /\ pingInterval * Res \in Int
    BY <2>4, ProductPositive, ProductSplit
  <2>6. ~ PingDue
    BY <1>1, <2>3, <2>4, <2>5 DEF Scan, AtLeast
  <2>7. UNCHANGED <<sinceKeep, sinceSrv, upgradeAge>> /\ pinged' = pinged
    BY <1>1, <2>6 DEF Scan, IInv, TypeOK
  <2>8. sinceSrv < pingInterval * Res /\ sinceKeep >= (idleTimeout + 1) * Res
    BY <2>1, <2>3, <2>4, <2>5, <2>6, <2>7 DEF PingDue, AtLeast
  <2>9. ~ pinged
    <3>1. SUFFICES ASSUME pinged PROVE FALSE
      OBVIOUS
    <3>2. (idleTimeout + 1) * Res < pingInterval * Res
      BY <2>4, <2>5, <2>8, <3>1 DEF IInv, KeepFollowsSrv
    <3>3. idleTimeout + 1 < pingInterval
      BY <2>4, <3>2, ProductOrder
    <3> QED BY <2>1, <2>4, <3>3 DEF IInv, IntervalFits
  <2>10. sinceKeep <= sinceSrv + upgradeAge
    BY <2>1, <2>9 DEF IInv, KeepFollowsSrv
  <2>11. (idleTimeout + 1 - pingInterval) * Res = (idleTimeout + 1) * Res - pingInterval * Res
    BY <2>4, ProductSplit
  <2> QED BY <2>4, <2>5, <2>7, <2>8, <2>9, <2>10, <2>11
<1>2. CASE UNCHANGED vars
  BY <1>2 DEF IInv, HealthyPeerKept, vars, settings, stamps
<1>3. CASE DrainClose \/ PeerLeaves
  BY <1>3 DEF DrainClose, PeerLeaves, End, HealthyPeerKept
<1>4. CASE HandshakeDone \/ Upgrade \/ KeepAlive \/ RecvClose \/ PeerFallsSilent \/ Tick
  <2>1. open /\ why' = why
    BY <1>4 DEF HandshakeDone, Upgrade, KeepAlive, RecvClose, PeerFallsSilent, Tick
  <2> QED BY <2>1 DEF IInv, Phases, HealthyPeerKept
<1> QED BY <1>1, <1>2, <1>3, <1>4 DEF Next, Gone

LEMMA StepInv == IInv /\ [Next]_vars => IInv'
<1> SUFFICES ASSUME IInv, [Next]_vars PROVE IInv'
  OBVIOUS
<1>1. TypeOK' /\ Phases' /\ KeepFollowsSrv' /\ Pace'
  BY TypeStep, PhasesStep, KeepStep, PaceStep DEF IInv
<1>2. IntervalFits'
  BY SettingsStep DEF IInv, IntervalFits, settings
<1> QED BY <1>1, <1>2, KeptStep DEF IInv

(***************************************************************************)
(* The theorems.                                                           *)
(***************************************************************************)
LEMMA Invariance == Spec => []IInv
BY InitInv, StepInv, PTL DEF Spec

(* Types, and that whatever the settings both intervals are positive.       *)
THEOREM TypeCorrect == Spec => []TypeOK
<1>1. IInv => TypeOK
  BY DEF IInv
<1> QED BY <1>1, Invariance, PTL

(* For all settings the idle timeout spares a peer that answers the Pings,  *)
(* but for the two cases the property names (WssServer.cpp:979-986, 294).   *)
THEOREM HealthyKept == Spec => []HealthyPeerKept
<1>1. IInv => HealthyPeerKept
  BY DEF IInv
<1> QED BY <1>1, Invariance, PTL

(* For all settings and delays the Pings keep their interval, give or take  *)
(* one period of the timer and its delay (WssServer.cpp:1105-1130).         *)
THEOREM PingsPaced == Spec => []PingsKeepPace
<1>1. IInv => PingsKeepPace
  <2>1. SUFFICES ASSUME IInv, open, pinged, ~ closing
                 PROVE  sinceSrv < (pingInterval + 1) * Res + MaxLate
    BY DEF PingsKeepPace
  <2>2. /\ pingInterval \in Nat /\ Res \in Nat \ {0} /\ MaxLate \in Nat /\ sinceSrv \in Nat
        /\ toExpiry \in 1..Res /\ overdue \in 0..(MaxLate + 1)
    BY <2>1, HeartbeatAssumption DEF IInv, TypeOK
  <2>3. pingInterval * Res \in Int /\ (pingInterval + 1) * Res = pingInterval * Res + Res
    BY <2>2, ProductSplit
  <2>4. sinceSrv < pingInterval * Res + (IF overdue = 0 THEN Res - toExpiry ELSE Res + overdue - 1)
    BY <2>1 DEF IInv, Pace
  <2> QED BY <2>2, <2>3, <2>4
<1> QED BY <1>1, Invariance, PTL
=============================================================================
