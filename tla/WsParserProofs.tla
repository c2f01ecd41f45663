-------------------------- MODULE WsParserProofs --------------------------
(* What WebSocketStreamParser guarantees for every set of frame shapes,     *)
(* every length of the stream and every limit, proved with TLAPS.           *)
EXTENDS WsParser, FiniteSetTheorems, TLAPS

(***************************************************************************)
(* The inductive invariant.                                                *)
(***************************************************************************)
(* Frames are parsed in the open state only, nothing is consumed before it, *)
(* and feed hands over everything it has found.                             *)
Mode ==
  /\ pc = "upgrade" => state_ = "AwaitingHttpUpgrade"
  /\ pc = "frames" => state_ = "Open"
  /\ state_ = "AwaitingHttpUpgrade" => offset = 0
  /\ pc \in {"idle", "upgrade"} => outFrames = <<>>

(* in_fragment_ is what the frames consumed say it is.                      *)
Fragmented == in_fragment_ <=> OpenAfter(parsed)

(* Frame j is the last one up to frame k that begins a message.             *)
IsFirst(j, k) == /\ stream[j].opcode \in {1, 2}
                 /\ \A i \in (j + 1)..k : stream[i].opcode \notin {1, 2}

(* Inside a fragmented message the parser holds its first opcode and the    *)
(* payloads of all its frames so far, and outside of one nothing.           *)
Assembly ==
  IF in_fragment_
  THEN \E j \in 1..parsed : /\ IsFirst(j, parsed)
                            /\ fragment_opcode_ = stream[j].opcode
                            /\ fragment_payload_ = InOrder({i \in j..parsed : Data(i)})
  ELSE fragment_payload_ = <<>>

TInv == TypeOK /\ Mode

IInv == TInv /\ Fragmented /\ OnlyIllegalThrows

(***************************************************************************)
(* Frames and their sizes.                                                 *)
(***************************************************************************)
LEMMA Shapes ==
  ASSUME NEW f \in FrameShape
  PROVE  /\ f.opcode \in 0..15 /\ f.fin \in BOOLEAN /\ f.rsv \in BOOLEAN /\ f.masked \in BOOLEAN
         /\ f.ext \in Nat /\ f.len \in Nat
         /\ Size(f) \in Nat /\ Size(f) >= 2 + f.ext /\ Size(f) >= 2
<1>1. f \in [opcode : 0..15, fin : BOOLEAN, rsv : BOOLEAN, masked : BOOLEAN,
             ext : {0, 2, 8}, len : Nat]
  BY WsParserAssumption
<1>2. /\ f.opcode \in 0..15 /\ f.fin \in BOOLEAN /\ f.rsv \in BOOLEAN /\ f.masked \in BOOLEAN
      /\ f.ext \in {0, 2, 8} /\ f.len \in Nat
  BY <1>1
<1>3. MaskLen(f) \in {0, 4}
  BY DEF MaskLen
<1> QED BY <1>2, <1>3 DEF Size

LEMMA NextShape ==
  ASSUME TypeOK, parsed < Len(stream)
  PROVE  /\ parsed + 1 \in 1..Len(stream) /\ parsed \in Nat
         /\ parsed + 1 \in Position
         /\ NextFrame \in FrameShape
         /\ NextFrame = stream[parsed + 1]
         /\ Avail \in Nat
<1>1. parsed + 1 \in 1..Len(stream) /\ parsed \in Nat
  BY DEF TypeOK
<1>2. parsed + 1 \in Position
  BY <1>1, WsParserAssumption DEF TypeOK, Position
<1>3. stream[parsed + 1] \in FrameShape
  BY <1>1 DEF TypeOK
<1>4. Avail \in Nat
  BY DEF TypeOK, Avail
<1> QED BY <1>1, <1>2, <1>3, <1>4 DEF NextFrame

(* The loop's break conditions together: the frame is not there whole.      *)
LEMMA WaitsIs ==
  ASSUME NEW f \in FrameShape, NEW n \in Nat
  PROVE  Waits(f, n) <=> n < Size(f)
<1>1. f.ext \in Nat /\ f.len \in Nat /\ MaskLen(f) \in {0, 4}
  BY Shapes DEF MaskLen
<1> QED BY <1>1 DEF Waits, Size

LEMMA TakenWhole ==
  ASSUME TypeOK, Taken
  PROVE  Avail >= Size(NextFrame) /\ Avail >= 2 + NextFrame.ext /\ Avail >= 2
<1>1. NextFrame \in FrameShape /\ Avail \in Nat
  BY NextShape DEF Taken, InLoop
<1>2. ~ (Avail < Size(NextFrame))
  BY <1>1, WaitsIs DEF Taken
<1> QED BY <1>1, <1>2, Shapes

(***************************************************************************)
(* Type correctness.                                                       *)
(***************************************************************************)
LEMMA InitTInv == Init => TInv
<1> SUFFICES ASSUME Init
             PROVE  TInv
  OBVIOUS
<1>1. stream \in Seq(FrameShape) /\ Len(stream) \in Nat /\ Len(stream) <= MaxFrames
  <2>1. PICK n \in 0..MaxFrames : stream \in [1..n -> FrameShape]
    BY DEF Init
  <2>2. n \in Nat /\ n <= MaxFrames
    BY <2>1, WsParserAssumption
  <2> QED BY <2>1, <2>2
<1>2. parsed \in 0..Len(stream)
  BY <1>1 DEF Init
<1>3. TypeOK
  <2>1. /\ arrived = 0 /\ offset = 0 /\ fragment_opcode_ = 0 /\ in_fragment_ = FALSE
        /\ fragment_payload_ = <<>> /\ outFrames = <<>> /\ delivered = <<>> /\ pc = "idle"
        /\ require_mask_ \in BOOLEAN /\ valid \in BOOLEAN
        /\ state_ \in {"AwaitingHttpUpgrade", "Open"}
    BY DEF Init
  <2>2. <<>> \in Seq(Position) /\ <<>> \in Seq(Message)
    OBVIOUS
  <2>3. arrived \in Nat /\ offset \in Nat /\ offset <= arrived
    BY <2>1
  <2>4. outFrames \in Seq(Message) /\ delivered \in Seq(Message)
    BY <2>1, <2>2
  <2>5. fragment_payload_ \in Seq(Position) /\ fragment_opcode_ \in {0, 1, 2}
    BY <2>1, <2>2
  <2>6. in_fragment_ \in BOOLEAN /\ pc \in {"idle", "upgrade", "frames", "failed"}
    BY <2>1
  <2> QED BY <1>1, <1>2, <2>1, <2>3, <2>4, <2>5, <2>6 DEF TypeOK
<1>4. Mode
  BY DEF Init, Mode
<1> QED BY <1>3, <1>4 DEF TInv

(* A frame is taken: what all four branches of feed's loop do.              *)
LEMMA TakenTypes ==
  ASSUME TInv, Taken, Consumed,
         fragment_opcode_' \in {0, 1, 2}, in_fragment_' \in BOOLEAN,
         fragment_payload_' \in Seq(Position), outFrames' \in Seq(Message)
  PROVE  TInv'
<1>1. /\ TypeOK /\ Mode /\ pc = "frames" /\ parsed < Len(stream)
      /\ Avail >= Size(NextFrame)
  BY TakenWhole DEF TInv, Taken, InLoop
<1>2. /\ NextFrame \in FrameShape /\ Size(NextFrame) \in Nat
  BY <1>1, NextShape, Shapes
<1>3. offset' \in Nat /\ offset' <= arrived' /\ parsed' \in 0..Len(stream)
  BY <1>1, <1>2 DEF Consumed, TypeOK, Avail
<1>4. TypeOK'
  BY <1>1, <1>3 DEF TypeOK, Consumed, input
<1>5. Mode'
  BY <1>1 DEF Mode, Consumed
<1> QED BY <1>4, <1>5 DEF TInv

LEMMA EmitType ==
  ASSUME TypeOK, NEW op \in 0..15, NEW p \in Seq(Position), Emit(op, p)
  PROVE  /\ outFrames' \in Seq(Message)
         /\ outFrames' = Append(outFrames, [opcode |-> op, payload |-> p])
<1>1. [opcode |-> op, payload |-> p] \in Message
  BY DEF Message
<1> QED BY <1>1 DEF Emit, TypeOK

LEMMA NextTInv == TInv /\ [Next]_vars => TInv'
<1> SUFFICES ASSUME TInv, [Next]_vars
             PROVE  TInv'
  OBVIOUS
<1> USE DEF input, parserVars
<1>0. TypeOK /\ Mode
  BY DEF TInv
<1>1. CASE UNCHANGED vars
  BY <1>0, <1>1 DEF TInv, vars, TypeOK, Mode
<1>2. ASSUME NEW n \in 1..(StreamLen - arrived), Read(n)
      PROVE  TInv'
  <2>1. n \in Nat
    BY <1>0 DEF TypeOK
  <2>2. arrived' \in Nat /\ offset' <= arrived'
    BY <1>0, <1>2, <2>1 DEF TypeOK, Read
  <2>3. TypeOK'
    BY <1>0, <1>2, <2>2 DEF TypeOK, Read
  <2>4. Mode'
    BY <1>0, <1>2 DEF Mode, Read, TypeOK
  <2> QED BY <2>3, <2>4 DEF TInv
<1>3. CASE UpgradeIncomplete
  BY <1>0, <1>3 DEF TInv, TypeOK, Mode, UpgradeIncomplete
<1>4. CASE UpgradeRefused
  BY <1>0, <1>4 DEF TInv, TypeOK, Mode, UpgradeRefused
<1>5. CASE tryConsumeUpgrade
  <2>1. HeadLen \in Nat /\ HeadLen <= arrived
    BY <1>0, <1>5, WsParserAssumption DEF TypeOK, tryConsumeUpgrade
  <2>2. TypeOK'
    BY <1>0, <1>5, <2>1 DEF TypeOK, tryConsumeUpgrade
  <2>3. Mode'
    BY <1>0, <1>5 DEF Mode, tryConsumeUpgrade
  <2> QED BY <2>2, <2>3 DEF TInv
<1>6. CASE Taken /\ (Continuation \/ WholeData \/ FirstFragment \/ ControlFrame)
  <2>1. /\ parsed + 1 \in Position /\ NextFrame \in FrameShape
        /\ NextFrame.opcode \in 0..15 /\ NextFrame.fin \in BOOLEAN
    BY <1>0, <1>6, NextShape, Shapes DEF Taken, InLoop
  <2>2. Append(fragment_payload_, parsed + 1) \in Seq(Position) /\ <<parsed + 1>> \in Seq(Position)
    BY <1>0, <2>1 DEF TypeOK
  <2>3. /\ fragment_opcode_ \in {0, 1, 2} /\ fragment_opcode_ \in 0..15 /\ in_fragment_ \in BOOLEAN
        /\ fragment_payload_ \in Seq(Position) /\ outFrames \in Seq(Message)
        /\ <<>> \in Seq(Position)
    BY <1>0 DEF TypeOK
  <2>4. CASE Continuation
    <3>1. CASE NextFrame.fin
      <4>1. Emit(fragment_opcode_, Append(fragment_payload_, parsed + 1)) /\ EndFragment
        BY <2>4, <3>1 DEF Continuation
      <4>2. outFrames' \in Seq(Message)
        BY <1>0, <2>2, <2>3, <4>1, EmitType
      <4>3. Consumed
        BY <2>4 DEF Continuation
      <4> QED BY <1>6, <2>3, <4>1, <4>2, <4>3, TakenTypes DEF EndFragment
    <3>2. CASE ~ NextFrame.fin
      BY <1>6, <2>2, <2>3, <2>4, <3>2, TakenTypes DEF Continuation
    <3> QED BY <3>1, <3>2
  <2>5. CASE WholeData
    <3>1. Emit(NextFrame.opcode, <<parsed + 1>>) /\ Consumed
      BY <2>5 DEF WholeData
    <3>2. outFrames' \in Seq(Message)
      BY <1>0, <2>1, <2>2, <3>1, EmitType
    <3> QED BY <1>6, <2>3, <2>5, <3>1, <3>2, TakenTypes DEF WholeData
  <2>6. CASE FirstFragment
    BY <1>6, <2>2, <2>3, <2>6, TakenTypes DEF FirstFragment
  <2>7. CASE ControlFrame
    <3>1. Emit(NextFrame.opcode, <<parsed + 1>>) /\ Consumed
      BY <2>7 DEF ControlFrame
    <3>2. outFrames' \in Seq(Message)
      BY <1>0, <2>1, <2>2, <3>1, EmitType
    <3> QED BY <1>6, <2>3, <2>7, <3>1, <3>2, TakenTypes DEF ControlFrame
  <2> QED BY <1>6, <2>4, <2>5, <2>6, <2>7
<1>7. CASE Throw
  BY <1>0, <1>7 DEF TInv, TypeOK, Mode, Throw, InLoop
<1>8. CASE Return
  <2>1. delivered' \in Seq(Message) /\ outFrames' \in Seq(Message)
    BY <1>0, <1>8 DEF TypeOK, Return
  <2>2. TypeOK'
    BY <1>0, <1>8, <2>1 DEF TypeOK, Return
  <2>3. Mode'
    BY <1>0, <1>8 DEF Mode, Return
  <2> QED BY <2>2, <2>3 DEF TInv
<1>9. CASE Over
  BY <1>1, <1>9 DEF Over
<1> QED
  BY <1>1, <1>2, <1>3, <1>4, <1>5, <1>6, <1>7, <1>8, <1>9
  DEF Next, feed, Continuation, WholeData, FirstFragment, ControlFrame

(* The parser's state, its positions in the stream and what it hands up     *)
(* have the types of the code's fields; the consumed part of the buffer is  *)
(* part of what has arrived (buffer_, parse_offset_).                       *)
THEOREM TypeCorrect == Spec => []TypeOK
<1>1. TInv => TypeOK
  BY DEF TInv
<1> QED BY <1>1, InitTInv, NextTInv, PTL DEF Spec

(***************************************************************************)
(* What is legal where.                                                    *)
(***************************************************************************)
LEMMA OpenStep ==
  ASSUME NEW k \in Nat, NEW n \in Nat, n = k + 1
  PROVE  OpenAfter(n) <=> IF Data(n) THEN ~ stream[n].fin ELSE OpenAfter(k)
<1>1. ASSUME Data(n), ~ stream[n].fin
      PROVE  OpenAfter(n)
  <2>1. n \in 1..n /\ \A i \in (n + 1)..n : Data(i) => ~ stream[i].fin
    OBVIOUS
  <2> QED BY <1>1, <2>1 DEF OpenAfter
<1>2. ASSUME Data(n), OpenAfter(n)
      PROVE  ~ stream[n].fin
  <2>1. PICK j \in 1..n : /\ ~ stream[j].fin
                          /\ \A i \in (j + 1)..n : Data(i) => ~ stream[i].fin
    BY <1>2 DEF OpenAfter
  <2>2. j = n \/ n \in (j + 1)..n
    OBVIOUS
  <2> QED BY <1>2, <2>1, <2>2
<1>3. ASSUME ~ Data(n), OpenAfter(n)
      PROVE  OpenAfter(k)
  <2>1. PICK j \in 1..n : /\ Data(j) /\ ~ stream[j].fin
                          /\ \A i \in (j + 1)..n : Data(i) => ~ stream[i].fin
    BY <1>3 DEF OpenAfter
  <2>2. j \in 1..k
    BY <1>3, <2>1
  <2>3. \A i \in (j + 1)..k : i \in (j + 1)..n
    OBVIOUS
  <2> QED BY <2>1, <2>2, <2>3 DEF OpenAfter
<1>4. ASSUME ~ Data(n), OpenAfter(k)
      PROVE  OpenAfter(n)
  <2>1. PICK j \in 1..k : /\ Data(j) /\ ~ stream[j].fin
                          /\ \A i \in (j + 1)..k : Data(i) => ~ stream[i].fin
    BY <1>4 DEF OpenAfter
  <2>2. j \in 1..n /\ \A i \in (j + 1)..n : i \in (j + 1)..k \/ i = n
    OBVIOUS
  <2> QED BY <1>4, <2>1, <2>2 DEF OpenAfter
<1> QED BY <1>1, <1>2, <1>3, <1>4

(* With the whole frame there, the code's checks are those of the reference. *)
LEMMA TakenLegal ==
  ASSUME TInv, Fragmented, Taken
  PROVE  Legal(parsed + 1)
<1>1. /\ parsed + 1 \in 1..Len(stream) /\ parsed \in Nat
      /\ NextFrame \in FrameShape /\ NextFrame = stream[parsed + 1] /\ Avail \in Nat
  BY NextShape DEF TInv, Taken, InLoop
<1>2. Avail >= 2 /\ Avail >= 2 + NextFrame.ext /\ Avail >= Size(NextFrame)
  BY TakenWhole DEF TInv
<1>3. /\ ~ Malformed(NextFrame) /\ ~ (NextFrame.len > MaxPayload)
      /\ ~ (require_mask_ /\ ~ NextFrame.masked) /\ ~ OutOfPlace(NextFrame)
  BY <1>2 DEF Taken, Rejected
<1>4. NextFrame.len <= MaxPayload
  BY <1>1, <1>3, Shapes, WsParserAssumption
<1>5. (parsed + 1) - 1 = parsed
  BY <1>1
<1>6. in_fragment_ <=> OpenAfter((parsed + 1) - 1)
  BY <1>5 DEF Fragmented
<1>7. Data(parsed + 1) => (NextFrame.opcode = 0 <=> OpenAfter((parsed + 1) - 1))
  BY <1>1, <1>3, <1>6 DEF Data, OutOfPlace
<1>8. NextFrame.opcode \in {0, 1, 2, 8, 9, 10} /\ (NextFrame.opcode = 8 => NextFrame.len # 1)
  BY <1>3 DEF OutOfPlace
<1> QED BY <1>1, <1>3, <1>4, <1>7, <1>8 DEF Legal

LEMMA RejectedIllegal ==
  ASSUME TInv, Fragmented, InLoop, Rejected(NextFrame, Avail)
  PROVE  ~ Legal(parsed + 1)
<1>1. /\ parsed + 1 \in 1..Len(stream) /\ parsed \in Nat
      /\ NextFrame \in FrameShape /\ NextFrame = stream[parsed + 1] /\ Avail \in Nat
  BY NextShape DEF TInv, InLoop
<1>2. (parsed + 1) - 1 = parsed
  BY <1>1
<1>3. in_fragment_ <=> OpenAfter((parsed + 1) - 1)
  BY <1>2 DEF Fragmented
<1>4. CASE Malformed(NextFrame)
  BY <1>1, <1>4 DEF Legal
<1>5. CASE NextFrame.len > MaxPayload
  <2>1. ~ (NextFrame.len <= MaxPayload)
    BY <1>1, <1>5, Shapes, WsParserAssumption
  <2> QED BY <1>1, <2>1 DEF Legal
<1>6. CASE require_mask_ /\ ~ NextFrame.masked
  BY <1>1, <1>6 DEF Legal
<1>7. CASE OutOfPlace(NextFrame)
  <2> SUFFICES ASSUME Legal(parsed + 1)
               PROVE  FALSE
    OBVIOUS
  <2>1. /\ NextFrame.opcode \in {0, 1, 2, 8, 9, 10}
        /\ NextFrame.opcode = 8 => NextFrame.len # 1
        /\ Data(parsed + 1) => (NextFrame.opcode = 0 <=> in_fragment_)
    BY <1>1, <1>3 DEF Legal
  <2>2. Data(parsed + 1) <=> NextFrame.opcode \in {0, 1, 2}
    BY <1>1 DEF Data
  <2> QED BY <1>7, <2>1, <2>2 DEF OutOfPlace
<1> QED BY <1>4, <1>5, <1>6, <1>7 DEF Rejected

(***************************************************************************)
(* The invariant of one connection.                                        *)
(***************************************************************************)
LEMMA InitIInv == Init => IInv
<1> SUFFICES ASSUME Init
             PROVE  IInv
  OBVIOUS
<1>1. TInv
  BY InitTInv
<1>2. parsed = 0 /\ arrived = 0 /\ offset = 0 /\ pc = "idle" /\ in_fragment_ = FALSE
  BY DEF Init
<1>3. Fragmented
  BY <1>2 DEF Fragmented, OpenAfter
<1>4. OnlyIllegalThrows
  BY <1>2 DEF OnlyIllegalThrows
<1> QED BY <1>1, <1>3, <1>4 DEF IInv

LEMMA SameOpen ==
  ASSUME stream' = stream, parsed' = parsed, in_fragment_' = in_fragment_, Fragmented
  PROVE  Fragmented'
BY DEF Fragmented, OpenAfter, Data

LEMMA SameLegal ==
  ASSUME stream' = stream, require_mask_' = require_mask_, NEW k
  PROVE  Legal(k)' <=> Legal(k)
BY DEF Legal, Data, OpenAfter

LEMMA ThrowsSame ==
  ASSUME OnlyIllegalThrows, UNCHANGED <<stream, require_mask_, parsed>>, pc' # "failed"
  PROVE  OnlyIllegalThrows'
<1>1. \A k \in 1..parsed : Legal(k)
  BY DEF OnlyIllegalThrows
<1>2. ASSUME NEW k \in 1..parsed'
      PROVE  Legal(k)'
  BY <1>1, SameLegal
<1> QED BY <1>2 DEF OnlyIllegalThrows

(* A frame is taken: the invariant at the next frame.                       *)
LEMMA TakenIInv ==
  ASSUME IInv, TInv', Taken, Consumed,
         in_fragment_' = IF Data(parsed + 1) THEN ~ NextFrame.fin ELSE in_fragment_
  PROVE  IInv'
<1>1. /\ parsed + 1 \in 1..Len(stream) /\ parsed \in Nat /\ NextFrame = stream[parsed + 1]
      /\ TInv /\ Fragmented /\ OnlyIllegalThrows
  BY NextShape DEF IInv, TInv, Taken, InLoop
<1>2. /\ stream' = stream /\ require_mask_' = require_mask_ /\ parsed' = parsed + 1
      /\ pc' = "frames"
  BY DEF Consumed, input, Taken, InLoop
<1>3. OpenAfter(parsed + 1) <=> IF Data(parsed + 1) THEN ~ NextFrame.fin ELSE OpenAfter(parsed)
  <2>1. parsed + 1 \in Nat
    BY <1>1
  <2>2. OpenAfter(parsed + 1) <=>
          IF Data(parsed + 1) THEN ~ stream[parsed + 1].fin ELSE OpenAfter(parsed)
    BY <1>1, <2>1, OpenStep
  <2> QED BY <1>1, <2>2
<1>4. in_fragment_' <=> OpenAfter(parsed + 1)
  BY <1>1, <1>3 DEF Fragmented
<1>5. OpenAfter(parsed)' <=> OpenAfter(parsed + 1)
  BY <1>2 DEF OpenAfter, Data
<1>6. Fragmented'
  BY <1>4, <1>5 DEF Fragmented
<1>7. ASSUME NEW k \in 1..parsed'
      PROVE  Legal(k)'
  <2>1. Legal(k)
    <3>1. CASE k \in 1..parsed
      BY <1>1, <3>1 DEF OnlyIllegalThrows
    <3>2. CASE k = parsed + 1
      BY <1>1, <3>2, TakenLegal
    <3> QED BY <1>1, <1>2, <3>1, <3>2
  <2> QED BY <1>2, <2>1, SameLegal
<1>8. OnlyIllegalThrows'
  BY <1>2, <1>7 DEF OnlyIllegalThrows
<1> QED BY <1>6, <1>8 DEF IInv

LEMMA NextIInv == IInv /\ [Next]_vars => IInv'
<1> SUFFICES ASSUME IInv, [Next]_vars
             PROVE  IInv'
  OBVIOUS
<1> USE DEF input, parserVars
<1>0. TInv /\ Fragmented /\ OnlyIllegalThrows /\ TypeOK /\ Mode /\ TInv'
  BY NextTInv DEF IInv, TInv
<1>1. CASE UNCHANGED vars
  <2>1. ASSUME NEW k
        PROVE  Legal(k)' <=> Legal(k)
    BY <1>1, SameLegal DEF vars
  <2>2. UNCHANGED <<stream, require_mask_, valid, parsed, pc, state_, in_fragment_, arrived, offset>>
    BY <1>1 DEF vars
  <2>3. Fragmented'
    BY <1>0, <2>2, SameOpen
  <2>4. OnlyIllegalThrows'
    <3>1. ASSUME NEW k \in 1..parsed'
          PROVE  Legal(k)'
      BY <1>0, <2>1, <2>2 DEF OnlyIllegalThrows
    <3>2. Legal(parsed + 1)' <=> Legal(parsed + 1)
      BY <2>2 DEF Legal, Data, OpenAfter
    <3>3. pc' = "failed" => IF state_' = "Open" THEN ~ Legal(parsed + 1)' ELSE ~ valid'
      BY <1>0, <2>2, <3>2 DEF OnlyIllegalThrows
    <3> QED BY <3>1, <3>3 DEF OnlyIllegalThrows
  <2> QED BY <1>0, <2>3, <2>4 DEF IInv
<1>2. ASSUME NEW n \in 1..(StreamLen - arrived), Read(n)
      PROVE  IInv'
  <2>1. UNCHANGED <<stream, require_mask_, parsed, in_fragment_>> /\ pc' \notin {"failed", "idle"}
    BY <1>2 DEF Read
  <2>2. Fragmented' /\ OnlyIllegalThrows'
    BY <1>0, <2>1, SameOpen, ThrowsSame
  <2> QED BY <1>0, <2>2 DEF IInv
<1>3. CASE UpgradeIncomplete
  <2>1. UNCHANGED <<stream, require_mask_, parsed, in_fragment_, state_>> /\ pc' # "failed"
    BY <1>3 DEF UpgradeIncomplete
  <2>2. Fragmented' /\ OnlyIllegalThrows'
    BY <1>0, <2>1, SameOpen, ThrowsSame
  <2> QED BY <1>0, <2>2 DEF IInv
<1>4. CASE UpgradeRefused
  <2>1. /\ UNCHANGED <<stream, require_mask_, valid, parsed, in_fragment_, state_>>
        /\ pc' = "failed" /\ ~ valid /\ state_ = "AwaitingHttpUpgrade"
    BY <1>0, <1>4 DEF UpgradeRefused, Mode
  <2>2. Fragmented'
    BY <1>0, <2>1, SameOpen
  <2>3. ASSUME NEW k \in 1..parsed'
        PROVE  Legal(k)'
    BY <1>0, <2>1, SameLegal DEF OnlyIllegalThrows
  <2>4. OnlyIllegalThrows'
    BY <2>1, <2>3 DEF OnlyIllegalThrows
  <2> QED BY <1>0, <2>2, <2>4 DEF IInv
<1>5. CASE tryConsumeUpgrade
  <2>1. UNCHANGED <<stream, require_mask_, parsed, in_fragment_>> /\ pc' = "frames"
    BY <1>5 DEF tryConsumeUpgrade
  <2>2. Fragmented' /\ OnlyIllegalThrows'
    BY <1>0, <2>1, SameOpen, ThrowsSame
  <2> QED BY <1>0, <2>2 DEF IInv
<1>6. CASE Continuation \/ WholeData \/ FirstFragment \/ ControlFrame
  <2>1. Taken /\ Consumed
    BY <1>6 DEF Continuation, WholeData, FirstFragment, ControlFrame
  <2>2. /\ NextFrame = stream[parsed + 1] /\ NextFrame \in FrameShape
        /\ NextFrame.fin \in BOOLEAN /\ NextFrame.opcode \in 0..15
    BY <1>0, <2>1, NextShape, Shapes DEF Taken, InLoop
  <2>3. Data(parsed + 1) <=> NextFrame.opcode \in {0, 1, 2}
    BY <2>2 DEF Data
  <2>4. CASE Continuation
    <3>1. in_fragment_
      <4>1. Avail >= Size(NextFrame) /\ ~ OutOfPlace(NextFrame)
        BY <1>0, <2>1, TakenWhole DEF Taken, Rejected
      <4> QED BY <2>4, <4>1 DEF OutOfPlace, Continuation
    <3>2. Data(parsed + 1)
      BY <2>3, <2>4 DEF Continuation
    <3>3. in_fragment_' = ~ NextFrame.fin
      BY <1>0, <2>2, <2>4, <3>1 DEF Continuation, EndFragment, TypeOK
    <3> QED BY <1>0, <2>1, <3>2, <3>3, TakenIInv DEF IInv
  <2>5. CASE WholeData
    <3>1. Data(parsed + 1) /\ NextFrame.fin /\ in_fragment_' = in_fragment_
      BY <2>3, <2>5 DEF WholeData
    <3>2. in_fragment_ = FALSE
      <4>1. Avail >= Size(NextFrame) /\ ~ OutOfPlace(NextFrame)
        BY <1>0, <2>1, TakenWhole DEF Taken, Rejected
      <4> QED BY <1>0, <2>5, <4>1 DEF OutOfPlace, WholeData, TypeOK
    <3>3. in_fragment_' = ~ NextFrame.fin
      BY <2>2, <3>1, <3>2
    <3> QED BY <1>0, <2>1, <3>1, <3>3, TakenIInv DEF IInv
  <2>6. CASE FirstFragment
    <3>1. Data(parsed + 1) /\ ~ NextFrame.fin /\ in_fragment_' = TRUE
      BY <2>3, <2>6 DEF FirstFragment
    <3>2. in_fragment_' = ~ NextFrame.fin
      BY <2>2, <3>1
    <3> QED BY <1>0, <2>1, <3>1, <3>2, TakenIInv DEF IInv
  <2>7. CASE ControlFrame
    <3>1. ~ Data(parsed + 1) /\ in_fragment_' = in_fragment_
      BY <2>2, <2>3, <2>7 DEF ControlFrame, Control
    <3> QED BY <1>0, <2>1, <3>1, TakenIInv DEF IInv
  <2> QED BY <1>6, <2>4, <2>5, <2>6, <2>7
<1>7. CASE Throw
  <2>1. /\ UNCHANGED <<stream, require_mask_, valid, parsed, in_fragment_, state_>>
        /\ pc' = "failed" /\ state_ = "Open"
    BY <1>0, <1>7 DEF Throw, InLoop, Mode
  <2>2. Fragmented'
    BY <1>0, <2>1, SameOpen
  <2>3. ASSUME NEW k \in 1..parsed'
        PROVE  Legal(k)'
    BY <1>0, <2>1, SameLegal DEF OnlyIllegalThrows
  <2>4. ~ Legal(parsed + 1)
    BY <1>0, <1>7, RejectedIllegal DEF Throw
  <2>5. ~ Legal(parsed + 1)'
    BY <2>1, <2>4 DEF Legal, Data, OpenAfter
  <2>6. OnlyIllegalThrows'
    BY <2>1, <2>3, <2>5 DEF OnlyIllegalThrows
  <2> QED BY <1>0, <2>2, <2>6 DEF IInv
<1>8. CASE Return
  <2>1. UNCHANGED <<stream, require_mask_, parsed, in_fragment_, arrived, offset>> /\ pc' = "idle"
    BY <1>8 DEF Return
  <2>2. Fragmented' /\ OnlyIllegalThrows'
    BY <1>0, <2>1, SameOpen, ThrowsSame
  <2> QED BY <1>0, <2>2 DEF IInv
<1>9. CASE Over
  BY <1>1, <1>9 DEF Over
<1> QED BY <1>1, <1>2, <1>3, <1>4, <1>5, <1>6, <1>7, <1>8, <1>9 DEF Next, feed

(* Every frame the parser has consumed is legal where it stands, and feed   *)
(* throws only at a request or a frame that is not (WebSocketCodec.cpp:316).*)
THEOREM ThrowsCorrect == Spec => []OnlyIllegalThrows
<1>1. IInv => OnlyIllegalThrows
  BY DEF IInv
<1> QED BY <1>1, InitIInv, NextIInv, PTL DEF Spec

(***************************************************************************)
(* Numbers in ascending order.                                             *)
(***************************************************************************)
LEMMA MaxIs ==
  ASSUME NEW S \in SUBSET Nat, NEW m \in S, \A y \in S : m >= y
  PROVE  Max(S) = m
<1>1. ASSUME NEW x \in S, \A y \in S : x >= y
      PROVE  x = m
  <2>1. x >= m /\ m >= x /\ x \in Nat /\ m \in Nat
    BY <1>1
  <2> QED BY <2>1
<1>2. \E x \in S : \A y \in S : x >= y
  OBVIOUS
<1>3. Max(S) \in S /\ \A y \in S : Max(S) >= y
  BY <1>2 DEF Max
<1> QED BY <1>1, <1>3

LEMMA InOrderLen ==
  ASSUME NEW S, IsFiniteSet(S)
  PROVE  /\ Cardinality(S) \in Nat /\ InOrder(S) \in Seq({InOrder(S)[i] : i \in 1..Cardinality(S)})
         /\ Len(InOrder(S)) = Cardinality(S)
<1> DEFINE n == Cardinality(S)
<1>1. n \in Nat
  BY FS_CardinalityType
<1>2. DOMAIN InOrder(S) = 1..n /\ InOrder(S) = [i \in 1..n |-> InOrder(S)[i]]
  BY DEF InOrder
<1> HIDE DEF n
<1>3. InOrder(S) \in [1..n -> {InOrder(S)[i] : i \in 1..n}]
  BY <1>2
<1>4. InOrder(S) \in Seq({InOrder(S)[i] : i \in 1..n}) /\ Len(InOrder(S)) = n
  BY <1>1, <1>3
<1> QED BY <1>1, <1>4 DEF n

LEMMA AppendIs ==
  ASSUME NEW X, NEW s \in Seq(X), NEW k \in X, NEW n \in Nat, Len(s) = n,
         NEW t \in [1..(n + 1) -> X], \A i \in 1..n : t[i] = s[i], t[n + 1] = k
  PROVE  t = Append(s, k)
<1>1. Append(s, k) \in Seq(X) /\ Len(Append(s, k)) = n + 1
  OBVIOUS
<1>2. t \in Seq(X) /\ Len(t) = n + 1
  OBVIOUS
<1>3. \A i \in 1..(n + 1) : Append(s, k)[i] = t[i]
  <2>1. \A i \in 1..n : Append(s, k)[i] = s[i]
    OBVIOUS
  <2>2. Append(s, k)[n + 1] = k
    OBVIOUS
  <2>3. \A i \in 1..(n + 1) : i \in 1..n \/ i = n + 1
    OBVIOUS
  <2> QED BY <2>1, <2>2, <2>3
<1> QED BY <1>1, <1>2, <1>3

(* A number above all the others goes to the end.                           *)
LEMMA InOrderAppend ==
  ASSUME NEW S \in SUBSET Nat, IsFiniteSet(S), NEW k \in Nat, \A x \in S : x < k
  PROVE  /\ InOrder(S \cup {k}) = Append(InOrder(S), k)
         /\ Cardinality(S) \in Nat /\ Cardinality(S \cup {k}) = Cardinality(S) + 1
         /\ IsFiniteSet(S \cup {k})
<1> DEFINE T == S \cup {k}
           n == Cardinality(S)
           UpTo(A, i) == {x \in A : Cardinality({j \in A : j <= x}) <= i}
<1>1. n \in Nat
  BY FS_CardinalityType
<1>2. k \notin S
  OBVIOUS
<1>3. IsFiniteSet(T) /\ Cardinality(T) = n + 1
  BY <1>2, FS_AddElement
<1>4. T \in SUBSET Nat
  OBVIOUS
<1>5. \A x \in S : {j \in T : j <= x} = {j \in S : j <= x}
  OBVIOUS
<1>6. {j \in T : j <= k} = T
  <2>1. \A j \in T : j <= k
    OBVIOUS
  <2> HIDE DEF T
  <2> QED BY <2>1
<1>7. ASSUME NEW i \in 1..n
      PROVE  UpTo(T, i) = UpTo(S, i)
  <2>1. ~ (Cardinality({j \in T : j <= k}) <= i)
    BY <1>1, <1>3, <1>6
  <2>2. \A x \in S : Cardinality({j \in T : j <= x}) = Cardinality({j \in S : j <= x})
    BY <1>5
  <2>3. ASSUME NEW x \in T
        PROVE  x \in UpTo(T, i) <=> x \in UpTo(S, i)
    <3>1. CASE x \in S
      BY <2>2, <3>1
    <3>2. CASE x = k
      BY <1>2, <2>1, <3>2
    <3> QED BY <3>1, <3>2
  <2>4. UpTo(T, i) \subseteq T /\ UpTo(S, i) \subseteq T
    OBVIOUS
  <2> QED BY <2>3, <2>4
<1>8. UpTo(T, n + 1) = T
  <2>1. ASSUME NEW x \in T
        PROVE  Cardinality({j \in T : j <= x}) <= n + 1
    <3>1. {j \in T : j <= x} \in SUBSET T
      OBVIOUS
    <3> QED BY <1>3, <3>1, FS_Subset
  <2> QED BY <2>1
<1>9. Max(UpTo(T, n + 1)) = k
  <2>1. \A y \in T : k >= y
    OBVIOUS
  <2> QED BY <1>4, <1>8, <2>1, MaxIs
<1>10. InOrder(S) = [i \in 1..n |-> Max(UpTo(S, i))]
  BY DEF InOrder
<1>11. InOrder(T) = [i \in 1..(n + 1) |-> Max(UpTo(T, i))]
  BY <1>3 DEF InOrder
<1>12. \A i \in 1..n : InOrder(T)[i] = InOrder(S)[i]
  <2> SUFFICES ASSUME NEW i \in 1..n
               PROVE  InOrder(T)[i] = InOrder(S)[i]
    OBVIOUS
  <2>1. i \in 1..(n + 1)
    BY <1>1
  <2> HIDE DEF T, n, UpTo
  <2>2. InOrder(T)[i] = Max(UpTo(T, i)) /\ InOrder(S)[i] = Max(UpTo(S, i))
    BY <1>10, <1>11, <2>1
  <2> QED BY <1>7, <2>2
<1>13. InOrder(T)[n + 1] = k
  <2>1. n + 1 \in 1..(n + 1)
    BY <1>1
  <2> HIDE DEF T, n, UpTo
  <2> QED BY <1>9, <1>11, <2>1
<1>14. Len(InOrder(S)) = n
  BY InOrderLen
<1>15. DOMAIN InOrder(T) = 1..(n + 1) /\ InOrder(T) = [i \in 1..(n + 1) |-> InOrder(T)[i]]
  <2> HIDE DEF UpTo
  <2> QED BY <1>11
<1>16. InOrder(T) = Append(InOrder(S), k)
  <2> DEFINE X == {InOrder(S)[i] : i \in 1..n} \cup {k}
  <2>1. InOrder(S) \in Seq(X)
    <3>1. InOrder(S) \in Seq({InOrder(S)[i] : i \in 1..n})
      BY InOrderLen
    <3>2. {InOrder(S)[i] : i \in 1..n} \subseteq X
      OBVIOUS
    <3> HIDE DEF X, n
    <3> QED BY <3>1, <3>2
  <2>2. k \in X
    OBVIOUS
  <2>3. \A i \in 1..(n + 1) : InOrder(T)[i] \in X
    <3>1. \A i \in 1..(n + 1) : i \in 1..n \/ i = n + 1
      BY <1>1
    <3>2. \A i \in 1..n : InOrder(S)[i] \in X
      OBVIOUS
    <3> HIDE DEF T, n, X
    <3> QED BY <1>12, <1>13, <2>2, <3>1, <3>2
  <2> HIDE DEF T, n, X
  <2>4. InOrder(T) \in [1..(n + 1) -> X]
    BY <1>15, <2>3
  <2> QED BY <1>1, <1>12, <1>13, <1>14, <2>1, <2>2, <2>4, AppendIs
<1> QED BY <1>1, <1>3, <1>16

LEMMA InOrderEmpty == InOrder({}) = <<>>
<1>1. Cardinality({}) = 0
  BY FS_EmptySet
<1>2. 1..0 = {}
  OBVIOUS
<1> QED BY <1>1, <1>2 DEF InOrder

(***************************************************************************)
(* The meaning of the stream, frame by frame.                              *)
(***************************************************************************)
LEMMA MeaningNext ==
  ASSUME stream' = stream, parsed' = parsed + 1
  PROVE  Meaning(parsed)' = Meaning(parsed + 1)
BY DEF Meaning, MessageOf, FirstOf, Data, Control

LEMMA MeaningSame ==
  ASSUME stream' = stream, parsed' = parsed
  PROVE  Meaning(parsed)' = Meaning(parsed)
BY DEF Meaning, MessageOf, FirstOf, Data, Control

LEMMA MeaningEmpty == Meaning(0) = <<>>
<1> DEFINE E == {k \in 1..0 : stream[k].fin}
<1>1. E = {}
  OBVIOUS
<1>2. Cardinality(E) = 0
  BY <1>1, FS_EmptySet
<1>3. Meaning(0) = [i \in 1..Cardinality(E) |-> MessageOf(InOrder(E)[i])]
  BY DEF Meaning
<1> HIDE DEF E
<1> QED BY <1>2, <1>3

(* A frame that ends a message adds it, and no other frame adds anything.   *)
LEMMA MeaningStep ==
  ASSUME NEW n \in Nat
  PROVE  /\ stream[n + 1].fin => Meaning(n + 1) = Append(Meaning(n), MessageOf(n + 1))
         /\ ~ stream[n + 1].fin => Meaning(n + 1) = Meaning(n)
<1> DEFINE E == {k \in 1..n : stream[k].fin}
           F == {k \in 1..(n + 1) : stream[k].fin}
           c == Cardinality(E)
<1>1. E \in SUBSET Nat /\ IsFiniteSet(E) /\ (\A x \in E : x < n + 1) /\ n + 1 \in Nat
  <2>1. IsFiniteSet(1..n) /\ E \in SUBSET (1..n)
    BY FS_Interval
  <2>2. IsFiniteSet(E)
    BY <2>1, FS_Subset
  <2> QED BY <2>2
<1>2. c \in Nat
  BY <1>1, FS_CardinalityType
<1>3. Meaning(n) = [i \in 1..c |-> MessageOf(InOrder(E)[i])]
  BY DEF Meaning
<1>4. Meaning(n + 1) = [i \in 1..Cardinality(F) |-> MessageOf(InOrder(F)[i])]
  BY DEF Meaning
<1>5. ASSUME ~ stream[n + 1].fin
      PROVE  Meaning(n + 1) = Meaning(n)
  <2>1. F = E
    BY <1>5
  <2> HIDE DEF E, F
  <2> QED BY <1>3, <1>4, <2>1
<1>6. ASSUME stream[n + 1].fin
      PROVE  Meaning(n + 1) = Append(Meaning(n), MessageOf(n + 1))
  <2>1. F = E \cup {n + 1}
    BY <1>6
  <2>2. /\ InOrder(F) = Append(InOrder(E), n + 1) /\ Cardinality(F) = c + 1
    <3> HIDE DEF E, F
    <3> QED BY <1>1, <2>1, InOrderAppend
  <2>3. InOrder(E) \in Seq({InOrder(E)[i] : i \in 1..c}) /\ Len(InOrder(E)) = c
    <3> HIDE DEF E
    <3> QED BY <1>1, InOrderLen
  <2> HIDE DEF E, F, c
  <2>4. (\A i \in 1..c : InOrder(F)[i] = InOrder(E)[i]) /\ InOrder(F)[c + 1] = n + 1
    BY <1>2, <2>2, <2>3
  <2> DEFINE X == {MessageOf(InOrder(F)[i]) : i \in 1..(c + 1)}
             s == Meaning(n)
             t == Meaning(n + 1)
  <2>5. t = [i \in 1..(c + 1) |-> MessageOf(InOrder(F)[i])]
    BY <1>4, <2>2
  <2>6. c + 1 \in 1..(c + 1) /\ \A i \in 1..c : i \in 1..(c + 1)
    BY <1>2
  <2>7. t \in [1..(c + 1) -> X]
    BY <2>5
  <2>8. s = [i \in 1..c |-> MessageOf(InOrder(F)[i])]
    BY <1>3, <2>4
  <2>9. s \in [1..c -> X]
    BY <2>6, <2>8
  <2>10. t[c + 1] = MessageOf(n + 1) /\ MessageOf(n + 1) \in X
    BY <2>4, <2>5, <2>6
  <2>11. \A i \in 1..c : t[i] = s[i]
    BY <2>5, <2>6, <2>8
  <2> HIDE DEF X, s, t
  <2>12. s \in Seq(X) /\ Len(s) = c
    BY <1>2, <2>9
  <2>13. t = Append(s, MessageOf(n + 1))
    BY <1>2, <2>7, <2>10, <2>11, <2>12, AppendIs
  <2> QED BY <2>13 DEF s, t
<1> QED BY <1>5, <1>6

(***************************************************************************)
(* The frames of the message at hand.                                      *)
(***************************************************************************)
LEMMA FirstIs ==
  ASSUME NEW k \in Nat, NEW j \in 1..k, IsFirst(j, k)
  PROVE  FirstOf(k) = j
<1> DEFINE P(x) == /\ stream[x].opcode \in {1, 2}
                   /\ \A i \in (x + 1)..k : stream[i].opcode \notin {1, 2}
<1>1. P(j)
  BY DEF IsFirst
<1>2. FirstOf(k) = CHOOSE x \in 1..k : P(x)
  BY DEF FirstOf
<1>3. FirstOf(k) \in 1..k /\ P(FirstOf(k))
  <2>1. \E x \in 1..k : P(x)
    BY <1>1
  <2> HIDE DEF P
  <2> QED BY <1>2, <2>1
<1>4. ~ (j < FirstOf(k))
  <2>1. j < FirstOf(k) => FirstOf(k) \in (j + 1)..k
    BY <1>3
  <2> QED BY <1>1, <1>3, <2>1
<1>5. ~ (FirstOf(k) < j)
  <2>1. FirstOf(k) < j => j \in (FirstOf(k) + 1)..k
    BY <1>3
  <2> QED BY <1>1, <1>3, <2>1
<1> QED BY <1>3, <1>4, <1>5

LEMMA IsFirstStep ==
  ASSUME NEW k \in Nat, NEW j \in 1..k, IsFirst(j, k), stream[k + 1].opcode \notin {1, 2}
  PROVE  IsFirst(j, k + 1) /\ j \in 1..(k + 1)
<1>1. \A i \in (j + 1)..(k + 1) : i \in (j + 1)..k \/ i = k + 1
  OBVIOUS
<1> QED BY <1>1 DEF IsFirst

LEMMA Joined ==
  ASSUME NEW k \in Nat, NEW j \in 1..(k + 1)
  PROVE  /\ Data(k + 1) => InOrder({i \in j..(k + 1) : Data(i)})
                             = Append(InOrder({i \in j..k : Data(i)}), k + 1)
         /\ ~ Data(k + 1) => {i \in j..(k + 1) : Data(i)} = {i \in j..k : Data(i)}
<1> DEFINE S == {i \in j..k : Data(i)}
           T == {i \in j..(k + 1) : Data(i)}
<1>1. \A i \in j..(k + 1) : i \in j..k \/ i = k + 1
  OBVIOUS
<1>2. S \in SUBSET Nat /\ IsFiniteSet(S) /\ (\A x \in S : x < k + 1) /\ k + 1 \in Nat
  <2>1. IsFiniteSet(j..k) /\ S \in SUBSET (j..k)
    BY FS_Interval
  <2>2. IsFiniteSet(S)
    BY <2>1, FS_Subset
  <2> QED BY <2>2
<1>3. ASSUME Data(k + 1)
      PROVE  InOrder(T) = Append(InOrder(S), k + 1)
  <2>1. T = S \cup {k + 1}
    BY <1>1, <1>3
  <2> HIDE DEF S, T
  <2> QED BY <1>2, <2>1, InOrderAppend
<1>4. ASSUME ~ Data(k + 1)
      PROVE  T = S
  BY <1>1, <1>4
<1> QED BY <1>3, <1>4

(***************************************************************************)
(* What has been handed up is what the stream means.                       *)
(***************************************************************************)
CutInv == IInv /\ Assembly /\ CutsDoNotMatter

LEMMA InitCutInv == Init => CutInv
<1> SUFFICES ASSUME Init
             PROVE  CutInv
  OBVIOUS
<1>1. /\ parsed = 0 /\ in_fragment_ = FALSE /\ fragment_payload_ = <<>>
      /\ outFrames = <<>> /\ delivered = <<>>
  BY DEF Init
<1>2. Assembly
  BY <1>1 DEF Assembly
<1>3. CutsDoNotMatter
  <2>1. Meaning(parsed) = <<>>
    BY <1>1, MeaningEmpty
  <2>2. delivered \o outFrames = <<>>
    BY <1>1
  <2> QED BY <2>1, <2>2 DEF CutsDoNotMatter
<1> QED BY <1>2, <1>3, InitIInv DEF CutInv

LEMMA AssemblySame ==
  ASSUME Assembly,
         UNCHANGED <<stream, parsed, in_fragment_, fragment_opcode_, fragment_payload_>>
  PROVE  Assembly'
BY DEF Assembly, IsFirst, Data

LEMMA AssemblyNext ==
  ASSUME stream' = stream, parsed' = parsed + 1, NEW j \in 1..(parsed + 1), IsFirst(j, parsed + 1),
         in_fragment_', fragment_opcode_' = stream[j].opcode,
         fragment_payload_' = InOrder({i \in j..(parsed + 1) : Data(i)})
  PROVE  Assembly'
<1>1. IsFirst(j, parsed)' 
  BY DEF IsFirst
<1>2. InOrder({i \in j..parsed : Data(i)})' = InOrder({i \in j..(parsed + 1) : Data(i)})
  BY DEF Data
<1> QED BY <1>1, <1>2 DEF Assembly

(* Two sequences joined do not depend on where a message is appended.       *)
LEMMA CutsSame ==
  ASSUME CutsDoNotMatter, UNCHANGED <<stream, parsed>>,
         delivered' \o outFrames' = delivered \o outFrames
  PROVE  CutsDoNotMatter'
BY MeaningSame DEF CutsDoNotMatter

LEMMA TakenCuts ==
  ASSUME CutInv, Taken, Consumed,
         IF NextFrame.fin
         THEN \E m \in Message : m = MessageOf(parsed + 1) /\ outFrames' = Append(outFrames, m)
         ELSE outFrames' = outFrames
  PROVE  CutsDoNotMatter'
<1>1. /\ parsed \in Nat /\ NextFrame = stream[parsed + 1] /\ TypeOK
      /\ delivered \o outFrames = Meaning(parsed)
  BY NextShape DEF CutInv, IInv, TInv, Taken, InLoop, CutsDoNotMatter
<1>2. stream' = stream /\ parsed' = parsed + 1 /\ delivered' = delivered
  BY DEF Consumed, input
<1>3. Meaning(parsed)' = Meaning(parsed + 1)
  BY <1>2, MeaningNext
<1>4. delivered \in Seq(Message) /\ outFrames \in Seq(Message)
  BY <1>1 DEF TypeOK
<1>5. CASE NextFrame.fin
  <2>1. PICK m \in Message : m = MessageOf(parsed + 1) /\ outFrames' = Append(outFrames, m)
    BY <1>5
  <2>2. delivered \o Append(outFrames, m) = Append(delivered \o outFrames, m)
    BY <1>4
  <2>3. Meaning(parsed + 1) = Append(Meaning(parsed), MessageOf(parsed + 1))
    BY <1>1, <1>5, MeaningStep
  <2> QED BY <1>1, <1>2, <1>3, <2>1, <2>2, <2>3 DEF CutsDoNotMatter
<1>6. CASE ~ NextFrame.fin
  <2>1. Meaning(parsed + 1) = Meaning(parsed)
    BY <1>1, <1>6, MeaningStep
  <2> QED BY <1>1, <1>2, <1>3, <1>6, <2>1 DEF CutsDoNotMatter
<1> QED BY <1>5, <1>6

LEMMA NextCutInv == CutInv /\ [Next]_vars => CutInv'
<1> SUFFICES ASSUME CutInv, [Next]_vars
             PROVE  CutInv'
  OBVIOUS
<1> USE DEF input, parserVars
<1>0. IInv /\ TypeOK /\ Mode /\ Assembly /\ CutsDoNotMatter /\ IInv'
  BY NextIInv DEF CutInv, IInv, TInv
<1>1. CASE UNCHANGED vars
  BY <1>0, <1>1, AssemblySame, CutsSame DEF CutInv, vars
<1>2. ASSUME NEW n \in 1..(StreamLen - arrived), Read(n)
      PROVE  CutInv'
  <2>1. outFrames' = outFrames
    BY <1>0, <1>2 DEF Read, Mode
  <2> QED BY <1>0, <1>2, <2>1, AssemblySame, CutsSame DEF CutInv, Read
<1>3. CASE UpgradeIncomplete \/ UpgradeRefused \/ tryConsumeUpgrade \/ Throw
  BY <1>0, <1>3, AssemblySame, CutsSame
  DEF CutInv, UpgradeIncomplete, UpgradeRefused, tryConsumeUpgrade, Throw
<1>4. CASE Continuation \/ WholeData \/ FirstFragment \/ ControlFrame
  <2> DEFINE n == parsed + 1
  <2>1. Taken /\ Consumed /\ stream' = stream /\ parsed' = n
    BY <1>4 DEF Continuation, WholeData, FirstFragment, ControlFrame, Consumed
  <2>2. /\ NextFrame = stream[n] /\ NextFrame \in FrameShape /\ n \in 1..Len(stream) /\ n \in Position
        /\ parsed \in Nat /\ NextFrame.fin \in BOOLEAN /\ NextFrame.opcode \in 0..15
    BY <1>0, <2>1, NextShape, Shapes DEF Taken, InLoop
  <2>3. /\ Data(n) <=> NextFrame.opcode \in {0, 1, 2}
        /\ Control(stream[n]) <=> NextFrame.opcode >= 8
    BY <2>2 DEF Data, Control
  <2>4. ~ OutOfPlace(NextFrame) /\ ~ Malformed(NextFrame)
    <3>1. Avail >= Size(NextFrame) /\ Avail >= 2
      BY <1>0, <2>1, TakenWhole
    <3> QED BY <2>1, <3>1 DEF Taken, Rejected
  <2>5. in_fragment_ \in BOOLEAN /\ outFrames \in Seq(Message) /\ fragment_payload_ \in Seq(Position)
        /\ fragment_opcode_ \in 0..15
    BY <1>0 DEF TypeOK
  <2>6. CASE Continuation
    <3>1. in_fragment_ /\ NextFrame.opcode = 0
      BY <2>4, <2>6 DEF OutOfPlace, Continuation
    <3>2. PICK j \in 1..parsed : /\ IsFirst(j, parsed)
                                 /\ fragment_opcode_ = stream[j].opcode
                                 /\ fragment_payload_ = InOrder({i \in j..parsed : Data(i)})
      BY <1>0, <3>1 DEF Assembly
    <3>3. IsFirst(j, n) /\ j \in 1..n
      BY <2>2, <3>1, <3>2, IsFirstStep
    <3>4. Append(fragment_payload_, n) = InOrder({i \in j..n : Data(i)})
      BY <2>2, <2>3, <3>1, <3>2, <3>3, Joined
    <3>5. CASE NextFrame.fin
      <4>1. Emit(fragment_opcode_, Append(fragment_payload_, n)) /\ EndFragment
        BY <2>6, <3>5 DEF Continuation
      <4>2. FirstOf(n) = j
        BY <2>2, <3>3, FirstIs
      <4>3. MessageOf(n) = [opcode |-> fragment_opcode_, payload |-> Append(fragment_payload_, n)]
        <5>1. ~ Control(stream[n])
          BY <2>3, <3>1
        <5>2. MessageOf(n) = [opcode |-> stream[j].opcode, payload |-> InOrder({i \in j..n : Data(i)})]
          BY <4>2, <5>1 DEF MessageOf
        <5> QED BY <3>2, <3>4, <5>2
      <4>4. [opcode |-> fragment_opcode_, payload |-> Append(fragment_payload_, n)] \in Message
        BY <2>2, <2>5 DEF Message
      <4>5. CutsDoNotMatter'
        BY <2>1, <3>5, <4>1, <4>3, <4>4, TakenCuts DEF Emit
      <4>6. Assembly'
        BY <4>1 DEF EndFragment, Assembly
      <4> QED BY <1>0, <4>5, <4>6 DEF CutInv
    <3>6. CASE ~ NextFrame.fin
      <4>1. /\ fragment_payload_' = Append(fragment_payload_, n)
            /\ UNCHANGED <<in_fragment_, fragment_opcode_, outFrames>>
        BY <2>6, <3>6 DEF Continuation
      <4>2. Assembly'
        BY <2>1, <3>1, <3>2, <3>3, <3>4, <4>1, AssemblyNext
      <4>3. CutsDoNotMatter'
        BY <2>1, <3>6, <4>1, TakenCuts
      <4> QED BY <1>0, <4>2, <4>3 DEF CutInv
    <3> QED BY <3>5, <3>6
  <2>7. CASE WholeData
    <3>1. /\ ~ in_fragment_ /\ NextFrame.opcode \in {1, 2} /\ NextFrame.fin
          /\ Emit(NextFrame.opcode, <<n>>)
          /\ UNCHANGED <<in_fragment_, fragment_opcode_, fragment_payload_>>
      BY <2>4, <2>7 DEF OutOfPlace, WholeData
    <3>2. Assembly'
      BY <1>0, <3>1 DEF Assembly
    <3>3. FirstOf(n) = n
      <4>1. IsFirst(n, n) /\ n \in 1..n
        BY <2>2, <3>1 DEF IsFirst
      <4> QED BY <2>2, <4>1, FirstIs
    <3>4. InOrder({i \in n..n : Data(i)}) = <<n>>
      <4>1. {i \in n..parsed : Data(i)} = {}
        BY <2>2
      <4>2. n \in 1..n
        BY <2>2
      <4>3. InOrder({i \in n..n : Data(i)}) = Append(InOrder({i \in n..parsed : Data(i)}), n)
        BY <2>2, <2>3, <3>1, <4>2, Joined
      <4>4. Append(<<>>, n) = <<n>>
        OBVIOUS
      <4> QED BY <4>1, <4>3, <4>4, InOrderEmpty
    <3>5. MessageOf(n) = [opcode |-> NextFrame.opcode, payload |-> <<n>>]
      BY <2>2, <2>3, <3>1, <3>3, <3>4 DEF MessageOf
    <3>6. [opcode |-> NextFrame.opcode, payload |-> <<n>>] \in Message
      BY <2>2 DEF Message
    <3>7. CutsDoNotMatter'
      BY <2>1, <3>1, <3>5, <3>6, TakenCuts DEF Emit
    <3> QED BY <1>0, <3>2, <3>7 DEF CutInv
  <2>8. CASE FirstFragment
    <3>1. /\ NextFrame.opcode \in {1, 2} /\ ~ NextFrame.fin
          /\ in_fragment_' /\ fragment_opcode_' = NextFrame.opcode
          /\ fragment_payload_' = <<n>> /\ outFrames' = outFrames
      BY <2>8 DEF FirstFragment
    <3>2. IsFirst(n, n) /\ n \in 1..n
      BY <2>2, <3>1 DEF IsFirst
    <3>3. InOrder({i \in n..n : Data(i)}) = <<n>>
      <4>1. {i \in n..parsed : Data(i)} = {}
        BY <2>2
      <4>2. InOrder({i \in n..n : Data(i)}) = Append(InOrder({i \in n..parsed : Data(i)}), n)
        BY <2>2, <2>3, <3>1, <3>2, Joined
      <4>3. Append(<<>>, n) = <<n>>
        OBVIOUS
      <4> QED BY <4>1, <4>2, <4>3, InOrderEmpty
    <3>4. Assembly'
      BY <2>1, <2>2, <3>1, <3>2, <3>3, AssemblyNext
    <3>5. CutsDoNotMatter'
      BY <2>1, <3>1, TakenCuts
    <3> QED BY <1>0, <3>4, <3>5 DEF CutInv
  <2>9. CASE ControlFrame
    <3>1. /\ Control(NextFrame) /\ NextFrame.fin /\ Emit(NextFrame.opcode, <<n>>)
          /\ UNCHANGED <<in_fragment_, fragment_opcode_, fragment_payload_>>
      BY <2>4, <2>9 DEF ControlFrame, Malformed
    <3>2. ~ Data(n) /\ stream[n].opcode \notin {1, 2}
      BY <2>2, <2>3, <3>1
    <3>3. Assembly'
      <4>1. CASE ~ in_fragment_
        BY <1>0, <3>1, <4>1 DEF Assembly
      <4>2. CASE in_fragment_
        <5>1. PICK j \in 1..parsed : /\ IsFirst(j, parsed)
                                     /\ fragment_opcode_ = stream[j].opcode
                                     /\ fragment_payload_ = InOrder({i \in j..parsed : Data(i)})
          BY <1>0, <4>2 DEF Assembly
        <5>2. IsFirst(j, n) /\ j \in 1..n
          BY <2>2, <3>2, <5>1, IsFirstStep
        <5>3. {i \in j..n : Data(i)} = {i \in j..parsed : Data(i)}
          BY <2>2, <3>2, <5>2, Joined
        <5> QED BY <2>1, <3>1, <4>2, <5>1, <5>2, <5>3, AssemblyNext
      <4> QED BY <4>1, <4>2
    <3>4. MessageOf(n) = [opcode |-> NextFrame.opcode, payload |-> <<n>>]
      BY <2>2, <3>1 DEF MessageOf
    <3>5. [opcode |-> NextFrame.opcode, payload |-> <<n>>] \in Message
      BY <2>2 DEF Message
    <3>6. CutsDoNotMatter'
      BY <2>1, <3>1, <3>4, <3>5, TakenCuts DEF Emit
    <3> QED BY <1>0, <3>3, <3>6 DEF CutInv
  <2> QED BY <1>4, <2>6, <2>7, <2>8, <2>9
<1>5. CASE Return
  <2>1. delivered' \o outFrames' = delivered \o outFrames
    <3>1. (delivered \o outFrames) \o <<>> = delivered \o outFrames
      BY <1>0 DEF TypeOK
    <3> QED BY <1>5, <3>1 DEF Return
  <2> QED BY <1>0, <1>5, <2>1, AssemblySame, CutsSame DEF CutInv, Return
<1>6. CASE Over
  BY <1>1, <1>6 DEF Over
<1> QED BY <1>1, <1>2, <1>3, <1>4, <1>5, <1>6 DEF Next, feed

(* Wherever the reads cut the stream, the messages handed up are those its  *)
(* frames mean: a fragmented message in the order of its frames under the   *)
(* opcode of the first, control frames between them left out of it and      *)
(* handed up on their own (WebSocketCodec.cpp:330).                         *)
THEOREM CutsCorrect == Spec => []CutsDoNotMatter
<1>1. CutInv => CutsDoNotMatter
  BY DEF CutInv
<1> QED BY <1>1, InitCutInv, NextCutInv, PTL DEF Spec

(***************************************************************************)
(* Where frames end.  The library's induction takes an operator; what      *)
(* these lemmas need of it is that a set of numbers has a least member.    *)
(***************************************************************************)
LEMMA LeastMember ==
  ASSUME NEW T \in SUBSET Nat, T # {}
  PROVE  \E n \in T : \A m \in T : n <= m
<1>1. PICK n \in T : \A m \in T : <<m, n>> \notin OpToRel(<, Nat)
  BY NatLessThanWellFounded, WFMin
<1>2. ASSUME NEW m \in T
      PROVE  n <= m
  <2>1. ~ (m < n)
    BY <1>1 DEF OpToRel
  <2> QED BY <2>1
<1> QED BY <1>2

(* A table of where the first m frames of s end.                            *)
IsEnds(e, s, start, m) ==
  e = [n \in 0..m |-> IF n = 0 THEN start ELSE e[n - 1] + Size(s[n])]

LEMMA EndsExist ==
  ASSUME NEW s \in Seq(FrameShape), NEW start \in Nat
  PROVE  \E e : IsEnds(e, s, start, Len(s))
<1> DEFINE T == {m \in 0..Len(s) : ~ \E e : IsEnds(e, s, start, m)}
<1>0. Len(s) \in Nat /\ Len(s) \in 0..Len(s) /\ T \in SUBSET Nat
  OBVIOUS
<1>1. SUFFICES ASSUME T # {}
               PROVE  FALSE
  BY <1>0
<1>2. PICK m \in T : \A k \in T : m <= k
  <2> HIDE DEF T
  <2> QED BY <1>0, <1>1, LeastMember
<1>3. m \in Nat /\ m \in 0..Len(s)
  BY <1>0
<1>4. CASE m = 0
  <2>1. IsEnds([n \in 0..0 |-> start], s, start, 0)
    BY DEF IsEnds
  <2> QED BY <1>4, <2>1
<1>5. CASE m # 0
  <2>1. m - 1 \in 0..Len(s) /\ m - 1 \notin T
    BY <1>2, <1>3, <1>5
  <2>2. PICK e : IsEnds(e, s, start, m - 1)
    BY <2>1
  <2> DEFINE f == [n \in 0..m |-> IF n = m THEN e[m - 1] + Size(s[m]) ELSE e[n]]
  <2>3. ASSUME NEW n \in 0..m
        PROVE  f[n] = IF n = 0 THEN start ELSE f[n - 1] + Size(s[n])
    <3>1. CASE n = m
      BY <1>3, <1>5, <3>1
    <3>2. CASE n # m
      <4>1. n \in 0..(m - 1) /\ f[n] = e[n]
        BY <1>3, <1>5, <3>2
      <4>2. e[n] = IF n = 0 THEN start ELSE e[n - 1] + Size(s[n])
        BY <2>2, <4>1 DEF IsEnds
      <4>3. n # 0 => n - 1 \in 0..m /\ n - 1 # m /\ f[n - 1] = e[n - 1]
        BY <1>3, <3>2
      <4> QED BY <4>1, <4>2, <4>3
    <3> QED BY <3>1, <3>2
  <2>4. f = [n \in 0..m |-> IF n = 0 THEN start ELSE f[n - 1] + Size(s[n])]
    <3>1. f = [n \in 0..m |-> f[n]]
      OBVIOUS
    <3> HIDE DEF f
    <3> QED BY <2>3, <3>1
  <2>5. IsEnds(f, s, start, m)
    BY <2>4 DEF IsEnds
  <2> QED BY <2>5
<1> QED BY <1>4, <1>5

LEMMA EndsIs ==
  ASSUME NEW s \in Seq(FrameShape), NEW start \in Nat
  PROVE  /\ FrameEnds(s, start)[0] = start
         /\ \A n \in 1..Len(s) : FrameEnds(s, start)[n] = FrameEnds(s, start)[n - 1] + Size(s[n])
         /\ \A n \in 0..Len(s) : FrameEnds(s, start)[n] \in Nat
<1> DEFINE e == FrameEnds(s, start)
<1>1. IsEnds(e, s, start, Len(s))
  <2>1. PICK d : IsEnds(d, s, start, Len(s))
    BY EndsExist
  <2>2. e = CHOOSE d1 : d1 = [n \in 0..Len(s) |-> IF n = 0 THEN start ELSE d1[n - 1] + Size(s[n])]
    BY DEF FrameEnds
  <2> QED BY <2>1, <2>2 DEF IsEnds
<1> HIDE DEF e
<1>2. \A n \in 0..Len(s) : e[n] = IF n = 0 THEN start ELSE e[n - 1] + Size(s[n])
  BY <1>1 DEF IsEnds
<1>3. Len(s) \in Nat
  OBVIOUS
<1>4. e[0] = start /\ \A n \in 1..Len(s) : e[n] = e[n - 1] + Size(s[n])
  BY <1>2, <1>3
<1>5. \A n \in 0..Len(s) : e[n] \in Nat
  <2> DEFINE T == {n \in 0..Len(s) : e[n] \notin Nat}
  <2>1. SUFFICES ASSUME T # {}
                 PROVE  FALSE
    OBVIOUS
  <2>2. PICK m \in T : \A k \in T : m <= k
    <3>1. T \in SUBSET Nat
      BY <1>3
    <3> HIDE DEF T
    <3> QED BY <2>1, <3>1, LeastMember
  <2>3. m # 0 /\ m \in 1..Len(s)
    BY <1>3, <1>4
  <2>4. e[m - 1] \in Nat
    BY <1>3, <2>2, <2>3
  <2>5. Size(s[m]) \in Nat
    BY <1>3, <2>3, Shapes
  <2>6. e[m] \in Nat
    BY <1>4, <2>3, <2>4, <2>5
  <2> QED BY <2>6
<1> QED BY <1>4, <1>5 DEF e

LEMMA LaterEnds ==
  ASSUME TypeOK
  PROVE  /\ EndOf(0) = RequestLen
         /\ \A n \in 0..Len(stream) : EndOf(n) \in Nat
         /\ \A n \in 1..Len(stream) : EndOf(n) = EndOf(n - 1) + Size(stream[n])
         /\ \A k, n \in 0..Len(stream) : k <= n => EndOf(k) <= EndOf(n)
<1>1. stream \in Seq(FrameShape) /\ RequestLen \in Nat /\ Len(stream) \in Nat
  BY WsParserAssumption DEF TypeOK, RequestLen
<1>2. /\ EndOf(0) = RequestLen
      /\ \A n \in 0..Len(stream) : EndOf(n) \in Nat
      /\ \A n \in 1..Len(stream) : EndOf(n) = EndOf(n - 1) + Size(stream[n])
  BY <1>1, EndsIs DEF EndOf
<1>3. ASSUME NEW k \in 0..Len(stream), NEW n \in 0..Len(stream), k <= n
      PROVE  EndOf(k) <= EndOf(n)
  <2> DEFINE T == {i \in k..Len(stream) : ~ (EndOf(k) <= EndOf(i))}
  <2>1. SUFFICES ASSUME T # {}
                 PROVE  FALSE
    BY <1>1, <1>3
  <2>2. PICK m \in T : \A i \in T : m <= i
    <3>1. T \in SUBSET Nat
      BY <1>1
    <3> HIDE DEF T
    <3> QED BY <2>1, <3>1, LeastMember
  <2>3. m # k /\ m \in 1..Len(stream) /\ m - 1 \in k..Len(stream) /\ m - 1 \notin T
    BY <1>1, <1>2, <2>2
  <2>4. EndOf(k) <= EndOf(m - 1) /\ EndOf(m) = EndOf(m - 1) + Size(stream[m])
    BY <1>2, <2>3
  <2>5. Size(stream[m]) \in Nat /\ EndOf(k) \in Nat /\ EndOf(m - 1) \in Nat
    BY <1>1, <1>2, <2>3, Shapes
  <2>6. EndOf(k) <= EndOf(m)
    BY <2>4, <2>5
  <2> QED BY <2>6
<1> QED BY <1>2, <1>3

LEMMA SameEnds ==
  ASSUME UNCHANGED <<stream, require_mask_>>
  PROVE  /\ RequestLen' = RequestLen
         /\ FrameEnds(stream, RequestLen)' = FrameEnds(stream, RequestLen)
<1>1. RequestLen' = RequestLen
  BY DEF RequestLen
<1> QED BY <1>1 DEF FrameEnds, Size, MaskLen

(***************************************************************************)
(* What has arrived whole has been handed up.                              *)
(***************************************************************************)
(* The offset is where the frames consumed end, and between two calls of    *)
(* feed the next frame has not arrived whole.                               *)
InPlace ==
  /\ state_ = "AwaitingHttpUpgrade" => parsed = 0 /\ require_mask_
  /\ state_ = "Open" => offset = EndOf(parsed)
  /\ pc = "idle" /\ parsed < Len(stream) => arrived < EndOf(parsed + 1)

HeldInv == CutInv /\ InPlace

LEMMA InitHeldInv == Init => HeldInv
<1> SUFFICES ASSUME Init
             PROVE  HeldInv
  OBVIOUS
<1>1. CutInv /\ TypeOK
  BY InitCutInv DEF CutInv, IInv, TInv
<1>2. /\ parsed = 0 /\ arrived = 0 /\ offset = 0 /\ require_mask_ \in BOOLEAN
      /\ state_ = IF require_mask_ THEN "AwaitingHttpUpgrade" ELSE "Open"
  BY DEF Init
<1>3. state_ = "Open" => offset = EndOf(parsed)
  BY <1>1, <1>2, LaterEnds DEF RequestLen
<1>4. ASSUME parsed < Len(stream)
      PROVE  arrived < EndOf(parsed + 1)
  <2>1. parsed + 1 = 1 /\ 1 \in 1..Len(stream) /\ 0 \in 0..Len(stream) /\ 1 - 1 = 0
    BY <1>1, <1>2, <1>4 DEF TypeOK
  <2>2. Size(stream[1]) \in Nat /\ Size(stream[1]) >= 2
    BY <1>1, <2>1, Shapes DEF TypeOK
  <2>3. EndOf(1) = EndOf(0) + Size(stream[1]) /\ EndOf(0) \in Nat
    BY <1>1, <2>1, LaterEnds
  <2> QED BY <1>2, <2>1, <2>2, <2>3
<1> QED BY <1>1, <1>2, <1>3, <1>4 DEF HeldInv, InPlace

LEMMA NextHeldInv == HeldInv /\ [Next]_vars => HeldInv'
<1> SUFFICES ASSUME HeldInv, [Next]_vars
             PROVE  HeldInv'
  OBVIOUS
<1> USE DEF input, parserVars
<1>0. CutInv' /\ InPlace /\ TypeOK /\ Mode /\ parsed \in Nat /\ Len(stream) \in Nat
  BY NextCutInv DEF HeldInv, CutInv, IInv, TInv, TypeOK
<1>1. ASSUME UNCHANGED <<stream, require_mask_>>
      PROVE  /\ RequestLen' = RequestLen
             /\ FrameEnds(stream, RequestLen)' = FrameEnds(stream, RequestLen)
  BY <1>1, SameEnds
<1>2. /\ EndOf(0) = RequestLen /\ EndOf(parsed) \in Nat
      /\ parsed < Len(stream) => /\ EndOf(parsed + 1) \in Nat /\ EndOf(parsed) <= EndOf(parsed + 1)
                                 /\ EndOf(parsed + 1) = EndOf(parsed) + Size(stream[parsed + 1])
  <2>1. parsed \in 0..Len(stream) /\ parsed <= parsed + 1
    BY <1>0 DEF TypeOK
  <2>2. parsed < Len(stream) => /\ parsed + 1 \in 0..Len(stream) /\ parsed + 1 \in 1..Len(stream)
                                /\ (parsed + 1) - 1 = parsed
    BY <1>0
  <2> QED BY <1>0, <2>1, <2>2, LaterEnds
<1>3. CASE UNCHANGED vars
  <2>1. UNCHANGED <<stream, require_mask_, parsed, pc, state_, offset, arrived>>
    BY <1>3 DEF vars
  <2> QED BY <1>0, <1>1, <2>1 DEF HeldInv, InPlace, EndOf
<1>4. ASSUME NEW n \in 1..(StreamLen - arrived), Read(n)
      PROVE  HeldInv'
  <2>1. UNCHANGED <<stream, require_mask_, parsed, state_, offset>> /\ pc' # "idle"
    BY <1>4 DEF Read
  <2> QED BY <1>0, <1>1, <2>1 DEF HeldInv, InPlace, EndOf
<1>5. CASE UpgradeIncomplete
  <2>1. UNCHANGED <<stream, require_mask_, parsed, state_, offset, arrived>> /\ arrived < HeadLen
    BY <1>5 DEF UpgradeIncomplete
  <2>2. parsed = 0 /\ RequestLen = HeadLen
    BY <1>0, <1>5 DEF InPlace, Mode, UpgradeIncomplete, RequestLen
  <2>3. parsed < Len(stream) => arrived < EndOf(parsed + 1)
    BY <1>0, <1>2, <2>1, <2>2, WsParserAssumption DEF TypeOK
  <2> QED BY <1>0, <1>1, <2>1, <2>3 DEF HeldInv, InPlace, EndOf
<1>6. CASE UpgradeRefused \/ Throw
  <2>1. UNCHANGED <<stream, require_mask_, parsed, state_, offset>> /\ pc' = "failed"
    BY <1>6 DEF UpgradeRefused, Throw
  <2> QED BY <1>0, <1>1, <2>1 DEF HeldInv, InPlace, EndOf
<1>7. CASE tryConsumeUpgrade
  <2>1. UNCHANGED <<stream, require_mask_, parsed>> /\ state_' = "Open" /\ offset' = HeadLen /\ pc' = "frames"
    BY <1>7 DEF tryConsumeUpgrade
  <2>2. parsed = 0 /\ RequestLen = HeadLen
    BY <1>0, <1>7 DEF InPlace, Mode, tryConsumeUpgrade, RequestLen
  <2>3. offset' = EndOf(parsed)
    BY <1>2, <2>1, <2>2
  <2> QED BY <1>0, <1>1, <2>1, <2>3 DEF HeldInv, InPlace, EndOf
<1>8. CASE Continuation \/ WholeData \/ FirstFragment \/ ControlFrame
  <2>1. Taken /\ Consumed
    BY <1>8 DEF Continuation, WholeData, FirstFragment, ControlFrame
  <2>2. /\ UNCHANGED <<stream, require_mask_, state_>> /\ pc' = "frames" /\ state_ = "Open"
        /\ parsed < Len(stream) /\ parsed' = parsed + 1
    BY <1>0, <2>1 DEF Consumed, Taken, InLoop, Mode
  <2>3. offset' = EndOf(parsed + 1)
    BY <1>0, <1>2, <2>1, <2>2, NextShape DEF Consumed, InPlace
  <2> QED BY <1>0, <1>1, <2>2, <2>3 DEF HeldInv, InPlace, EndOf
<1>9. CASE Return
  <2>1. UNCHANGED <<stream, require_mask_, parsed, state_, offset, arrived>> /\ state_ = "Open"
    BY <1>0, <1>9 DEF Return, Mode
  <2>2. ASSUME parsed < Len(stream)
        PROVE  arrived < EndOf(parsed + 1)
    <3>1. Avail < Size(NextFrame) /\ NextFrame = stream[parsed + 1]
      BY <1>0, <1>9, <2>2, NextShape, WaitsIs DEF Return
    <3>2. Size(NextFrame) \in Nat /\ offset = EndOf(parsed) /\ arrived \in Nat
      BY <1>0, <2>1, <2>2, NextShape, Shapes DEF InPlace, TypeOK
    <3> QED BY <1>2, <2>2, <3>1, <3>2 DEF Avail
  <2> QED BY <1>0, <1>1, <2>1, <2>2 DEF HeldInv, InPlace, EndOf
<1>10. CASE Over
  BY <1>3, <1>10 DEF Over
<1> QED BY <1>3, <1>4, <1>5, <1>6, <1>7, <1>8, <1>9, <1>10 DEF Next, feed

(* Between two calls the frames that have arrived whole are the ones        *)
(* consumed.                                                                *)
LEMMA WholeIsParsed ==
  ASSUME HeldInv, pc = "idle"
  PROVE  Whole = 1..parsed /\ Cardinality(Whole) = parsed
<1>1. InPlace /\ TypeOK /\ parsed \in Nat /\ Len(stream) \in Nat /\ parsed <= Len(stream)
  BY DEF HeldInv, CutInv, IInv, TInv, TypeOK
<1>2. ASSUME NEW n \in 1..Len(stream)
      PROVE  EndOf(n) <= arrived <=> n <= parsed
  <2>1. EndOf(n) \in Nat /\ arrived \in Nat /\ offset \in Nat /\ offset <= arrived
    BY <1>1, LaterEnds DEF TypeOK
  <2>2. CASE n <= parsed
    <3>1. state_ = "Open" /\ offset = EndOf(parsed)
      BY <1>1, <2>2 DEF InPlace, TypeOK
    <3>2. EndOf(n) <= EndOf(parsed)
      BY <1>1, <2>2, LaterEnds
    <3> QED BY <2>1, <2>2, <3>1, <3>2
  <2>3. CASE ~ (n <= parsed)
    <3>1. parsed + 1 \in 0..Len(stream) /\ parsed + 1 <= n /\ n \in 0..Len(stream)
      BY <1>1, <2>3
    <3>2. EndOf(parsed + 1) <= EndOf(n) /\ EndOf(parsed + 1) \in Nat /\ arrived < EndOf(parsed + 1)
      BY <1>1, <3>1, LaterEnds DEF InPlace
    <3> QED BY <2>1, <2>3, <3>2
  <2> QED BY <2>2, <2>3
<1>3. Whole = 1..parsed
  BY <1>1, <1>2 DEF Whole
<1>4. Cardinality(1..parsed) = parsed
  BY <1>1, FS_Interval
<1> QED BY <1>3, <1>4

(* Whatever a read brings whole is handed up, or refused, by the call of    *)
(* feed that reads it: no message waits in the buffer for the peer to send  *)
(* more, not even one that came with the upgrade request                    *)
(* (WebSocketCodec.cpp:319-330).                                            *)
THEOREM HandedUpCorrect == Spec => []NothingHeldBack
<1>1. HeldInv => NothingHeldBack
  <2> SUFFICES ASSUME HeldInv, pc = "idle"
               PROVE  /\ \A n \in Whole : Legal(n)
                      /\ delivered = Meaning(Cardinality(Whole))
    BY DEF NothingHeldBack
  <2>1. \A n \in Whole : Legal(n)
    BY WholeIsParsed DEF HeldInv, CutInv, IInv, OnlyIllegalThrows
  <2>2. delivered \o outFrames = Meaning(parsed) /\ outFrames = <<>> /\ delivered \in Seq(Message)
    BY DEF HeldInv, CutInv, IInv, TInv, Mode, TypeOK, CutsDoNotMatter
  <2>3. delivered = Meaning(parsed)
    BY <2>2
  <2> QED BY <2>1, <2>3, WholeIsParsed
<1> QED BY <1>1, InitHeldInv, NextHeldInv, PTL DEF Spec
=============================================================================
