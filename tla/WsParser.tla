------------------------------ MODULE WsParser ------------------------------
(***************************************************************************)
(* WebSocketStreamParser: from the bytes of one connection, cut anywhere,  *)
(* to the upgrade request and whole messages                               *)
(* (src/src/ws/WebSocketCodec.cpp).                                        *)
(*                                                                         *)
(* What the peer sends is an upgrade request of HeadLen bytes (none before *)
(* a parser put into open mode) and then frames.  A frame is its header's  *)
(* fields and its length; its bytes count but have no values, so a payload *)
(* is named by the place of its frame in the stream.  A call of feed is a  *)
(* Read, one step for each turn of its loop, and a return or a throw: one  *)
(* thread, nothing interleaves but the cuts between the reads.             *)
(***************************************************************************)
EXTENDS Integers, Sequences, FiniteSetsExt

CONSTANTS
  FrameShape,   \* the frames the peer may send
  MaxFrames,    \* bound: frames in a stream
  MaxPayload,   \* maxPayloadLimit()
  HeadLen       \* bytes of the upgrade request, its blank line included

ASSUME WsParserAssumption ==
  /\ FrameShape \subseteq [opcode : 0..15, fin : BOOLEAN, rsv : BOOLEAN, masked : BOOLEAN,
                           ext : {0, 2, 8}, len : Nat]
  /\ MaxFrames \in Nat /\ MaxPayload \in Nat /\ HeadLen \in Nat \ {0}

VARIABLES
  require_mask_,      \* a server's parser; a client's is put into open mode
  valid,              \* the request has the headers that are asked for
  stream,             \* the frames the peer sends
  arrived,            \* bytes fed so far: buffer_ ends there
  offset,             \* bytes consumed: buffer_ begins, or parse_offset_ points, there
  parsed,             \* frames consumed
  state_,             \* "AwaitingHttpUpgrade" or "Open"
  in_fragment_,
  fragment_opcode_,
  fragment_payload_,  \* the frames whose payloads it is made of
  outFrames,          \* what the current call of feed has found
  delivered,          \* what earlier calls returned
  pc                  \* "idle", "upgrade", "frames" (inside feed), "failed" (it threw)

parserVars == <<state_, in_fragment_, fragment_opcode_, fragment_payload_>>
input == <<require_mask_, valid, stream>>
vars == <<input, arrived, offset, parsed, parserVars, outFrames, delivered, pc>>

-----------------------------------------------------------------------------
Control(f) == f.opcode >= 8
MaskLen(f) == IF f.masked THEN 4 ELSE 0
Size(f) == 2 + f.ext + MaskLen(f) + f.len
RequestLen == IF require_mask_ THEN HeadLen ELSE 0

(* Where in the bytes of the connection the frames of s end, the first one  *)
(* beginning at byte start.                                                 *)
FrameEnds(s, start) ==
  LET ends[n \in 0..Len(s)] == IF n = 0 THEN start ELSE ends[n - 1] + Size(s[n])
  IN ends

EndOf(n) == FrameEnds(stream, RequestLen)[n]
StreamLen == EndOf(Len(stream))

Position == 1..MaxFrames
Message == [opcode : 0..15, payload : Seq(Position)]

TypeOK ==
  /\ require_mask_ \in BOOLEAN /\ valid \in BOOLEAN
  /\ stream \in Seq(FrameShape) /\ Len(stream) <= MaxFrames
  /\ arrived \in Nat /\ offset \in Nat /\ offset <= arrived
  /\ parsed \in 0..Len(stream)
  /\ state_ \in {"AwaitingHttpUpgrade", "Open"}
  /\ in_fragment_ \in BOOLEAN
  /\ fragment_opcode_ \in {0, 1, 2}
  /\ fragment_payload_ \in Seq(Position)
  /\ outFrames \in Seq(Message) /\ delivered \in Seq(Message)
  /\ pc \in {"idle", "upgrade", "frames", "failed"}

Init ==
  /\ require_mask_ \in BOOLEAN /\ valid \in BOOLEAN
  /\ stream \in UNION {[1..n -> FrameShape] : n \in 0..MaxFrames}
  /\ state_ = IF require_mask_ THEN "AwaitingHttpUpgrade" ELSE "Open"
  /\ arrived = 0 /\ offset = 0 /\ parsed = 0
  /\ in_fragment_ = FALSE /\ fragment_opcode_ = 0 /\ fragment_payload_ = <<>>
  /\ outFrames = <<>> /\ delivered = <<>> /\ pc = "idle"

-----------------------------------------------------------------------------
(* feed: the new bytes go to the end of buffer_. *)
Read(n) ==
  /\ pc = "idle" /\ arrived + n <= StreamLen
  /\ arrived' = arrived + n /\ outFrames' = <<>>
  /\ pc' = IF state_ = "AwaitingHttpUpgrade" THEN "upgrade" ELSE "frames"
  /\ UNCHANGED <<input, offset, parsed, parserVars, delivered>>

(* tryConsumeUpgrade: no blank line yet; a bad request; the 101 response.   *)
UpgradeIncomplete ==
  /\ pc = "upgrade" /\ arrived < HeadLen
  /\ pc' = "idle"
  /\ UNCHANGED <<input, arrived, offset, parsed, parserVars, outFrames, delivered>>

UpgradeRefused ==
  /\ pc = "upgrade" /\ arrived >= HeadLen /\ ~ valid
  /\ pc' = "failed"
  /\ UNCHANGED <<input, arrived, offset, parsed, parserVars, outFrames, delivered>>

(* Variant that returns with the response, whatever came with the request. *)
tryConsumeUpgradeAlone ==
  /\ pc = "upgrade" /\ arrived >= HeadLen /\ valid
  /\ state_' = "Open" /\ offset' = HeadLen /\ pc' = "idle"
  /\ UNCHANGED <<input, arrived, parsed, in_fragment_, fragment_opcode_, fragment_payload_,
                 outFrames, delivered>>

tryConsumeUpgrade ==
  /\ pc = "upgrade" /\ arrived >= HeadLen /\ valid
  /\ state_' = "Open" /\ offset' = HeadLen /\ pc' = "frames"
  /\ UNCHANGED <<input, arrived, parsed, in_fragment_, fragment_opcode_, fragment_payload_,
                 outFrames, delivered>>

-----------------------------------------------------------------------------
(* The loop.  What throws, in the order of the bytes that are needed for    *)
(* it: two, then the extended length, then the whole frame.                 *)
Malformed(f) == f.rsv \/ (Control(f) /\ (~ f.fin \/ f.ext # 0))

(* Variant that lets a new message begin inside a fragmented one. *)
OutOfPlaceUnnested(f) ==
  \/ f.opcode = 0 /\ ~ in_fragment_
  \/ f.opcode = 8 /\ f.len = 1
  \/ f.opcode \notin {0, 1, 2, 8, 9, 10}

OutOfPlace(f) ==
  \/ f.opcode = 0 /\ ~ in_fragment_
  \/ f.opcode \in {1, 2} /\ in_fragment_
  \/ f.opcode = 8 /\ f.len = 1
  \/ f.opcode \notin {0, 1, 2, 8, 9, 10}

Rejected(f, avail) ==
  \/ avail >= 2 /\ Malformed(f)
  \/ avail >= 2 + f.ext /\ f.len > MaxPayload
  \/ avail >= 2 + f.ext /\ require_mask_ /\ ~ f.masked
  \/ avail >= Size(f) /\ OutOfPlace(f)

(* What the loop breaks off for: two bytes, then the extended length, then  *)
(* the mask's key, then the payload.                                        *)
Waits(f, avail) ==
  \/ avail < 2
  \/ avail < 2 + f.ext
  \/ avail < 2 + f.ext + MaskLen(f)
  \/ avail < 2 + f.ext + MaskLen(f) + f.len

InLoop == pc = "frames" /\ parsed < Len(stream)
NextFrame == stream[parsed + 1]
Avail == arrived - offset
Taken == InLoop /\ ~ Waits(NextFrame, Avail) /\ ~ Rejected(NextFrame, Avail)

Consumed ==
  /\ offset' = offset + Size(NextFrame) /\ parsed' = parsed + 1
  /\ UNCHANGED <<input, arrived, state_, delivered, pc>>

Emit(opcode, payload) == outFrames' = Append(outFrames, [opcode |-> opcode, payload |-> payload])

EndFragment ==
  in_fragment_' = FALSE /\ fragment_opcode_' = 0 /\ fragment_payload_' = <<>>

(* Variant of Continuation that hands the message up under the opcode of its last frame. *)
ContinuationOwnOpcode ==
  /\ Taken /\ NextFrame.opcode = 0 /\ Consumed
  /\ LET payload == Append(fragment_payload_, parsed + 1)
     IN IF NextFrame.fin
        THEN Emit(NextFrame.opcode, payload) /\ EndFragment
        ELSE /\ fragment_payload_' = payload
             /\ UNCHANGED <<in_fragment_, fragment_opcode_, outFrames>>

Continuation ==
  /\ Taken /\ NextFrame.opcode = 0 /\ Consumed
  /\ LET payload == Append(fragment_payload_, parsed + 1)
     IN IF NextFrame.fin
        THEN Emit(fragment_opcode_, payload) /\ EndFragment
        ELSE /\ fragment_payload_' = payload
             /\ UNCHANGED <<in_fragment_, fragment_opcode_, outFrames>>

WholeData ==
  /\ Taken /\ NextFrame.opcode \in {1, 2} /\ NextFrame.fin /\ Consumed
  /\ Emit(NextFrame.opcode, <<parsed + 1>>)
  /\ UNCHANGED <<in_fragment_, fragment_opcode_, fragment_payload_>>

(* Variant of FirstFragment that remembers the opcode with the FIN bit the  *)
(* joined message will have, 0x80 | opcode.                                 *)
FirstFragmentRaw ==
  /\ Taken /\ NextFrame.opcode \in {1, 2} /\ ~ NextFrame.fin /\ Consumed
  /\ in_fragment_' = TRUE /\ fragment_opcode_' = NextFrame.opcode + 128
  /\ fragment_payload_' = <<parsed + 1>>
  /\ UNCHANGED outFrames

FirstFragment ==
  /\ Taken /\ NextFrame.opcode \in {1, 2} /\ ~ NextFrame.fin /\ Consumed
  /\ in_fragment_' = TRUE /\ fragment_opcode_' = NextFrame.opcode
  /\ fragment_payload_' = <<parsed + 1>>
  /\ UNCHANGED outFrames

ControlFrame ==
  /\ Taken /\ Control(NextFrame) /\ Consumed
  /\ Emit(NextFrame.opcode, <<parsed + 1>>)
  /\ UNCHANGED <<in_fragment_, fragment_opcode_, fragment_payload_>>

(* The exception; the caller closes the connection and never sees outFrames. *)
Throw ==
  /\ InLoop /\ Rejected(NextFrame, Avail)
  /\ pc' = "failed"
  /\ UNCHANGED <<input, arrived, offset, parsed, parserVars, outFrames, delivered>>

(* Not enough bytes for the next frame: the consumed ones are erased.       *)
Return ==
  /\ pc = "frames"
  /\ parsed < Len(stream) => Waits(NextFrame, Avail) /\ ~ Rejected(NextFrame, Avail)
  /\ delivered' = delivered \o outFrames /\ outFrames' = <<>> /\ pc' = "idle"
  /\ UNCHANGED <<input, arrived, offset, parsed, parserVars>>

feed ==
  \/ UpgradeIncomplete \/ UpgradeRefused \/ tryConsumeUpgrade
  \/ Continuation \/ WholeData \/ FirstFragment \/ ControlFrame \/ Throw \/ Return

(* The peer has sent everything, or the connection is closed.               *)
Over == (pc = "failed" \/ (pc = "idle" /\ arrived = StreamLen)) /\ UNCHANGED vars

Next == (\E n \in 1..(StreamLen - arrived) : Read(n)) \/ feed \/ Over

Spec == Init /\ [][Next]_vars

-----------------------------------------------------------------------------
(* The reference: what the stream means, frame by frame, without a parser.  *)
Data(k) == stream[k].opcode \in {0, 1, 2}

(* A fragmented message is unfinished after frame k.                        *)
OpenAfter(k) == \E j \in 1..k : /\ Data(j) /\ ~ stream[j].fin
                                /\ \A i \in (j + 1)..k : Data(i) => ~ stream[i].fin

Legal(k) ==
  LET f == stream[k]
  IN /\ ~ Malformed(f) /\ f.len <= MaxPayload
     /\ require_mask_ => f.masked
     /\ f.opcode \in {0, 1, 2, 8, 9, 10}
     /\ f.opcode = 8 => f.len # 1
     /\ Data(k) => (f.opcode = 0 <=> OpenAfter(k - 1))

(* The members of a finite set of numbers in ascending order: at place i,    *)
(* the largest that has at most i members up to it.                         *)
InOrder(S) ==
  [i \in 1..Cardinality(S) |-> Max({k \in S : Cardinality({j \in S : j <= k}) <= i})]

(* The message that frame k completes: itself, or the data frames since the *)
(* last one that is not a continuation.                                     *)
FirstOf(k) == CHOOSE j \in 1..k : /\ stream[j].opcode \in {1, 2}
                                  /\ \A i \in (j + 1)..k : stream[i].opcode \notin {1, 2}
MessageOf(k) ==
  IF Control(stream[k]) THEN [opcode |-> stream[k].opcode, payload |-> <<k>>]
  ELSE [opcode |-> stream[FirstOf(k)].opcode,
        payload |-> InOrder({j \in FirstOf(k)..k : Data(j)})]

Meaning(n) ==
  LET ends == {k \in 1..n : stream[k].fin}
  IN [i \in 1..Cardinality(ends) |-> MessageOf(InOrder(ends)[i])]

(* However the stream is cut into reads, what has been handed up is exactly *)
(* what the frames consumed mean: fragments joined under the opcode of the  *)
(* first, control frames between them untouched, nothing of an earlier      *)
(* message left over (WebSocketCodec.h:48).                                 *)
CutsDoNotMatter == delivered \o outFrames = Meaning(parsed)

(* Every frame consumed is legal where it stands, and the parser throws only *)
(* at a request or a frame that is not.                                     *)
OnlyIllegalThrows ==
  /\ \A k \in 1..parsed : Legal(k)
  /\ pc = "failed" => IF state_ = "Open" THEN ~ Legal(parsed + 1) ELSE ~ valid

(* Every message is handed up, and every illegal frame refused, by the read *)
(* that brings its last byte, be it the one that ends the upgrade request:  *)
(* between two calls of feed the application has had what the frames that   *)
(* have arrived whole mean (WebSocketCodec.cpp:319-330).                    *)
Whole == {n \in 1..Len(stream) : EndOf(n) <= arrived}
NothingHeldBack ==
  pc = "idle" => /\ \A n \in Whole : Legal(n)
                 /\ delivered = Meaning(Cardinality(Whole))
=============================================================================
