-------------------------- MODULE HttpStaticProofs --------------------------
(* What HttpStatic guarantees for every limit, buffer size and request      *)
(* length, proved with TLAPS.                                               *)
EXTENDS HttpStatic, SequenceTheorems, TLAPS

(***************************************************************************)
(* The inductive invariant.                                                *)
(***************************************************************************)
(* The client's bytes from position a + 1 to b.                             *)
Stream(a, b) == [i \in 1..(b - a) |-> a + i]

(* What each phase knows of the request: in "headers" all that was received *)
(* is in read_buf and not yet a whole header block, in "body" all that was  *)
(* received of the body is in post_body_accum and too short.                *)
Headers ==
  phase = "headers" =>
    /\ status = "none"
    /\ recvd < req.head /\ recvd <= HeadLimit /\ read_buf = Stream(0, recvd)

Body ==
  phase = "body" =>
    /\ status = "none"
    /\ req.line = "post log" /\ logEnabled /\ req.cl # 0 /\ req.head <= HeadLimit
    /\ recvd >= req.head /\ recvd < req.head + req.cl
    /\ post_content_length = req.cl /\ post_body_accum = Stream(req.head, recvd)

(* Where the phases leave the loop, the registration and the counters.      *)
Places ==
  /\ phase = "writing" => status # "none"
  /\ phase = "closed" => pc = "wait" /\ ~ ready /\ interest = {}
  /\ pc = "read" => phase \in {"headers", "body"}
  /\ pc = "write" => phase = "writing"
  /\ got + inFlight <= write_off
  /\ status = "none" => log = <<>> /\ lostLines = 0

IInv ==
  TypeOK /\ Headers /\ Body /\ Places /\ LoggedOnce /\ StatusFitsRequest /\ CutShortOnlyByPeer

(***************************************************************************)
(* Pieces of the stream.                                                   *)
(***************************************************************************)
LEMMA StreamSeq ==
  ASSUME NEW a \in Nat, NEW b \in Nat, a <= b, NEW c \in Nat, b <= c
  PROVE  Stream(a, b) \in Seq(1..c) /\ Len(Stream(a, b)) = b - a
<1>1. Stream(a, b) \in [1..(b - a) -> 1..c]
  BY DEF Stream
<1> QED BY <1>1, SeqDef

LEMMA StreamJoin ==
  ASSUME NEW a \in Nat, NEW b \in Nat, NEW c \in Nat, a <= b, b <= c
  PROVE  Stream(a, b) \o Stream(b, c) = Stream(a, c)
<1>1. /\ Stream(a, b) \in Seq(1..c) /\ Len(Stream(a, b)) = b - a
      /\ Stream(b, c) \in Seq(1..c) /\ Len(Stream(b, c)) = c - b
      /\ Stream(a, c) \in Seq(1..c) /\ Len(Stream(a, c)) = c - a
  <2>1. a <= c /\ c <= c
    OBVIOUS
  <2> QED BY <2>1, StreamSeq
<1>2. /\ Stream(a, b) \o Stream(b, c) \in Seq(1..c)
      /\ Len(Stream(a, b) \o Stream(b, c)) = c - a
      /\ \A i \in 1..(c - a) : (Stream(a, b) \o Stream(b, c))[i]
           = IF i <= b - a THEN Stream(a, b)[i] ELSE Stream(b, c)[i - (b - a)]
  <2> DEFINE s == Stream(a, b)
             t == Stream(b, c)
  <2> HIDE DEF s, t
  <2>1. s \in Seq(1..c) /\ t \in Seq(1..c) /\ Len(s) = b - a /\ Len(t) = c - b
    BY <1>1 DEF s, t
  <2>2. /\ s \o t \in Seq(1..c) /\ Len(s \o t) = Len(s) + Len(t)
        /\ \A i \in 1..(Len(s) + Len(t)) : (s \o t)[i] = IF i <= Len(s) THEN s[i] ELSE t[i - Len(s)]
    BY <2>1, ConcatProperties
  <2>3. Len(s) + Len(t) = c - a
    BY <2>1
  <2> QED BY <2>1, <2>2, <2>3 DEF s, t
<1>3. \A i \in 1..(c - a) : (Stream(a, b) \o Stream(b, c))[i] = Stream(a, c)[i]
  BY <1>2 DEF Stream
<1> QED BY <1>1, <1>2, <1>3, SeqEqual

LEMMA StreamPart ==
  ASSUME NEW a \in Nat, NEW b \in Nat, NEW c \in Nat, a <= b, b <= c
  PROVE  /\ SubSeq(Stream(a, c), b - a + 1, c - a) = Stream(b, c)
         /\ SubSeq(Stream(a, c), 1, b - a) = Stream(a, b)
BY DEF Stream

LEMMA BodyPart ==
  ASSUME NEW h \in Nat, NEW r \in Nat, h <= r
  PROVE  /\ SubSeq(Stream(0, r), h + 1, r) = Stream(h, r)
         /\ Len(Stream(h, r)) = r - h /\ Len(Stream(0, r)) = r
         /\ \A n \in 0..(r - h) : SubSeq(Stream(h, r), 1, n) = Stream(h, h + n)
<1>1. 0 <= h /\ h - 0 + 1 = h + 1 /\ r - 0 = r /\ r <= r /\ 0 <= r
  OBVIOUS
<1>2. SubSeq(Stream(0, r), h - 0 + 1, r - 0) = Stream(h, r)
  BY <1>1, StreamPart
<1>3. Len(Stream(h, r)) = r - h /\ Len(Stream(0, r)) = r - 0
  BY <1>1, StreamSeq
<1>4. ASSUME NEW n \in 0..(r - h) PROVE SubSeq(Stream(h, r), 1, n) = Stream(h, h + n)
  <2>1. h + n \in Nat /\ h <= h + n /\ h + n <= r /\ (h + n) - h = n
    OBVIOUS
  <2>2. SubSeq(Stream(h, r), 1, (h + n) - h) = Stream(h, h + n)
    BY <2>1, StreamPart
  <2> QED BY <2>1, <2>2
<1> QED BY <1>1, <1>2, <1>3, <1>4

LEMMA Numbers ==
  ASSUME TypeOK
  PROVE  /\ req.head \in Nat \ {0} /\ req.body \in Nat /\ req.cl \in 0..(BodyLimit + 1)
         /\ Total = req.head + req.body /\ sent \in 0..Total /\ recvd \in 0..sent
         /\ HeadLimit \in Nat \ {0} /\ BodyLimit \in Nat \ {0} /\ RecvLen \in Nat \ {0}
         /\ SndBuf \in Nat \ {0} /\ RespLen \in Nat
<1>1. req \in [line : Line, head : Heads, cl : 0..(BodyLimit + 1), body : Bodies]
  BY DEF TypeOK, Request
<1>2. req.head \in Heads /\ req.body \in Bodies /\ req.cl \in 0..(BodyLimit + 1)
  BY <1>1
<1>3. sent \in 0..Total /\ recvd \in 0..sent
  BY DEF TypeOK
<1>4. PageLen \in Nat /\ RespLen \in {0, 1, PageLen}
  BY HttpAssumption DEF RespLen
<1>5. req.head \in Nat \ {0} /\ req.body \in Nat
  BY <1>2, HttpAssumption
<1>6. /\ HeadLimit \in Nat \ {0} /\ BodyLimit \in Nat \ {0} /\ RecvLen \in Nat \ {0}
      /\ SndBuf \in Nat \ {0}
  BY HttpAssumption
<1>7. RespLen \in Nat
  BY <1>4
<1> QED BY <1>2, <1>3, <1>5, <1>6, <1>7 DEF Total

LEMMA StreamOf ==
  ASSUME NEW r \in Nat, NEW n \in Nat
  PROVE  Stream(r, r + n) = [i \in 1..n |-> r + i] /\ Len(Stream(r, r + n)) = n
<1>1. (r + n) - r = n /\ r + n \in Nat /\ r <= r + n
  OBVIOUS
<1>2. Len(Stream(r, r + n)) = (r + n) - r
  BY <1>1, StreamSeq
<1> QED BY <1>1, <1>2 DEF Stream

LEMMA ChunkIs ==
  ASSUME TypeOK, Unread > 0
  PROVE  /\ Len(Chunk) \in 1..RecvLen /\ recvd + Len(Chunk) \in 1..sent
         /\ Chunk = Stream(recvd, recvd + Len(Chunk))
<1>1. sent \in Nat /\ recvd \in Nat /\ recvd <= sent /\ RecvLen \in Nat \ {0}
  BY Numbers
<1>2. PICK n \in Nat : n = Least(Unread, RecvLen)
  BY <1>1 DEF Unread, Least
<1>3. n \in 1..RecvLen /\ recvd + n \in 1..sent
  BY <1>1, <1>2 DEF Unread, Least
<1>4. Chunk = [i \in 1..n |-> recvd + i]
  BY <1>2 DEF Chunk
<1>5. Chunk = Stream(recvd, recvd + n) /\ Len(Stream(recvd, recvd + n)) = n
  BY <1>1, <1>4, StreamOf
<1>6. Len(Chunk) = n
  BY <1>5
<1> QED BY <1>3, <1>5, <1>6

LEMMA ReadOn ==
  ASSUME TypeOK, Unread > 0, recvd' = recvd + Len(Chunk)
  PROVE  /\ recvd' \in (recvd + 1)..sent /\ recvd' <= recvd + RecvLen
         /\ \A a \in 0..recvd : Stream(a, recvd) \o Chunk = Stream(a, recvd')
<1>1. recvd \in Nat /\ sent \in Nat /\ RecvLen \in Nat
  BY Numbers
<1>2. recvd' \in Nat /\ recvd' \in (recvd + 1)..sent /\ recvd' <= recvd + RecvLen
  BY <1>1, ChunkIs
<1>3. Chunk = Stream(recvd, recvd')
  BY ChunkIs
<1>4. ASSUME NEW a \in 0..recvd PROVE Stream(a, recvd) \o Stream(recvd, recvd') = Stream(a, recvd')
  <2>1. a \in Nat /\ a <= recvd /\ recvd <= recvd'
    BY <1>1, <1>2
  <2> QED BY <1>1, <1>2, <2>1, StreamJoin
<1> QED BY <1>2, <1>3, <1>4

(***************************************************************************)
(* What a recv leads to.                                                   *)
(***************************************************************************)
Fits(s) ==
  /\ s \in {"200", "204", "400", "404", "503"}
  /\ s # Deserved => s = "400" /\ (Total > HeadLimit \/ req.body > BodyLimit)
  /\ req.head > HeadLimit => s = "400"

Refuses ==
  /\ \E s : Respond(s) /\ Fits(s) /\ (req.line = "post log" => s # "204")
  /\ UNCHANGED logVars

Logs ==
  /\ Respond("204") /\ Fits("204") /\ recvd' >= req.head + req.cl
  /\ appendBrowserClientLogFile(Stream(req.head, req.head + req.cl))

LEMMA HeadersOutcome ==
  ASSUME TypeOK, Headers, RecvHeaders
  PROVE  /\ recvd' \in (recvd + 1)..sent /\ recvd' <= HeadLimit + RecvLen
         /\ \/ /\ Refuses \/ Logs
               /\ read_buf' \in {<<>>, Stream(0, recvd')}
               /\ UNCHANGED <<post_body_accum, post_content_length>>
            \/ /\ read_buf' = Stream(0, recvd') /\ recvd' < req.head /\ recvd' <= HeadLimit
               /\ UNCHANGED <<post_body_accum, post_content_length, interest, ready, pc, phase,
                              write_off, status, logVars>>
            \/ /\ req.line = "post log" /\ logEnabled /\ req.cl # 0 /\ req.cl <= BodyLimit
               /\ req.head <= HeadLimit
               /\ recvd' >= req.head /\ recvd' < req.head + req.cl
               /\ AwaitBody(Stream(req.head, recvd'))
<1> DEFINE buf == read_buf \o Chunk
<1>1. phase = "headers" /\ Unread > 0 /\ recvd' = recvd + Len(Chunk)
  BY DEF RecvHeaders
<1>2. read_buf = Stream(0, recvd) /\ recvd < req.head /\ recvd <= HeadLimit
  BY <1>1 DEF Headers
<1>3. /\ recvd' \in (recvd + 1)..sent /\ recvd' <= recvd + RecvLen
      /\ recvd' \in Nat /\ 0 \in 0..recvd
  BY <1>1, ReadOn, Numbers
<1>4. recvd' \in (recvd + 1)..sent /\ recvd' <= HeadLimit + RecvLen /\ recvd' <= Total
  BY <1>2, <1>3, Numbers
<1>5. buf = Stream(0, recvd')
  BY <1>1, <1>2, <1>3, ReadOn
<1>6. Len(buf) = recvd'
  BY <1>3, <1>5, BodyPart
<1>7. /\ TooLong(buf) => Answer("400", buf)
      /\ ~ TooLong(buf) /\ Len(buf) < req.head =>
           /\ read_buf' = buf
           /\ UNCHANGED <<post_body_accum, post_content_length, interest, ready, pc, phase,
                          write_off, status, logVars>>
      /\ ~ TooLong(buf) /\ ~ (Len(buf) < req.head) =>
           /\ req.line = "post log" => PostLog(buf)
           /\ req.line = "options log" => Answer("204", <<>>)
           /\ req.line = "bad" => Answer("400", buf)
           /\ req.line \notin {"post log", "options log", "bad"} =>
                Answer(PageStatus(req.line), buf)
  BY DEF RecvHeaders
<1>8. TooLong(buf) <=> recvd' > HeadLimit
  BY <1>6 DEF TooLong
<1> HIDE DEF buf
<1>9. ASSUME NEW s, NEW b \in {<<>>, buf}, Answer(s, b), Fits(s), req.line = "post log" => s # "204"
      PROVE  /\ Refuses
             /\ read_buf' \in {<<>>, Stream(0, recvd')}
             /\ UNCHANGED <<post_body_accum, post_content_length>>
  BY <1>5, <1>9 DEF Answer, Refuses
<1>10. CASE TooLong(buf)
  <2>1. Total > HeadLimit
    BY <1>3, <1>4, <1>8, <1>10, Numbers
  <2>2. Fits("400")
    BY <2>1 DEF Fits
  <2> QED BY <1>4, <1>7, <1>9, <1>10, <2>2
<1>11. CASE ~ TooLong(buf) /\ Len(buf) < req.head
  <2>1. recvd' < req.head /\ recvd' <= HeadLimit
    BY <1>3, <1>6, <1>8, <1>11, Numbers
  <2> QED BY <1>4, <1>5, <1>7, <1>11, <2>1
<1>12. CASE ~ TooLong(buf) /\ ~ (Len(buf) < req.head)
  <2>1. recvd' >= req.head /\ recvd' <= HeadLimit /\ ~ (req.head > HeadLimit)
    <3>1. req.head \in Nat /\ HeadLimit \in Nat
      BY Numbers
    <3> QED BY <1>3, <1>6, <1>8, <1>12, <3>1
  <2>2. CASE req.line = "options log"
    <3>1. Fits("204")
      BY <2>1, <2>2 DEF Fits, Deserved
    <3> QED BY <1>4, <1>7, <1>9, <1>12, <2>2, <3>1
  <2>3. CASE req.line = "bad"
    <3>1. Fits("400")
      BY <2>1, <2>3 DEF Fits, Deserved
    <3> QED BY <1>4, <1>7, <1>9, <1>12, <2>3, <3>1
  <2>4. CASE req.line \notin {"post log", "options log", "bad"}
    <3>1. Deserved = PageStatus(req.line) /\ PageStatus(req.line) \in {"200", "204", "404"}
      BY <2>4 DEF Deserved, PageStatus
    <3>2. Fits(PageStatus(req.line))
      BY <2>1, <3>1 DEF Fits
    <3> QED BY <1>4, <1>7, <1>9, <1>12, <2>4, <3>2
  <2>5. CASE req.line = "post log"
    <3> DEFINE have == SubSeq(buf, req.head + 1, Len(buf))
    <3>1. req.head \in Nat /\ req.cl \in Nat /\ recvd' \in Nat /\ req.head <= recvd'
      BY <1>3, <2>1, Numbers
    <3>2. have = Stream(req.head, recvd')
      <4>1. SubSeq(Stream(0, recvd'), req.head + 1, recvd') = Stream(req.head, recvd')
        BY <3>1, BodyPart
      <4> QED BY <1>5, <1>6, <4>1
    <3>3. Len(have) = recvd' - req.head
      BY <3>1, <3>2, BodyPart
    <3>4. PostLog(buf)
      BY <1>7, <1>12, <2>5
    <3>5. \/ ~ logEnabled /\ Answer("503", <<>>)
          \/ logEnabled /\ ~ LengthAccepted(req.cl) /\ Answer("400", buf)
          \/ /\ logEnabled /\ LengthAccepted(req.cl) /\ Len(have) >= req.cl
             /\ appendBrowserClientLogFile(SubSeq(have, 1, req.cl))
             /\ Respond("204") /\ read_buf' = <<>>
             /\ UNCHANGED <<post_body_accum, post_content_length>>
          \/ logEnabled /\ LengthAccepted(req.cl) /\ Len(have) < req.cl /\ AwaitBody(have)
      BY <3>4 DEF PostLog
    <3> HIDE DEF have
    <3>6. LengthAccepted(req.cl) <=> req.cl \in 1..BodyLimit
      BY <3>1, Numbers DEF LengthAccepted
    <3>7. CASE ~ logEnabled /\ Answer("503", <<>>)
      <4>1. Fits("503")
        BY <2>1, <2>5, <3>7 DEF Fits, Deserved
      <4> QED BY <1>4, <1>9, <3>7, <4>1
    <3>8. CASE logEnabled /\ ~ LengthAccepted(req.cl) /\ Answer("400", buf)
      <4>1. Fits("400")
        BY <2>1, <2>5, <3>6, <3>8 DEF Fits, Deserved
      <4> QED BY <1>4, <1>9, <3>8, <4>1
    <3>9. CASE /\ logEnabled /\ LengthAccepted(req.cl) /\ Len(have) >= req.cl
               /\ appendBrowserClientLogFile(SubSeq(have, 1, req.cl))
               /\ Respond("204") /\ read_buf' = <<>>
               /\ UNCHANGED <<post_body_accum, post_content_length>>
      <4>1. recvd' >= req.head + req.cl /\ req.cl \in 0..(recvd' - req.head)
        BY <3>1, <3>3, <3>9
      <4>2. SubSeq(have, 1, req.cl) = Stream(req.head, req.head + req.cl)
        BY <3>1, <3>2, <4>1, BodyPart
      <4>3. Fits("204")
        BY <2>1, <2>5, <3>6, <3>9 DEF Fits, Deserved
      <4>4. Logs
        BY <3>9, <4>1, <4>2, <4>3 DEF Logs
      <4> QED BY <1>4, <3>9, <4>4
    <3>10. CASE logEnabled /\ LengthAccepted(req.cl) /\ Len(have) < req.cl /\ AwaitBody(have)
      <4>1. recvd' < req.head + req.cl
        BY <3>1, <3>3, <3>10
      <4>2. req.cl # 0 /\ req.cl <= BodyLimit
        BY <3>10 DEF LengthAccepted
      <4>3. req.head <= HeadLimit
        <5>1. HeadLimit \in Nat
          BY Numbers
        <5> QED BY <2>1, <3>1, <5>1
      <4>4. AwaitBody(Stream(req.head, recvd'))
        BY <3>2, <3>10
      <4> QED BY <1>4, <2>1, <2>5, <3>10, <4>1, <4>2, <4>3, <4>4
    <3> QED BY <3>5, <3>7, <3>8, <3>9, <3>10
  <2> QED BY <2>2, <2>3, <2>4, <2>5
<1> QED BY <1>10, <1>11, <1>12

LEMMA BodyOutcome ==
  ASSUME TypeOK, Body, RecvBody
  PROVE  /\ recvd' \in (recvd + 1)..sent /\ recvd' < req.head + BodyLimit + RecvLen
         /\ recvd' >= req.head
         /\ \/ /\ Refuses /\ post_body_accum' = Stream(req.head, recvd')
               /\ UNCHANGED <<read_buf, post_content_length>>
            \/ /\ Logs /\ read_buf' = <<>> /\ post_body_accum' = <<>>
               /\ UNCHANGED post_content_length
            \/ /\ post_body_accum' = Stream(req.head, recvd') /\ recvd' < req.head + req.cl
               /\ UNCHANGED <<read_buf, post_content_length, interest, ready, pc, phase,
                              write_off, status, logVars>>
<1> DEFINE accum == post_body_accum \o Chunk
<1>1. phase = "body" /\ Unread > 0 /\ recvd' = recvd + Len(Chunk)
  BY DEF RecvBody
<1>2. /\ req.line = "post log" /\ logEnabled /\ req.cl # 0 /\ req.head <= HeadLimit
      /\ recvd >= req.head /\ recvd < req.head + req.cl
      /\ post_content_length = req.cl /\ post_body_accum = Stream(req.head, recvd)
  BY <1>1 DEF Body
<1>3. /\ req.head \in Nat /\ req.cl \in Nat /\ recvd \in Nat /\ req.body \in Nat /\ RecvLen \in Nat
      /\ BodyLimit \in Nat /\ HeadLimit \in Nat /\ sent \in Nat /\ sent <= req.head + req.body
  BY Numbers
<1>4. recvd >= req.head /\ recvd < req.head + req.cl /\ req.cl # 0 /\ req.head <= HeadLimit
  BY <1>2
<1>5. post_content_length = req.cl
  BY <1>2
<1>6. req.cl <= BodyLimit
  <2>1. post_content_length \in 0..BodyLimit
    BY DEF TypeOK
  <2> QED BY <1>3, <1>5, <2>1
<1>7. req.head \in 0..recvd /\ req.cl \in 1..BodyLimit
  BY <1>3, <1>4, <1>6
<1>8. recvd' \in (recvd + 1)..sent /\ recvd' <= recvd + RecvLen /\ recvd' \in Nat
  <2>1. recvd' \in (recvd + 1)..sent /\ recvd' <= recvd + RecvLen
    BY <1>1, ReadOn
  <2> QED BY <1>3, <2>1
<1>9. /\ recvd' \in (recvd + 1)..sent /\ recvd' < req.head + BodyLimit + RecvLen
      /\ recvd' >= req.head
  BY <1>3, <1>8, <1>4, <1>6
<1>10. accum = Stream(req.head, recvd')
  BY <1>1, <1>2, <1>7, ReadOn
<1>11. Len(accum) = recvd' - req.head
  BY <1>3, <1>8, <1>9, <1>10, BodyPart
<1>12. \/ /\ Len(accum) > BodyLimit
         /\ Respond("400") /\ post_body_accum' = accum
         /\ UNCHANGED <<read_buf, logVars, post_content_length>>
      \/ /\ Len(accum) \in post_content_length..BodyLimit
         /\ appendBrowserClientLogFile(SubSeq(accum, 1, post_content_length))
         /\ Respond("204") /\ post_body_accum' = <<>> /\ read_buf' = <<>>
         /\ UNCHANGED post_content_length
      \/ /\ Len(accum) < post_content_length
         /\ post_body_accum' = accum
         /\ UNCHANGED <<read_buf, post_content_length, interest, ready, pc, phase, write_off,
                        status, logVars>>
  BY DEF RecvBody
<1> HIDE DEF accum
<1>13. CASE /\ Len(accum) > BodyLimit
           /\ Respond("400") /\ post_body_accum' = accum
           /\ UNCHANGED <<read_buf, logVars, post_content_length>>
  <2>1. req.body > BodyLimit /\ ~ (req.head > HeadLimit)
    BY <1>3, <1>8, <1>11, <1>13, <1>4
  <2>2. Fits("400")
    BY <2>1 DEF Fits
  <2>3. Refuses
    <3>1. UNCHANGED logVars
      BY <1>13 DEF logVars
    <3>2. Respond("400") /\ "400" # "204"
      BY <1>13
    <3> QED BY <2>2, <3>1, <3>2 DEF Refuses
  <2> QED BY <1>9, <1>10, <1>13, <2>3
<1>14. CASE /\ Len(accum) \in post_content_length..BodyLimit
            /\ appendBrowserClientLogFile(SubSeq(accum, 1, post_content_length))
            /\ Respond("204") /\ post_body_accum' = <<>> /\ read_buf' = <<>>
            /\ UNCHANGED post_content_length
  <2>1. /\ recvd' >= req.head + req.cl /\ req.cl \in 0..(recvd' - req.head)
        /\ req.head \in Nat /\ req.head <= recvd'
    <3>1. Len(accum) >= req.cl
      BY <1>3, <1>8, <1>11, <1>14, <1>5
    <3> QED BY <1>3, <1>8, <1>9, <1>11, <3>1
  <2>2. SubSeq(accum, 1, post_content_length) = Stream(req.head, req.head + req.cl)
    BY <1>2, <1>8, <1>10, <2>1, BodyPart
  <2>3. Fits("204")
    <3>1. Deserved = "204"
      BY <1>2, <1>7 DEF Deserved
    <3>2. ~ (req.head > HeadLimit)
      BY <1>3, <1>4
    <3> QED BY <3>1, <3>2 DEF Fits
  <2>4. Logs
    BY <1>14, <2>1, <2>2, <2>3 DEF Logs
  <2> QED BY <1>9, <1>14, <2>4
<1>15. CASE /\ Len(accum) < post_content_length
            /\ post_body_accum' = accum
            /\ UNCHANGED <<read_buf, post_content_length, interest, ready, pc, phase, write_off,
                           status, logVars>>
  <2>1. recvd' < req.head + req.cl
    <3>1. Len(accum) < req.cl
      BY <1>2, <1>15
    <3> QED BY <1>3, <1>8, <1>11, <3>1
  <2> QED BY <1>9, <1>10, <1>15, <2>1
<1> QED BY <1>12, <1>13, <1>14, <1>15

(***************************************************************************)
(* Steps.                                                                  *)
(***************************************************************************)
(* Only the two receiving actions decide anything about the request.        *)
LEMMA Frame ==
  ASSUME Next
  PROVE  /\ UNCHANGED <<req, logEnabled>> /\ Total' = Total /\ Deserved' = Deserved
         /\ RecvHeaders \/ RecvBody \/ /\ UNCHANGED <<recvd, parseVars, status, logVars>>
                                       /\ phase' \in {phase, "closed"}
<1> USE DEF clientVars, parseVars, logVars
<1>1. CASE RecvHeaders \/ RecvBody
  <2>1. UNCHANGED <<req, logEnabled>>
    BY <1>1 DEF RecvHeaders, RecvBody
  <2> QED BY <1>1, <2>1 DEF Total, Deserved, PageStatus
<1>2. CASE ClientSends \/ ClientShutsDown \/ ClientResets \/ ClientReads \/ ResponseLost
  <2>1. UNCHANGED <<req, logEnabled>>
    BY <1>2 DEF ClientSends, ClientShutsDown, ClientResets, ClientReads, ResponseLost
  <2>2. ServerUnchanged
    BY <1>2 DEF ClientSends, ClientShutsDown, ClientResets, ClientReads, ResponseLost
  <2> QED BY <2>1, <2>2 DEF Total, Deserved, PageStatus, ServerUnchanged
<1>3. CASE Turn \/ RecvWouldBlock \/ RecvEnds \/ Send \/ SendWouldBlock \/ SendEnds
  <2>1. UNCHANGED <<req, logEnabled, recvd, parseVars, status, logVars>>
    BY <1>3 DEF Turn, RecvWouldBlock, RecvEnds, Send, SendWouldBlock, SendEnds
  <2>2. phase' \in {phase, "closed"}
    BY <1>3 DEF Turn, RecvWouldBlock, RecvEnds, Send, SendWouldBlock, SendEnds, closeHttpConnection
  <2> QED BY <2>1, <2>2 DEF Total, Deserved, PageStatus
<1> QED BY <1>1, <1>2, <1>3 DEF Next, Server

LEMMA Answering ==
  ASSUME Refuses \/ Logs
  PROVE  /\ \E s : Respond(s) /\ Fits(s)
         /\ status' \in {"200", "204", "400", "404", "503"} /\ write_off' = 0
         /\ phase' = "writing" /\ pc' = "wait" /\ interest' = {"out"}
<1>1. PICK s : Respond(s) /\ Fits(s)
  BY DEF Refuses, Logs
<1> QED BY <1>1 DEF Respond, Fits, setPlainSocketInterest

LEMMA HeadersStep == ASSUME TypeOK, Headers, Body, [Next]_vars PROVE Headers' /\ Body'
<1>1. CASE UNCHANGED vars
  BY <1>1 DEF Headers, Body, vars, clientVars, parseVars, logVars
<1>2. CASE Next /\ UNCHANGED <<recvd, parseVars, status, logVars>> /\ phase' \in {phase, "closed"}
  BY <1>2, Frame DEF Headers, Body, parseVars
<1>3. CASE RecvHeaders
  <2>1. CASE Refuses \/ Logs
    BY <2>1, Answering DEF Headers, Body
  <2>2. CASE /\ read_buf' = Stream(0, recvd') /\ recvd' < req.head /\ recvd' <= HeadLimit
             /\ UNCHANGED <<phase, status>>
    <3>1. UNCHANGED req
      BY <1>3 DEF RecvHeaders, clientVars
    <3> QED BY <1>3, <2>2, <3>1 DEF Headers, Body, RecvHeaders
  <2>3. CASE /\ req.line = "post log" /\ logEnabled /\ req.cl # 0 /\ req.head <= HeadLimit
             /\ recvd' >= req.head /\ recvd' < req.head + req.cl
             /\ AwaitBody(Stream(req.head, recvd'))
    <3>1. UNCHANGED <<req, logEnabled>>
      BY <1>3 DEF RecvHeaders, clientVars
    <3>2. status = "none"
      BY <1>3 DEF RecvHeaders, Headers
    <3> QED BY <2>3, <3>1, <3>2 DEF Headers, Body, AwaitBody
  <2> QED BY <1>3, <2>1, <2>2, <2>3, HeadersOutcome
<1>4. CASE RecvBody
  <2>1. CASE Refuses \/ Logs
    BY <2>1, Answering DEF Headers, Body
  <2>2. CASE /\ post_body_accum' = Stream(req.head, recvd') /\ recvd' < req.head + req.cl
             /\ UNCHANGED <<post_content_length, phase, status>>
    <3>1. UNCHANGED <<req, logEnabled>>
      BY <1>4 DEF RecvBody, clientVars
    <3>2. phase = "body" /\ recvd' >= req.head
      BY <1>4, BodyOutcome DEF RecvBody
    <3> QED BY <2>2, <3>1, <3>2 DEF Headers, Body
  <2> QED BY <1>4, <2>1, <2>2, BodyOutcome
<1> QED BY <1>1, <1>2, <1>3, <1>4, Frame

LEMMA StatusStep ==
  ASSUME TypeOK, Headers, Body, StatusFitsRequest, [Next]_vars PROVE StatusFitsRequest'
<1>1. CASE UNCHANGED vars
  BY <1>1 DEF StatusFitsRequest, vars, clientVars, Deserved, Total, PageStatus
<1>2. CASE Next /\ UNCHANGED status
  BY <1>2, Frame DEF StatusFitsRequest
<1>3. CASE Next /\ (Refuses \/ Logs)
  <2>1. PICK s : Respond(s) /\ Fits(s)
    BY <1>3, Answering
  <2>2. status' = s /\ UNCHANGED req
    BY <1>3, <2>1, Frame DEF Respond
  <2> QED BY <1>3, <2>1, <2>2, Frame DEF StatusFitsRequest, Fits
<1>4. Next => UNCHANGED status \/ Refuses \/ Logs
  BY Frame, HeadersOutcome, BodyOutcome DEF AwaitBody
<1> QED BY <1>1, <1>2, <1>3, <1>4

LEMMA ShortSeqs ==
  ASSUME NEW x
  PROVE  /\ Len(<<>>) = 0 /\ DOMAIN <<>> = {}
         /\ Len(<<x>>) = 1 /\ DOMAIN <<x>> = {1} /\ <<x>>[1] = x
OBVIOUS

LEMMA LoggedStep ==
  ASSUME TypeOK, Headers, Body, Places, LoggedOnce, [Next]_vars PROVE LoggedOnce'
<1>1. CASE UNCHANGED vars
  BY <1>1 DEF LoggedOnce, vars, clientVars, logVars
<1>2. CASE Next /\ UNCHANGED <<status, logVars>>
  BY <1>2, Frame DEF LoggedOnce, logVars
<1>3. CASE (RecvHeaders \/ RecvBody) /\ (Refuses \/ Logs)
  <2>1. log = <<>> /\ lostLines = 0
    BY <1>3 DEF Headers, Body, Places, RecvHeaders, RecvBody
  <2>2. UNCHANGED req
    BY <1>3, Frame DEF Next, Server
  <2>3. CASE Refuses
    <3>1. UNCHANGED <<log, lostLines>> /\ (req.line = "post log" => status' # "204")
      BY <2>3 DEF Refuses, Respond, logVars
    <3>2. log' = <<>> /\ lostLines' = 0 /\ (req'.line = "post log" => status' # "204")
      BY <2>1, <2>2, <3>1
    <3>3. log' = <<>> /\ Len(log') = 0 /\ DOMAIN log' = {} /\ lostLines' = 0
      BY <3>2, ShortSeqs
    <3>4. Len(log') + lostLines' <= 1
      BY <3>3
    <3>5. \A i \in DOMAIN log' : log'[i] = [j \in 1..req'.cl |-> req'.head + j]
      BY <3>3
    <3>6. ~ (req'.line = "post log" /\ status' = "204")
      BY <3>2
    <3> QED BY <3>4, <3>5, <3>6 DEF LoggedOnce
  <2>4. CASE Logs
    <3> DEFINE line == Stream(req.head, req.head + req.cl)
    <3>1. \/ log' = <<line>> /\ lostLines' = 0
          \/ log' = <<>> /\ lostLines' = 1
      BY <2>1, <2>4 DEF Logs, appendBrowserClientLogFile
    <3>2. line = [j \in 1..req'.cl |-> req'.head + j]
      <4>1. req.head \in Nat /\ req.cl \in Nat
        BY Numbers
      <4> QED BY <2>2, <4>1, StreamOf
    <3> HIDE DEF line
    <3>3. Len(log') + lostLines' = 1 /\ \A i \in DOMAIN log' : log'[i] = line
      <4>1. CASE log' = <<line>> /\ lostLines' = 0
        <5>1. Len(log') = 1 /\ DOMAIN log' = {1} /\ log'[1] = line
          BY <4>1, ShortSeqs
        <5> QED BY <4>1, <5>1
      <4>2. CASE log' = <<>> /\ lostLines' = 1
        <5>1. Len(log') = 0 /\ DOMAIN log' = {}
          BY <4>2, ShortSeqs
        <5> QED BY <4>2, <5>1
      <4> QED BY <3>1, <4>1, <4>2
    <3>4. Len(log') + lostLines' <= 1
      BY <3>3
    <3>5. \A i \in DOMAIN log' : log'[i] = [j \in 1..req'.cl |-> req'.head + j]
      BY <3>2, <3>3
    <3> QED BY <3>3, <3>4, <3>5 DEF LoggedOnce
  <2> QED BY <1>3, <2>3, <2>4
<1>4. CASE Next /\ (RecvHeaders \/ RecvBody)
  <2>1. Refuses \/ Logs \/ UNCHANGED <<status, logVars>>
    BY <1>4, HeadersOutcome, BodyOutcome DEF AwaitBody
  <2> QED BY <1>2, <1>3, <1>4, <2>1
<1> QED BY <1>1, <1>2, <1>4, Frame

LEMMA PlacesStep ==
  ASSUME TypeOK, Headers, Body, Places, [Next]_vars PROVE Places'
<1> USE DEF clientVars, parseVars, logVars
<1>1. CASE UNCHANGED vars
  BY <1>1 DEF Places, vars
<1>2. /\ got \in Nat /\ inFlight \in Nat /\ write_off \in Nat /\ SndBuf \in Nat /\ RespLen \in Nat
      /\ got + inFlight <= write_off /\ inFlight <= SndBuf
  BY Numbers DEF TypeOK, Places
<1>3. CASE ClientSends
  BY <1>3 DEF Places, ClientSends, ServerUnchanged
<1>4. CASE ClientShutsDown
  BY <1>4 DEF Places, ClientShutsDown, ServerUnchanged
<1>5. CASE ClientResets
  <2>1. got' + inFlight' <= write_off'
    BY <1>2, <1>5 DEF ClientResets, ServerUnchanged
  <2> QED BY <1>5, <2>1 DEF Places, ClientResets, ServerUnchanged
<1>6. CASE ClientReads
  <2>1. got' + inFlight' <= write_off'
    BY <1>2, <1>6 DEF ClientReads, ServerUnchanged
  <2> QED BY <1>6, <2>1 DEF Places, ClientReads, ServerUnchanged
<1>7. CASE ResponseLost
  BY <1>2, <1>7 DEF Places, ResponseLost, ServerUnchanged
<1>8. CASE Turn
  <2>1. phase # "closed"
    BY <1>8 DEF Turn, Places
  <2> QED BY <1>8, <2>1 DEF Places, Turn, closeHttpConnection
<1>9. CASE RecvHeaders
  <2>1. pc = "read" /\ phase = "headers" /\ status = "none" /\ UNCHANGED <<got, inFlight>>
    BY <1>9 DEF RecvHeaders, Headers
  <2>2. write_off = 0 /\ got + inFlight = 0
    BY <1>2, <2>1 DEF TypeOK, RespLen
  <2>3. CASE Refuses \/ Logs
    BY <1>2, <2>1, <2>2, <2>3, Answering DEF Places
  <2>4. CASE UNCHANGED <<interest, ready, pc, phase, write_off, status, logVars>>
    BY <2>1, <2>4 DEF Places
  <2>5. CASE AwaitBody(Stream(req.head, recvd'))
    BY <2>1, <2>5 DEF Places, AwaitBody
  <2> QED BY <1>9, <2>3, <2>4, <2>5, HeadersOutcome
<1>10. CASE RecvBody
  <2>1. pc = "read" /\ phase = "body" /\ status = "none" /\ UNCHANGED <<got, inFlight>>
    BY <1>10 DEF RecvBody, Body
  <2>2. write_off = 0 /\ got + inFlight = 0
    BY <1>2, <2>1 DEF TypeOK, RespLen
  <2>3. CASE Refuses \/ Logs
    BY <1>2, <2>1, <2>2, <2>3, Answering DEF Places
  <2>4. CASE UNCHANGED <<interest, ready, pc, phase, write_off, status, logVars>>
    BY <2>1, <2>4 DEF Places
  <2> QED BY <1>10, <2>3, <2>4, BodyOutcome
<1>11. CASE RecvWouldBlock
  BY <1>11 DEF Places, RecvWouldBlock
<1>12. CASE RecvEnds \/ SendEnds
  BY <1>12 DEF Places, RecvEnds, SendEnds, closeHttpConnection
<1>13. CASE Send
  <2>1. got' + inFlight' <= write_off'
    BY <1>2, <1>13 DEF Send, Least
  <2> QED BY <1>13, <2>1 DEF Places, Send
<1>14. CASE SendWouldBlock
  BY <1>14 DEF Places, SendWouldBlock
<1> QED BY <1>1, <1>3, <1>4, <1>5, <1>6, <1>7, <1>8, <1>9, <1>10, <1>11, <1>12, <1>13, <1>14
        DEF Next, Server

LEMMA CutStep ==
  ASSUME TypeOK, Headers, Body, Places, CutShortOnlyByPeer, [Next]_vars PROVE CutShortOnlyByPeer'
<1> USE DEF clientVars, parseVars, logVars
<1>1. CASE UNCHANGED vars
  BY <1>1 DEF CutShortOnlyByPeer, vars, RespLen
<1>2. CASE ClientSends \/ ClientShutsDown \/ ClientResets \/ ClientReads \/ ResponseLost
  <2>1. ServerUnchanged /\ (gone' = gone \/ gone' # "no")
    BY <1>2 DEF ClientSends, ClientShutsDown, ClientResets, ClientReads, ResponseLost
  <2> QED BY <2>1 DEF CutShortOnlyByPeer, ServerUnchanged, RespLen
<1>3. CASE Turn
  <2>1. phase' = "closed" => gone # "no"
    BY <1>3 DEF Turn, Mask, Places
  <2> QED BY <1>3, <2>1 DEF CutShortOnlyByPeer, Turn
<1>4. CASE RecvHeaders \/ RecvBody
  <2>1. phase' # "closed"
    <3>1. phase # "closed"
      BY <1>4 DEF RecvHeaders, RecvBody
    <3> QED BY <1>4, <3>1, HeadersOutcome, BodyOutcome, Answering DEF AwaitBody
  <2> QED BY <2>1 DEF CutShortOnlyByPeer
<1>5. CASE RecvWouldBlock \/ Send \/ SendWouldBlock
  <2>1. UNCHANGED phase /\ phase # "closed"
    BY <1>5 DEF RecvWouldBlock, Send, SendWouldBlock, Places
  <2> QED BY <2>1 DEF CutShortOnlyByPeer
<1>6. CASE RecvEnds
  BY <1>6 DEF CutShortOnlyByPeer, RecvEnds
<1>7. CASE SendEnds
  <2>1. status # "none"
    BY <1>7 DEF SendEnds, Places
  <2> QED BY <1>7, <2>1, Numbers DEF CutShortOnlyByPeer, SendEnds, RespLen
<1> QED BY <1>1, <1>2, <1>3, <1>4, <1>5, <1>6, <1>7 DEF Next, Server

LEMMA PrefixSeq ==
  ASSUME NEW b \in Nat, NEW c \in Nat, b <= c
  PROVE  Stream(0, b) \in Seq(1..c) /\ Len(Stream(0, b)) = b
<1>1. 0 <= b /\ b - 0 = b
  OBVIOUS
<1> QED BY <1>1, StreamSeq

LEMMA OneSeq == ASSUME NEW S, NEW x \in S PROVE <<x>> \in Seq(S)
OBVIOUS

LEMMA ParseTypes ==
  ASSUME TypeOK, Headers, Body, Places, RecvHeaders \/ RecvBody
  PROVE  /\ recvd' \in 0..sent
         /\ read_buf' \in Seq(1..Total) /\ Len(read_buf') <= HeadLimit + RecvLen
         /\ post_body_accum' \in Seq(1..Total) /\ Len(post_body_accum') < BodyLimit + RecvLen
         /\ post_content_length' \in 0..BodyLimit
         /\ log' \in Seq(Seq(1..Total)) /\ lostLines' \in Nat
<1>1. /\ req.head \in Nat /\ req.cl \in Nat /\ recvd \in Nat /\ Total \in Nat
      /\ HeadLimit \in Nat \ {0} /\ BodyLimit \in Nat \ {0} /\ RecvLen \in Nat \ {0}
      /\ sent \in 0..Total
  BY Numbers
<1>2. recvd' \in (recvd + 1)..sent
  BY HeadersOutcome, BodyOutcome
<1>3. recvd' \in Nat /\ recvd' \in 0..sent /\ recvd' <= Total
  BY <1>1, <1>2
<1>4. Stream(0, recvd') \in Seq(1..Total) /\ Len(Stream(0, recvd')) = recvd'
  BY <1>1, <1>3, PrefixSeq
<1>5. recvd' >= req.head =>
        Stream(req.head, recvd') \in Seq(1..Total) /\ Len(Stream(req.head, recvd')) = recvd' - req.head
  BY <1>1, <1>3, StreamSeq
<1>6. <<>> \in Seq(1..Total) /\ Len(<<>>) = 0
  BY EmptySeq
<1>7. /\ read_buf \in Seq(1..Total) /\ Len(read_buf) <= HeadLimit + RecvLen
      /\ post_body_accum \in Seq(1..Total) /\ Len(post_body_accum) < BodyLimit + RecvLen
      /\ post_content_length \in 0..BodyLimit
  BY DEF TypeOK
<1>8. 0 <= HeadLimit + RecvLen /\ 0 < BodyLimit + RecvLen
  BY <1>1
<1>9. log' \in Seq(Seq(1..Total)) /\ lostLines' \in Nat
  <2>1. log = <<>> /\ lostLines = 0
    BY DEF Headers, Body, Places, RecvHeaders, RecvBody
  <2>2. <<>> \in Seq(Seq(1..Total))
    BY EmptySeq
  <2>3. CASE UNCHANGED logVars
    BY <2>1, <2>2, <2>3 DEF logVars
  <2>4. CASE Logs
    <3> DEFINE line == Stream(req.head, req.head + req.cl)
    <3>1. line \in Seq(1..Total)
      <4>1. req.head <= req.head + req.cl /\ req.head + req.cl <= recvd' /\ req.head + req.cl \in Nat
        BY <1>1, <1>3, <2>4 DEF Logs
      <4>2. req.head + req.cl <= Total
        BY <1>1, <1>3, <4>1
      <4> QED BY <1>1, <4>1, <4>2, StreamSeq
    <3>2. \/ log' = <<line>> /\ lostLines' = 0
          \/ log' = <<>> /\ lostLines' = 1
      BY <2>1, <2>4 DEF Logs, appendBrowserClientLogFile
    <3> HIDE DEF line
    <3>3. <<line>> \in Seq(Seq(1..Total))
      BY <3>1, OneSeq
    <3>4. CASE log' = <<line>> /\ lostLines' = 0
      BY <3>3, <3>4
    <3>5. CASE log' = <<>> /\ lostLines' = 1
      BY <2>2, <3>5
    <3> QED BY <3>2, <3>4, <3>5
  <2>5. UNCHANGED logVars \/ Logs
    BY HeadersOutcome, BodyOutcome DEF Refuses, AwaitBody
  <2> QED BY <2>3, <2>4, <2>5
<1>10. CASE RecvHeaders
  <2>1. recvd' <= HeadLimit + RecvLen
    BY <1>10, HeadersOutcome
  <2>2. CASE read_buf' \in {<<>>, Stream(0, recvd')} /\ UNCHANGED <<post_body_accum, post_content_length>>
    <3>1. read_buf' = <<>> => read_buf' \in Seq(1..Total) /\ Len(read_buf') <= HeadLimit + RecvLen
      BY <1>6, <1>8
    <3>2. read_buf' = Stream(0, recvd') =>
            read_buf' \in Seq(1..Total) /\ Len(read_buf') <= HeadLimit + RecvLen
      BY <1>4, <2>1
    <3>3. read_buf' \in Seq(1..Total) /\ Len(read_buf') <= HeadLimit + RecvLen
      BY <2>2, <3>1, <3>2
    <3> QED BY <1>3, <1>7, <1>9, <2>2, <3>3
  <2>3. CASE /\ req.cl # 0 /\ req.cl <= BodyLimit
             /\ recvd' >= req.head /\ recvd' < req.head + req.cl
             /\ AwaitBody(Stream(req.head, recvd'))
    <3>1. /\ read_buf' = <<>> /\ post_content_length' = req.cl
          /\ post_body_accum' = Stream(req.head, recvd')
      BY <2>3 DEF AwaitBody
    <3>2. recvd' - req.head < BodyLimit + RecvLen /\ req.cl \in 0..BodyLimit
      BY <1>1, <1>3, <2>3
    <3>3. post_body_accum' \in Seq(1..Total) /\ Len(post_body_accum') < BodyLimit + RecvLen
      BY <1>5, <2>3, <3>1, <3>2
    <3> QED BY <1>3, <1>6, <1>8, <1>9, <3>1, <3>2, <3>3
  <2> QED BY <1>10, <2>2, <2>3, HeadersOutcome
<1>11. CASE RecvBody
  <2>1. recvd' >= req.head /\ recvd' < req.head + BodyLimit + RecvLen
    BY <1>11, BodyOutcome
  <2>2. recvd' - req.head < BodyLimit + RecvLen
    BY <1>1, <1>3, <2>1
  <2>3. read_buf' \in {<<>>, read_buf} /\ UNCHANGED post_content_length
    BY <1>11, BodyOutcome DEF RecvBody
  <2>4. post_body_accum' \in {<<>>, Stream(req.head, recvd')}
    BY <1>11, BodyOutcome
  <2>5. post_body_accum' \in Seq(1..Total) /\ Len(post_body_accum') < BodyLimit + RecvLen
    BY <1>5, <1>6, <1>8, <2>1, <2>2, <2>4
  <2> QED BY <1>3, <1>6, <1>7, <1>8, <1>9, <2>3, <2>5
<1> QED BY <1>10, <1>11

LEMMA TypeStep == ASSUME TypeOK, Headers, Body, Places, [Next]_vars PROVE TypeOK'
<1> USE DEF clientVars, parseVars, logVars
<1>1. CASE UNCHANGED vars
  BY <1>1 DEF TypeOK, vars, Total, RespLen
<1>2. /\ got \in Nat /\ inFlight \in Nat /\ write_off \in Nat /\ SndBuf \in Nat /\ RespLen \in Nat
      /\ got + inFlight <= write_off /\ inFlight <= SndBuf /\ write_off <= RespLen /\ got <= RespLen
      /\ sent \in 0..Total /\ recvd \in 0..sent /\ Total \in Nat
  <2>1. SndBuf \in Nat /\ RespLen \in Nat /\ Total \in Nat
    BY Numbers
  <2>2. inFlight \in 0..SndBuf /\ got \in 0..RespLen /\ write_off \in 0..RespLen
    BY DEF TypeOK
  <2>3. sent \in 0..Total /\ recvd \in 0..sent
    BY DEF TypeOK
  <2>4. got + inFlight <= write_off
    BY DEF Places
  <2> QED BY <2>1, <2>2, <2>3, <2>4
<1>3. CASE ClientSends \/ ClientShutsDown \/ ClientResets \/ ClientReads \/ ResponseLost
  <2>1. UNCHANGED <<recvd, interest, pc, phase, parseVars, write_off, status, logVars>>
    BY <1>3
    DEF ServerUnchanged, ClientSends, ClientShutsDown, ClientResets, ClientReads, ResponseLost
  <2>2. UNCHANGED <<Total, RespLen, req, logEnabled>>
    <3>1. UNCHANGED <<req, logEnabled>>
      BY <1>3 DEF ClientSends, ClientShutsDown, ClientResets, ClientReads, ResponseLost
    <3> QED BY <2>1, <3>1 DEF Total, RespLen
  <2>3. CASE ClientSends
    BY <1>2, <2>1, <2>2, <2>3 DEF TypeOK, ClientSends
  <2>4. CASE ClientShutsDown
    BY <1>2, <2>1, <2>2, <2>4 DEF TypeOK, ClientShutsDown
  <2>5. CASE ClientResets
    BY <1>2, <2>1, <2>2, <2>5 DEF TypeOK, ClientResets
  <2>6. CASE ClientReads
    <3>1. inFlight' \in 0..SndBuf /\ got' \in 0..RespLen
      BY <1>2, <2>6 DEF ClientReads
    <3> QED BY <2>1, <2>2, <2>6, <3>1 DEF TypeOK, ClientReads
  <2>7. CASE ResponseLost
    BY <1>2, <2>1, <2>2, <2>7 DEF TypeOK, ResponseLost
  <2> QED BY <1>3, <2>3, <2>4, <2>5, <2>6, <2>7
<1>4. CASE RecvHeaders \/ RecvBody
  <2>1. UNCHANGED <<logEnabled, req, sent, gone, got, inFlight, cut, nospace>>
    BY <1>4 DEF RecvHeaders, RecvBody
  <2>2. status = "none"
    BY <1>4 DEF RecvHeaders, RecvBody, Headers, Body
  <2>3. write_off = 0 /\ got = 0 /\ inFlight = 0 /\ RespLen = 0
    BY <1>2, <2>2 DEF RespLen
  <2>4. RespLen' \in Nat
    BY HttpAssumption DEF RespLen
  <2>5. CASE Refuses \/ Logs
    <3>1. ready' \in BOOLEAN
      BY <2>5, Answering DEF Respond, setPlainSocketInterest, TypeOK
    <3>2. /\ status' \in {"200", "204", "400", "404", "503"} /\ write_off' = 0
          /\ phase' = "writing" /\ pc' = "wait" /\ interest' = {"out"}
      BY <2>5, Answering
    <3>3. UNCHANGED Total
      BY <2>1 DEF Total
    <3> QED BY <1>2, <1>4, <2>1, <2>3, <2>4, <3>1, <3>2, <3>3, ParseTypes DEF TypeOK
  <2>6. CASE UNCHANGED <<interest, ready, pc, phase, write_off, status>>
    <3>1. UNCHANGED <<Total, RespLen>>
      BY <2>1, <2>6 DEF Total, RespLen
    <3> QED BY <1>4, <2>1, <2>6, <3>1, ParseTypes DEF TypeOK
  <2>7. CASE AwaitBody(Stream(req.head, recvd'))
    <3>1. ready' \in BOOLEAN /\ interest' = {"in"}
      BY <2>7 DEF AwaitBody, setPlainSocketInterest, TypeOK
    <3>2. UNCHANGED <<Total, RespLen, write_off, status>> /\ phase' = "body" /\ pc' = "wait"
      BY <2>1, <2>7 DEF Total, RespLen, AwaitBody
    <3> QED BY <1>4, <2>1, <3>1, <3>2, ParseTypes DEF TypeOK
  <2> QED BY <1>4, <2>5, <2>6, <2>7, HeadersOutcome, BodyOutcome
<1>5. CASE Turn \/ RecvWouldBlock \/ RecvEnds \/ Send \/ SendWouldBlock \/ SendEnds
  <2>1. UNCHANGED <<logEnabled, req, sent, gone, got, recvd, parseVars, status, logVars>>
    BY <1>5 DEF Turn, RecvWouldBlock, RecvEnds, Send, SendWouldBlock, SendEnds
  <2>2. UNCHANGED <<Total, RespLen>>
    BY <2>1 DEF Total, RespLen
  <2>3. /\ {cut', ready', nospace'} \subseteq BOOLEAN /\ interest' \subseteq {"in", "out"}
        /\ pc' \in {"wait", "read", "write"} /\ phase' \in {"headers", "body", "writing", "closed"}
    <3>1. CASE closeHttpConnection /\ UNCHANGED nospace
      <4>1. /\ phase' = "closed" /\ pc' = "wait" /\ interest' = {} /\ ready' = FALSE
            /\ UNCHANGED nospace
        BY <3>1 DEF closeHttpConnection
      <4>2. cut' = (Unread > 0)
        BY <3>1 DEF closeHttpConnection
      <4>3. cut' = TRUE \/ cut' = FALSE
        <5> DEFINE p == Unread > 0
        <5>1. p = TRUE \/ p = FALSE
          OBVIOUS
        <5> HIDE DEF p
        <5> QED BY <4>2, <5>1 DEF p
      <4>4. nospace \in BOOLEAN
        BY DEF TypeOK
      <4> QED BY <4>1, <4>3, <4>4
    <3>2. CASE Turn /\ ready' = FALSE /\ UNCHANGED <<interest, phase, cut>>
               /\ pc' \in {"wait", "read", "write"}
      BY <3>2 DEF Turn, TypeOK
    <3>4. Turn => \/ closeHttpConnection /\ UNCHANGED nospace
                  \/ /\ ready' = FALSE /\ UNCHANGED <<interest, phase, cut>>
                     /\ pc' \in {"wait", "read", "write"}
      BY DEF Turn
    <3>5. RecvEnds \/ SendEnds => closeHttpConnection /\ UNCHANGED nospace
      BY DEF RecvEnds, SendEnds
    <3>3. CASE RecvWouldBlock \/ Send \/ SendWouldBlock
      BY <3>3 DEF RecvWouldBlock, Send, SendWouldBlock, TypeOK
    <3> QED BY <1>5, <3>1, <3>2, <3>3, <3>4, <3>5
  <2>4. inFlight' \in 0..SndBuf /\ write_off' \in 0..RespLen
    <3>1. CASE Send
      BY <1>2, <3>1 DEF Send, Least
    <3>2. CASE ~ Send
      <4>1. UNCHANGED <<inFlight, write_off>>
        BY <1>5, <3>2 DEF Turn, RecvWouldBlock, RecvEnds, SendWouldBlock, SendEnds
      <4> QED BY <1>2, <4>1
    <3> QED BY <3>1, <3>2
  <2> QED BY <2>1, <2>2, <2>3, <2>4 DEF TypeOK
<1> QED BY <1>1, <1>3, <1>4, <1>5 DEF Next, Server

(***************************************************************************)
(* The theorems.                                                           *)
(***************************************************************************)
LEMMA InitInv == Init => IInv
<1> SUFFICES ASSUME Init PROVE IInv
  OBVIOUS
<1>1. req.head \in Nat \ {0} /\ req.body \in Nat
  <2>1. req \in [line : Line, head : Heads, cl : 0..(BodyLimit + 1), body : Bodies]
    BY DEF Init, Request
  <2>2. req.head \in Heads /\ req.body \in Bodies
    BY <2>1
  <2> QED BY <2>2, HttpAssumption
<1>2. Total \in Nat /\ RespLen = 0
  BY <1>1 DEF Total, RespLen, Init
<1>3. /\ <<>> \in Seq(1..Total) /\ <<>> \in Seq(Seq(1..Total)) /\ Len(<<>>) = 0 /\ DOMAIN <<>> = {}
  BY EmptySeq, ShortSeqs
<1>4. HeadLimit \in Nat \ {0} /\ BodyLimit \in Nat \ {0} /\ RecvLen \in Nat \ {0} /\ SndBuf \in Nat \ {0}
  BY HttpAssumption
<1>5. TypeOK
  <2>1. sent \in 0..Total /\ recvd \in 0..sent /\ inFlight \in 0..SndBuf
    BY <1>2, <1>4 DEF Init
  <2>2. got \in 0..RespLen /\ write_off \in 0..RespLen /\ post_content_length \in 0..BodyLimit
    BY <1>2, <1>4 DEF Init
  <2>3. /\ read_buf \in Seq(1..Total) /\ Len(read_buf) <= HeadLimit + RecvLen
        /\ post_body_accum \in Seq(1..Total) /\ Len(post_body_accum) < BodyLimit + RecvLen
        /\ log \in Seq(Seq(1..Total)) /\ lostLines \in Nat
    BY <1>3, <1>4 DEF Init
  <2>4. /\ logEnabled \in BOOLEAN /\ req \in Request
        /\ gone \in {"no", "half", "reset"} /\ {cut, ready, nospace} \subseteq BOOLEAN
        /\ interest \subseteq {"in", "out"} /\ pc \in {"wait", "read", "write"}
        /\ phase \in {"headers", "body", "writing", "closed"}
        /\ status \in {"none", "200", "204", "400", "404", "503"}
    BY DEF Init
  <2> QED BY <2>1, <2>2, <2>3, <2>4 DEF TypeOK
<1>6. Stream(0, 0) = <<>>
  <2>1. Stream(0, 0) \in Seq(1..0) /\ Len(Stream(0, 0)) = 0 - 0
    BY StreamSeq
  <2> QED BY <2>1, EmptySeq
<1>7. Headers /\ Body
  BY <1>1, <1>4, <1>6 DEF Init, Headers, Body
<1>8. Places /\ StatusFitsRequest /\ CutShortOnlyByPeer
  BY DEF Init, Places, StatusFitsRequest, CutShortOnlyByPeer
<1>9. LoggedOnce
  <2>1. Len(log) = 0 /\ DOMAIN log = {} /\ Len(log) + lostLines <= 1
    BY <1>3 DEF Init
  <2> QED BY <2>1 DEF LoggedOnce, Init
<1> QED BY <1>5, <1>7, <1>8, <1>9 DEF IInv

LEMMA StepInv == IInv /\ [Next]_vars => IInv'
BY TypeStep, HeadersStep, PlacesStep, LoggedStep, StatusStep, CutStep DEF IInv

LEMMA Invariance == Spec => []IInv
BY InitInv, StepInv, PTL DEF Spec

(* Types, and that no buffer outgrows its limit by more than one recv.      *)
THEOREM TypeCorrect == Spec => []TypeOK
<1>1. IInv => TypeOK
  BY DEF IInv
<1> QED BY <1>1, Invariance, PTL

(* For all limits and request lengths, and however the bytes arrive, a line *)
(* is logged at most once and holds exactly the announced bytes             *)
(* (WssServer.cpp:808-841, 894-919).                                        *)
THEOREM LoggedCorrect == Spec => []LoggedOnce
<1>1. IInv => LoggedOnce
  BY DEF IInv
<1> QED BY <1>1, Invariance, PTL

(* How a request was cut does not change its answer, unless it is beyond    *)
(* the limits (WssServer.cpp:843-937).                                      *)
THEOREM StatusCorrect == Spec => []StatusFitsRequest
<1>1. IInv => StatusFitsRequest
  BY DEF IInv
<1> QED BY <1>1, Invariance, PTL

(* No response is cut short for any length and any send buffer, unless the  *)
(* client has left (WssServer.cpp:950-964, 1233-1261).                      *)
THEOREM CutCorrect == Spec => []CutShortOnlyByPeer
<1>1. IInv => CutShortOnlyByPeer
  BY DEF IInv
<1> QED BY <1>1, Invariance, PTL
=============================================================================
