----------------------------- MODULE HttpStatic -----------------------------
(***************************************************************************)
(* One connection to the plain HTTP port: static pages, the browser's log  *)
(* lines and their preflight requests (driveHttpRead, driveHttpWrite and   *)
(* their part of the epoll loop in src/src/server/WssServer.cpp).          *)
(*                                                                         *)
(* The client's byte stream is 1..Total: the header block with its empty   *)
(* line ends at req.head, a body of req.body bytes follows.  The buffers   *)
(* are sequences of stream positions, so a lost, repeated or foreign byte  *)
(* shows.  Every recv and send is a step, the client acts in between, and  *)
(* the socket is edge-triggered: its event is pending only after something *)
(* new happened that it was registered for, or an EPOLL_CTL_MOD.           *)
(***************************************************************************)
EXTENDS Integers, Sequences

CONSTANTS
  HeadLimit,    \* most bytes in read_buf (16384)
  BodyLimit,    \* kMaxBrowserLogBody (4096)
  RecvLen,      \* sizeof(tmp) (4096)
  SndBuf,       \* what the socket's send buffer holds
  PageLen,      \* length of a page; the other responses have length 1
  Heads,        \* lengths of header blocks clients send
  Bodies        \* lengths of what they send after it

ASSUME HttpAssumption ==
  /\ {HeadLimit, BodyLimit, RecvLen, SndBuf, PageLen} \subseteq Nat \ {0}
  /\ Heads \subseteq Nat \ {0} /\ Bodies \subseteq Nat

VARIABLES
  logEnabled,  \* setting: browser_log_dir is not empty
  req,         \* what the client means to send
  sent,        \* bytes it has sent
  gone,        \* "no", "half" (it has shut its sending side), "reset"
  recvd,       \* bytes taken from the socket
  inFlight,    \* bytes of the response the client has not read yet
  got,         \* bytes of it the client has read
  cut,         \* the socket was closed with input unread: its kernel resets the connection
  interest,    \* EPOLLIN and EPOLLOUT of the registration
  ready,       \* an event is pending
  nospace,     \* a send has found the buffer full
  pc,          \* "wait", or in the loop of driveHttpRead or driveHttpWrite
  phase, read_buf, post_body_accum, post_content_length, write_off,  \* HttpConnection
  status,      \* what write_buf says
  log,         \* lines in wss_browser.log
  lostLines    \* lines that could not be appended

clientVars == <<logEnabled, req, sent, gone, got>>
parseVars == <<read_buf, post_body_accum, post_content_length>>
logVars == <<log, lostLines>>
vars == <<clientVars, recvd, inFlight, cut, interest, ready, nospace, pc, phase, parseVars,
          write_off, status, logVars>>

Line == {"get page", "get missing", "get favicon", "options log", "post log", "bad"}

(* Announced body lengths: 0 stands for a header that is missing, invalid   *)
(* or 0.  Only a POST of a log line announces one.                          *)
Request ==
  {r \in [line : Line, head : Heads, cl : 0..(BodyLimit + 1), body : Bodies] :
     r.line # "post log" => r.cl = 0}

Total == req.head + req.body
Unread == sent - recvd
RespLen == CASE status = "none" -> 0 [] status = "200" -> PageLen [] OTHER -> 1
Least(a, b) == IF a <= b THEN a ELSE b

(* What epoll reports of the socket for the interests i with u bytes unread.*)
Mask(i, u) ==
  (IF "in" \in i /\ (u > 0 \/ gone # "no") THEN {"in"} ELSE {})
  \cup (IF "out" \in i /\ (inFlight < SndBuf \/ gone = "reset") THEN {"out"} ELSE {})
  \cup (IF gone # "no" THEN {"rdhup"} ELSE {})
  \cup (IF gone = "reset" THEN {"err"} ELSE {})

(* A position list of the stream, and no buffer beyond its limit by more    *)
(* than one recv.                                                           *)
TypeOK ==
  /\ logEnabled \in BOOLEAN
  /\ req \in Request
  /\ sent \in 0..Total /\ recvd \in 0..sent
  /\ gone \in {"no", "half", "reset"}
  /\ inFlight \in 0..SndBuf /\ got \in 0..RespLen /\ write_off \in 0..RespLen
  /\ {cut, ready, nospace} \subseteq BOOLEAN
  /\ interest \subseteq {"in", "out"}
  /\ pc \in {"wait", "read", "write"}
  /\ phase \in {"headers", "body", "writing", "closed"}
  /\ read_buf \in Seq(1..Total) /\ Len(read_buf) <= HeadLimit + RecvLen
  /\ post_body_accum \in Seq(1..Total) /\ Len(post_body_accum) < BodyLimit + RecvLen
  /\ post_content_length \in 0..BodyLimit
  /\ status \in {"none", "200", "204", "400", "404", "503"}
  /\ log \in Seq(Seq(1..Total)) /\ lostLines \in Nat

Init ==
  /\ logEnabled \in BOOLEAN
  /\ req \in Request
  /\ sent = 0 /\ gone = "no" /\ recvd = 0 /\ inFlight = 0 /\ got = 0 /\ cut = FALSE
  /\ interest = {"in"} /\ ready = FALSE /\ nospace = FALSE /\ pc = "wait"
  /\ phase = "headers" /\ read_buf = <<>> /\ post_body_accum = <<>>
  /\ post_content_length = 0 /\ write_off = 0 /\ status = "none"
  /\ log = <<>> /\ lostLines = 0

-----------------------------------------------------------------------------
(* The client and the network.                                              *)
ServerUnchanged ==
  UNCHANGED <<recvd, interest, pc, phase, parseVars, write_off, status, logVars>>

(* Bytes for a socket that is closed already are answered with a reset.     *)
ClientSends ==
  /\ gone = "no" /\ sent < Total
  /\ sent' \in (sent + 1)..Total
  /\ ready' = (ready \/ "in" \in interest)
  /\ cut' = (cut \/ phase = "closed")
  /\ UNCHANGED <<logEnabled, req, gone, inFlight, got, nospace>> /\ ServerUnchanged

ClientShutsDown ==
  /\ gone = "no"
  /\ gone' = "half" /\ ready' = (phase # "closed")
  /\ UNCHANGED <<logEnabled, req, sent, inFlight, got, cut, nospace>> /\ ServerUnchanged

ClientResets ==
  /\ gone # "reset"
  /\ gone' = "reset" /\ inFlight' = 0 /\ ready' = (phase # "closed")
  /\ UNCHANGED <<logEnabled, req, sent, got, cut, nospace>> /\ ServerUnchanged

ClientReads ==
  /\ inFlight > 0
  /\ inFlight' = inFlight - 1 /\ got' = got + 1
  /\ ready' = (ready \/ (nospace /\ "out" \in interest)) /\ nospace' = FALSE
  /\ UNCHANGED <<logEnabled, req, sent, gone, cut>> /\ ServerUnchanged

(* The reset that follows a close with input unread may overtake the        *)
(* response.                                                                *)
ResponseLost ==
  /\ cut /\ inFlight > 0
  /\ inFlight' = 0
  /\ UNCHANGED <<logEnabled, req, sent, gone, got, cut, ready, nospace>> /\ ServerUnchanged

-----------------------------------------------------------------------------
(* setPlainSocketInterest: the kernel looks at the socket again.            *)
setPlainSocketInterest(i) == interest' = i /\ ready' = (ready \/ Mask(i, sent - recvd') # {})

closeHttpConnection ==
  /\ phase' = "closed" /\ pc' = "wait" /\ interest' = {} /\ ready' = FALSE
  /\ cut' = (Unread > 0)

Respond(s) ==
  /\ status' = s /\ write_off' = 0 /\ phase' = "writing" /\ pc' = "wait"
  /\ setPlainSocketInterest({"out"})

(* appendBrowserClientLogFile: a failure is a warning in the server's log.  *)
appendBrowserClientLogFile(line) ==
  \/ log' = Append(log, line) /\ UNCHANGED lostLines
  \/ lostLines' = lostLines + 1 /\ UNCHANGED log

(* buildHttpStaticResponse.                                                 *)
PageStatus(line) ==
  CASE line = "get page" -> "200" [] line = "get favicon" -> "204" [] OTHER -> "404"

(* The epoll loop's dispatch of one event of this descriptor.               *)
Turn ==
  /\ pc = "wait" /\ ready
  /\ LET e == Mask(interest, Unread)
     IN IF "err" \in e \/ ("rdhup" \in e /\ e \cap {"in", "out"} = {})
        THEN closeHttpConnection
        ELSE /\ ready' = FALSE
             /\ pc' = IF phase = "writing" /\ "out" \in e THEN "write"
                      ELSE IF phase \in {"headers", "body"} /\ "in" \in e THEN "read"
                      ELSE "wait"
             /\ UNCHANGED <<interest, phase, cut>>
  /\ UNCHANGED <<clientVars, recvd, inFlight, nospace, parseVars, write_off, status, logVars>>

(* What the next recv returns.                                              *)
Chunk == [i \in 1..Least(Unread, RecvLen) |-> recvd + i]

(* Variant of the size check that is left out.                              *)
NeverTooLong(buf) == Len(buf) < 0
TooLong(buf) == Len(buf) > HeadLimit

(* Variant of AwaitBody that drops the part of the body that has arrived.   *)
AwaitBodyAfresh(have) ==
  /\ post_content_length' = req.cl /\ post_body_accum' = <<>> /\ read_buf' = <<>>
  /\ phase' = "body" /\ pc' = "wait"
  /\ setPlainSocketInterest({"in"})
  /\ UNCHANGED <<write_off, status, logVars>>

(* Variant that does not have the kernel look at the socket again.          *)
AwaitBodyUnarmed(have) ==
  /\ post_content_length' = req.cl /\ post_body_accum' = have /\ read_buf' = <<>>
  /\ phase' = "body" /\ pc' = "wait"
  /\ UNCHANGED <<interest, ready, write_off, status, logVars>>

(* Headers complete, body not: the rest is left to later events.            *)
AwaitBody(have) ==
  /\ post_content_length' = req.cl /\ post_body_accum' = have /\ read_buf' = <<>>
  /\ phase' = "body" /\ pc' = "wait"
  /\ setPlainSocketInterest({"in"})
  /\ UNCHANGED <<write_off, status, logVars>>

(* Variant of the test of Content-Length without the upper limit.           *)
AnyLength(cl) == cl # 0
LengthAccepted(cl) == cl # 0 /\ cl <= BodyLimit

(* A response that leaves nothing to log; buf stays in read_buf.            *)
Answer(s, buf) ==
  Respond(s) /\ read_buf' = buf /\ UNCHANGED <<post_body_accum, post_content_length, logVars>>

(* A POST of a log line whose headers are complete in buf.                  *)
PostLog(buf) ==
  LET have == SubSeq(buf, req.head + 1, Len(buf))
  IN \/ ~ logEnabled /\ Answer("503", <<>>)
     \/ logEnabled /\ ~ LengthAccepted(req.cl) /\ Answer("400", buf)
     \/ /\ logEnabled /\ LengthAccepted(req.cl) /\ Len(have) >= req.cl
        /\ appendBrowserClientLogFile(SubSeq(have, 1, req.cl))
        /\ Respond("204") /\ read_buf' = <<>>
        /\ UNCHANGED <<post_body_accum, post_content_length>>
     \/ logEnabled /\ LengthAccepted(req.cl) /\ Len(have) < req.cl /\ AwaitBody(have)

(* driveHttpRead, its loop over the header block.                           *)
RecvHeaders ==
  /\ pc = "read" /\ phase = "headers" /\ Unread > 0
  /\ recvd' = recvd + Len(Chunk)
  /\ LET buf == read_buf \o Chunk
     IN IF TooLong(buf) THEN Answer("400", buf)
        ELSE IF Len(buf) < req.head
        THEN /\ read_buf' = buf
             /\ UNCHANGED <<post_body_accum, post_content_length, interest, ready, pc, phase,
                            write_off, status, logVars>>
        ELSE CASE req.line = "post log" -> PostLog(buf)
               [] req.line = "options log" -> Answer("204", <<>>)
               [] req.line = "bad" -> Answer("400", buf)
               [] OTHER -> Answer(PageStatus(req.line), buf)
  /\ UNCHANGED <<clientVars, inFlight, cut, nospace>>

(* driveHttpRead, its loop over a body in pieces: the limit is tested       *)
(* before completeness.                                                     *)
RecvBody ==
  /\ pc = "read" /\ phase = "body" /\ Unread > 0
  /\ recvd' = recvd + Len(Chunk)
  /\ LET accum == post_body_accum \o Chunk
     IN \/ /\ Len(accum) > BodyLimit
           /\ Respond("400") /\ post_body_accum' = accum
           /\ UNCHANGED <<read_buf, logVars>>
        \/ /\ Len(accum) \in post_content_length..BodyLimit
           /\ appendBrowserClientLogFile(SubSeq(accum, 1, post_content_length))
           /\ Respond("204") /\ post_body_accum' = <<>> /\ read_buf' = <<>>
        \/ /\ Len(accum) < post_content_length
           /\ post_body_accum' = accum
           /\ UNCHANGED <<read_buf, interest, ready, pc, phase, write_off, status, logVars>>
  /\ UNCHANGED <<clientVars, inFlight, cut, nospace, post_content_length>>

(* EAGAIN ends the loop until the next event.                               *)
RecvWouldBlock ==
  /\ pc = "read" /\ Unread = 0 /\ gone = "no"
  /\ pc' = "wait"
  /\ UNCHANGED <<clientVars, recvd, inFlight, cut, interest, ready, nospace, phase, parseVars,
                 write_off, status, logVars>>

(* The end of the stream, or an error.                                      *)
RecvEnds ==
  /\ pc = "read" /\ (gone = "reset" \/ (gone = "half" /\ Unread = 0))
  /\ closeHttpConnection
  /\ UNCHANGED <<clientVars, recvd, inFlight, nospace, parseVars, write_off, status, logVars>>

-----------------------------------------------------------------------------
(* driveHttpWrite: send until all is out or the buffer is full.             *)
Send ==
  /\ pc = "write" /\ write_off < RespLen /\ inFlight < SndBuf /\ gone # "reset"
  /\ LET n == Least(RespLen - write_off, SndBuf - inFlight)
     IN write_off' = write_off + n /\ inFlight' = inFlight + n
  /\ UNCHANGED <<clientVars, recvd, cut, interest, ready, nospace, pc, phase, parseVars, status,
                 logVars>>

(* Variant of SendWouldBlock that takes a full buffer for an error.         *)
SendFails ==
  /\ pc = "write" /\ write_off < RespLen /\ inFlight = SndBuf /\ gone # "reset"
  /\ closeHttpConnection
  /\ UNCHANGED <<clientVars, recvd, inFlight, nospace, parseVars, write_off, status, logVars>>

SendWouldBlock ==
  /\ pc = "write" /\ write_off < RespLen /\ inFlight = SndBuf /\ gone # "reset"
  /\ pc' = "wait" /\ nospace' = TRUE
  /\ UNCHANGED <<clientVars, recvd, inFlight, cut, interest, ready, phase, parseVars, write_off,
                 status, logVars>>

SendEnds ==
  /\ pc = "write" /\ (write_off = RespLen \/ gone = "reset")
  /\ closeHttpConnection
  /\ UNCHANGED <<clientVars, recvd, inFlight, nospace, parseVars, write_off, status, logVars>>

Server ==
  \/ Turn \/ RecvHeaders \/ RecvBody \/ RecvWouldBlock \/ RecvEnds
  \/ Send \/ SendWouldBlock \/ SendEnds

Next ==
  \/ Server
  \/ ClientSends \/ ClientShutsDown \/ ClientResets \/ ClientReads \/ ResponseLost

(* The IO thread serves its events; the client reads what reaches it.       *)
Spec == Init /\ [][Next]_vars /\ WF_vars(Server) /\ WF_vars(ClientReads)

-----------------------------------------------------------------------------
(* A line is logged at most once, whole, and holds exactly the bytes of the *)
(* body that Content-Length announced, however the request was cut; and a   *)
(* POST is told 204 only after the attempt to log it.                       *)
LoggedOnce ==
  /\ Len(log) + lostLines <= 1
  /\ \A i \in DOMAIN log : log[i] = [j \in 1..req.cl |-> req.head + j]
  /\ req.line = "post log" /\ status = "204" => Len(log) + lostLines = 1

(* The status a request deserves, taken by itself.                          *)
Deserved ==
  CASE req.line = "post log" -> IF ~ logEnabled THEN "503"
                                ELSE IF req.cl \in 1..BodyLimit THEN "204" ELSE "400"
    [] req.line = "options log" -> "204"
    [] req.line = "bad" -> "400"
    [] OTHER -> PageStatus(req.line)

(* The status depends on the request and not on how it was cut into         *)
(* segments, except that one with more bytes than the limits may be refused.*)
StatusFitsRequest ==
  status # "none" =>
    /\ status # Deserved => status = "400" /\ (Total > HeadLimit \/ req.body > BodyLimit)
    /\ req.head > HeadLimit => status = "400"

(* The server ends a connection before its response is out only if the      *)
(* client has shut its side or reset.                                       *)
CutShortOnlyByPeer ==
  phase = "closed" /\ (status = "none" \/ write_off < RespLen) => gone # "no"

(* A request within the limits, once sent by a client that stays, is        *)
(* answered to the last byte: no event is missed at the changes of phase    *)
(* and of interest.  A body nobody reads is excluded: it makes the kernel   *)
(* reset the connection at the close, which may destroy the 503 or 400.     *)
Answered ==
  (/\ sent = Total /\ Total <= HeadLimit
   /\ req.body = IF logEnabled /\ req.cl \in 1..BodyLimit THEN req.cl ELSE 0)
    ~> gone # "no" \/ (status # "none" /\ got = RespLen)
=============================================================================
