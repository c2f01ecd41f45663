---------------------------- MODULE UploadClient ----------------------------
(***************************************************************************)
(* The upload of wss_client (src/src/client/main_client.cpp) against the   *)
(* sessions of FileTransfer, through the server's worker pool.             *)
(*                                                                         *)
(* A run of the client is one process and one connection: it sends START   *)
(* and QUERY back to back, takes the first bitmap it is given, sends the   *)
(* missing chunks one by one, each acknowledged before the next, and waits *)
(* for FINISH_ACK.  The pool takes the messages in order but workers reach *)
(* the session mutex, and then the connection's queue, in any order.  A    *)
(* run may be killed anywhere, its messages still in the pool, and the     *)
(* client started again on the same path, hence with the same file_id; the *)
(* file there may have changed.  The client reads one reply per SSL_read:  *)
(* the server writes each frame as TLS records of its own.  It pings, so   *)
(* it notices a lost connection once it has read what was sent before.     *)
(***************************************************************************)
EXTENDS FileTransfer

CONSTANTS
  Client,     \* client machines, each with one path
  Worker,     \* threads of the server's pool
  FileId,     \* fnv1a64(filePath) of each client
  Versions,   \* what each client's path may hold when a run starts
  MaxRuns     \* bound: runs of one client

ASSUME UploadClientAssumption ==
  FileId \in [Client -> Id] /\ Versions \in [Client -> SUBSET File] /\ MaxRuns \in Nat

VARIABLES
  cpc,      \* a client's place in main(), "idle" before its first run
  run,      \* how many runs it has begun
  sends,    \* the file of the current run
  bitmap,   \* the bitmap it was given
  from,     \* history: the file that bitmap is about
  next,     \* chunkIndex
  up,       \* its connection still exists at the server
  chan,     \* replies on their way to it
  ptasks,   \* binary frames submitted to the pool
  wtask,    \* the message a worker handles
  wout      \* the replies it has yet to queue

clientVars == <<cpc, run, sends, bitmap, from, next>>
poolVars == <<ptasks, wtask, wout>>
uploadVars == <<clientVars, up, chan, poolVars, vars>>

-----------------------------------------------------------------------------
NoMessage == [type |-> "none"]
Active(c) == cpc[c] \notin {"idle", "ok", "failed"}

UploadInit ==
  /\ Init
  /\ cpc = [c \in Client |-> "idle"] /\ run = [c \in Client |-> 0]
  /\ sends = [c \in Client |-> NoFile] /\ from = [c \in Client |-> NoFile]
  /\ bitmap = [c \in Client |-> {}] /\ next = [c \in Client |-> 0]
  /\ up = [c \in Client |-> FALSE] /\ chan = [c \in Client |-> <<>>]
  /\ ptasks = <<>> /\ wout = [w \in Worker |-> <<>>]
  /\ wtask = [w \in Worker |-> NoMessage]

-----------------------------------------------------------------------------
(* The client. *)
Begin(c) ==
  /\ ~ Active(c) /\ run[c] < MaxRuns
  /\ cpc' = [cpc EXCEPT ![c] = "start"]
  /\ run' = [run EXCEPT ![c] = @ + 1]
  /\ \E f \in Versions[c] : sends' = [sends EXCEPT ![c] = f]
  /\ bitmap' = [bitmap EXCEPT ![c] = {}] /\ from' = [from EXCEPT ![c] = NoFile]
  /\ next' = [next EXCEPT ![c] = 0]
  /\ up' = [up EXCEPT ![c] = TRUE] /\ chan' = [chan EXCEPT ![c] = <<>>]
  /\ UNCHANGED <<poolVars, vars>>

(* sslWriteAll: what is written to a connection the server has lost is lost. *)
Sends(c, type, i, d) ==
  ptasks' = IF up[c]
            THEN Append(ptasks, [client |-> c, run |-> run[c], type |-> type,
                                 file |-> sends[c], index |-> i, data |-> d])
            ELSE ptasks

Goto(c, l) == cpc' = [cpc EXCEPT ![c] = l]

SendStart(c) ==
  /\ cpc[c] = "start" /\ Goto(c, "query")
  /\ Sends(c, "START", 0, sends[c])
  /\ UNCHANGED <<run, sends, bitmap, from, next, up, chan, wtask, wout, vars>>

SendQuery(c) ==
  /\ cpc[c] = "query" /\ Goto(c, "bitmap")
  /\ Sends(c, "QUERY", 0, sends[c])
  /\ UNCHANGED <<run, sends, bitmap, from, next, up, chan, wtask, wout, vars>>

Got(c) == Head(chan[c])
Reads(c) == chan[c] # <<>> /\ chan' = [chan EXCEPT ![c] = Tail(@)]

(* Variant of ReadError that reads on after the error and takes the CHUNK_ACK behind it. *)
ReadErrorSkipped(c) ==
  /\ cpc[c] \in {"bitmap", "ack", "finish"}
  /\ Reads(c) /\ Got(c).type = "ERROR"
  /\ Goto(c, IF cpc[c] = "ack" THEN "ack" ELSE "failed")
  /\ UNCHANGED <<run, sends, bitmap, from, next, up, poolVars, vars>>

(* FILE_ERROR ends the run, whichever message it answers. *)
ReadError(c) ==
  /\ cpc[c] \in {"bitmap", "ack", "finish"}
  /\ Reads(c) /\ Got(c).type = "ERROR"
  /\ Goto(c, "failed")
  /\ UNCHANGED <<run, sends, bitmap, from, next, up, poolVars, vars>>

(* The first QUERY_RESPONSE, be it the answer to START or to QUERY. *)
ReadBitmap(c) ==
  /\ cpc[c] = "bitmap" /\ Goto(c, "chunk")
  /\ Reads(c) /\ Got(c).type = "QUERY_RESPONSE"
  /\ bitmap' = [bitmap EXCEPT ![c] = Got(c).bitmap]
  /\ from' = [from EXCEPT ![c] = Got(c).file]
  /\ UNCHANGED <<run, sends, next, up, poolVars, vars>>

Missing(c) == {i \in Index : next[c] <= i /\ i < Total[sends[c]] /\ i \notin bitmap[c]}

(* Variant that does not wait for the acknowledgement of a chunk. *)
SendChunkUnpaced(c) ==
  /\ cpc[c] = "chunk"
  /\ \E i \in Missing(c) :
       /\ \A j \in Missing(c) : i <= j
       /\ next' = [next EXCEPT ![c] = i + 1]
       /\ Sends(c, "CHUNK", i, sends[c])
  /\ Goto(c, "chunk")
  /\ UNCHANGED <<run, sends, bitmap, from, up, chan, wtask, wout, vars>>

(* Variant that reads on from where the file stands instead of seeking. *)
SendChunkUnseeked(c) ==
  /\ cpc[c] = "chunk"
  /\ \E i \in Missing(c) :
       /\ \A j \in Missing(c) : i <= j
       /\ next' = [next EXCEPT ![c] = i]
       /\ \E d \in File : (i = next[c] <=> d = sends[c]) /\ Sends(c, "CHUNK", i, d)
  /\ Goto(c, "ack")
  /\ UNCHANGED <<run, sends, bitmap, from, up, chan, wtask, wout, vars>>

(* The next missing chunk, with a wrong CRC if --corrupt-chunk says so. *)
SendChunk(c) ==
  /\ cpc[c] = "chunk"
  /\ \E i \in Missing(c) :
       /\ \A j \in Missing(c) : i <= j
       /\ next' = [next EXCEPT ![c] = i]
       /\ \E d \in {sends[c], "bad"} : Sends(c, "CHUNK", i, d)
  /\ Goto(c, "ack")
  /\ UNCHANGED <<run, sends, bitmap, from, up, chan, wtask, wout, vars>>

NothingMissing(c) ==
  /\ cpc[c] = "chunk" /\ Missing(c) = {} /\ Goto(c, "finish")
  /\ UNCHANGED <<run, sends, bitmap, from, next, up, chan, poolVars, vars>>

AcksNext(c) == Got(c).type = "CHUNK_ACK" /\ Got(c).index = next[c]

(* Variant that insists on the acknowledgement's ok flag. *)
ReadAckIfOk(c) ==
  /\ cpc[c] = "ack" /\ Goto(c, "chunk")
  /\ Reads(c) /\ AcksNext(c) /\ Got(c).ok
  /\ next' = [next EXCEPT ![c] = @ + 1]
  /\ UNCHANGED <<run, sends, bitmap, from, up, poolVars, vars>>

(* The ok flag is not looked at: a duplicate is acknowledged with 0. *)
ReadAck(c) ==
  /\ cpc[c] = "ack" /\ Goto(c, "chunk")
  /\ Reads(c) /\ AcksNext(c)
  /\ next' = [next EXCEPT ![c] = @ + 1]
  /\ UNCHANGED <<run, sends, bitmap, from, up, poolVars, vars>>

(* Nor is that of FINISH_ACK. *)
ReadFinish(c) ==
  /\ cpc[c] = "finish" /\ Goto(c, "ok")
  /\ Reads(c) /\ Got(c).type = "FINISH_ACK"
  /\ UNCHANGED <<run, sends, bitmap, from, next, up, poolVars, vars>>

(* Every other reply is skipped. *)
ReadOther(c) ==
  /\ Reads(c) /\ Got(c).type # "ERROR"
  /\ \/ cpc[c] = "bitmap" /\ Got(c).type # "QUERY_RESPONSE"
     \/ cpc[c] = "ack" /\ ~ AcksNext(c)
     \/ cpc[c] = "finish" /\ Got(c).type # "FINISH_ACK"
  /\ UNCHANGED <<clientVars, up, poolVars, vars>>

(* Nothing left to read and the next Ping cannot be written. *)
ConnectionLost(c) ==
  /\ Active(c) /\ ~ up[c] /\ chan[c] = <<>> /\ Goto(c, "failed")
  /\ UNCHANGED <<run, sends, bitmap, from, next, up, chan, poolVars, vars>>

Killed(c) ==
  /\ Active(c) /\ Goto(c, "failed")
  /\ UNCHANGED <<run, sends, bitmap, from, next, up, chan, poolVars, vars>>

Run(c) ==
  \/ SendStart(c) \/ SendQuery(c) \/ ReadBitmap(c) \/ SendChunk(c) \/ NothingMissing(c)
  \/ ReadAck(c) \/ ReadFinish(c) \/ ReadError(c) \/ ReadOther(c) \/ ConnectionLost(c)

-----------------------------------------------------------------------------
(* The server: a worker takes the oldest message, handles it under the      *)
(* session mutex, and queues the replies if the connection is still there.  *)
Take(w) ==
  /\ wtask[w] = NoMessage /\ ptasks # <<>>
  /\ wtask' = [wtask EXCEPT ![w] = Head(ptasks)]
  /\ ptasks' = Tail(ptasks)
  /\ UNCHANGED <<clientVars, up, chan, wout, vars>>

Reachable(m) == up[m.client] /\ run[m.client] = m.run /\ Active(m.client)

(* weak.lock() fails: the connection is gone, and its message with it.      *)
Dropped(w) ==
  /\ wtask[w] # NoMessage /\ wout[w] = <<>> /\ ~ Reachable(wtask[w])
  /\ wtask' = [wtask EXCEPT ![w] = NoMessage]
  /\ UNCHANGED <<clientVars, up, chan, ptasks, wout, vars>>

Handle(w) ==
  LET m == wtask[w]
      id == FileId[m.client]
  IN /\ m # NoMessage /\ wout[w] = <<>>
     /\ \/ m.type = "START" /\ FileStart(id, m.file)
        \/ m.type = "QUERY" /\ Query(id)
        \/ m.type = "CHUNK" /\ FileChunk(id, m.index, m.data)
     /\ wout' = [wout EXCEPT ![w] =
          [n \in 1..Len(replies') |->
             [type |-> replies'[n].type, ok |-> replies'[n].ok, index |-> m.index,
              bitmap |-> g_states'[id].bitmap, file |-> g_states'[id].file]]]
     /\ UNCHANGED <<clientVars, up, chan, ptasks, wtask>>

(* Variant that queues the last reply only. *)
QueueLastReply(w) ==
  LET c == wtask[w].client
  IN /\ wout[w] # <<>>
     /\ chan' = IF Reachable(wtask[w])
                THEN [chan EXCEPT ![c] = Append(@, wout[w][Len(wout[w])])] ELSE chan
     /\ wtask' = [wtask EXCEPT ![w] = NoMessage] /\ wout' = [wout EXCEPT ![w] = <<>>]
     /\ UNCHANGED <<clientVars, up, ptasks, vars>>

QueueReplies(w) ==
  LET c == wtask[w].client
  IN /\ wout[w] # <<>>
     /\ chan' = IF Reachable(wtask[w]) THEN [chan EXCEPT ![c] = @ \o wout[w]] ELSE chan
     /\ wtask' = [wtask EXCEPT ![w] = NoMessage] /\ wout' = [wout EXCEPT ![w] = <<>>]
     /\ UNCHANGED <<clientVars, up, ptasks, vars>>

(* The timer and the clock, as FileTransfer has them. *)
Timer == (ReadClock \/ Cleanup \/ Tick \/ ClockSetBack) /\ UNCHANGED <<clientVars, up, chan, poolVars>>

(* The server restarts: every connection and every message in it is gone.   *)
ServerRestart ==
  /\ Restart
  /\ up' = [c \in Client |-> FALSE]
  /\ ptasks' = <<>>
  /\ wtask' = [w \in Worker |-> NoMessage] /\ wout' = [w \in Worker |-> <<>>]
  /\ UNCHANGED <<clientVars, chan>>

-----------------------------------------------------------------------------
Serve(w) == Take(w) \/ Dropped(w) \/ Handle(w) \/ QueueReplies(w)

UploadNext ==
  \/ \E c \in Client : Begin(c) \/ Run(c) \/ Killed(c)
  \/ \E w \in Worker : Serve(w)
  \/ Timer \/ ServerRestart

(* The threads run and the client runs; nobody has to start, kill or        *)
(* restart anything.                                                        *)
UploadFairness ==
  /\ \A c \in Client : WF_uploadVars(Run(c))
  /\ \A w \in Worker : WF_uploadVars(Serve(w))

UploadSpec == UploadInit /\ [][UploadNext]_uploadVars /\ UploadFairness

-----------------------------------------------------------------------------
(* A client that reports success finds its own file, whole, at its final    *)
(* path, after any number of killed runs and restarts of the server, and    *)
(* although it ignores the ok flag of FINISH_ACK.                           *)
SuccessIsPublished ==
  \A c \in Client : cpc[c] = "ok" => published[FileId[c]] = Whole(sends[c])

(* The client is never left waiting for a bitmap or for the acknowledgement *)
(* of a chunk: as long as its connection exists, what it has asked is in    *)
(* the pool or a worker's hands, or the answer, if only an error, is on its *)
(* way.  It counts on that: it waits without a limit.                       *)
Asked(m, c, type) ==
  m # NoMessage /\ m.type = type /\ m.client = c /\ m.run = run[c]

Pending(c, type, i) ==
  \/ \E n \in 1..Len(ptasks) : Asked(ptasks[n], c, type) /\ ptasks[n].index = i
  \/ \E w \in Worker : wout[w] = <<>> /\ Asked(wtask[w], c, type) /\ wtask[w].index = i

Brings(answers, type, i) ==
  \E n \in 1..Len(answers) :
    \/ answers[n].type = "ERROR"
    \/ answers[n].type = type /\ (type = "CHUNK_ACK" => answers[n].index = i)

Comes(c, type, i) ==
  \/ Brings(chan[c], type, i)
  \/ \E w \in Worker :
       wtask[w] # NoMessage /\ Reachable(wtask[w]) /\ wtask[w].client = c /\ Brings(wout[w], type, i)

NeverLeftWaiting ==
  \A c \in Client : up[c] =>
    /\ cpc[c] = "bitmap" =>
         Pending(c, "START", 0) \/ Pending(c, "QUERY", 0) \/ Comes(c, "QUERY_RESPONSE", 0)
    /\ cpc[c] = "ack" => Pending(c, "CHUNK", next[c]) \/ Comes(c, "CHUNK_ACK", next[c])

(* The client is never ahead of the server: a chunk it has been acknowledged *)
(* or has skipped is in the session of its file, or the whole file is at its *)
(* final path, even if an old chunk has finished the session and a START     *)
(* held by another worker has begun an empty one.                            *)
InPlace(c) == published[FileId[c]] = Whole(sends[c])

Delivered(c, i) ==
  \/ InPlace(c)
  \/ Live(FileId[c]) /\ g_states[FileId[c]].file = sends[c] /\ i \in g_states[FileId[c]].bitmap

ClientNeverAhead ==
  \A c \in Client : cpc[c] \in {"chunk", "ack", "finish"} /\ up[c] =>
    \A i \in Index :
      i < Total[sends[c]] /\ (i < next[c] \/ i \in bitmap[c]) => Delivered(c, i)

(* A client that waits for FINISH_ACK has its file at the final path: the   *)
(* wait that UploadEnds leaves is never one for bytes the server lacks.     *)
WaitsForPublished ==
  \A c \in Client : up[c] /\ cpc[c] = "finish" => InPlace(c)

(* A run of the client comes to an end, or waits for the FINISH_ACK of a     *)
(* file that is at its final path already: then an old chunk has finished    *)
(* the session the client was given the bitmap of, and nobody tells it.      *)
UploadEnds ==
  \A c \in Client :
    Active(c) ~> (~ Active(c) \/ (cpc[c] = "finish" /\ InPlace(c)))

(* A bitmap is reused only if the file's parameters are the same            *)
(* (README.md:29): the chunks a client skips are chunks of its own file.    *)
BitmapIsOfThisFile ==
  \A c \in Client : cpc[c] \in {"chunk", "ack", "finish"} => from[c] = sends[c]
=============================================================================
