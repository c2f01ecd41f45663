------------------------- MODULE UploadClientProofs -------------------------
(* What an upload guarantees for every number of clients, workers and runs, *)
(* proved with TLAPS from the theorems about the sessions.                  *)
EXTENDS UploadClient, FileTransferProofs

(***************************************************************************)
(* What is on its way.                                                     *)
(***************************************************************************)
Msg ==
  {m \in [client : Client, run : Nat, type : {"START", "QUERY", "CHUNK"}, file : File,
          index : Index, data : Data] :
     m.file \in Versions[m.client] /\ m.data \in {m.file, "bad"}}

Answer ==
  [type : {"QUERY_RESPONSE", "CHUNK_ACK", "FINISH_ACK", "ERROR"}, ok : BOOLEAN, index : Index,
   bitmap : SUBSET Index, file : File \cup {NoFile}]

(* What a client sends is about the file its path holds, and a worker has   *)
(* replies to queue only while it has the message they answer.              *)
Announced ==
  /\ ptasks \in Seq(Msg)
  /\ wtask \in [Worker -> Msg \cup {NoMessage}]
  /\ wout \in [Worker -> Seq(Answer)] /\ chan \in [Client -> Seq(Answer)]
  /\ \A w \in Worker : wout[w] # <<>> => wtask[w] # NoMessage
  /\ run \in [Client -> Nat] /\ sends \in [Client -> File \cup {NoFile}]
  /\ cpc \in [Client -> {"idle", "start", "query", "bitmap", "chunk", "ack", "finish",
                         "ok", "failed"}]
  /\ \A c \in Client : cpc[c] # "idle" => sends[c] \in Versions[c]

LEMMA Constants ==
  /\ FileId \in [Client -> Id] /\ Versions \in [Client -> SUBSET File] /\ MaxRuns \in Nat
  /\ 0 \in Index /\ NoFile \notin File
  /\ \A f \in File : Total[f] \in 1..MaxChunks /\ Total[f] \in Nat
  /\ MaxChunks \in Nat /\ MaxTime \in Nat
BY UploadClientAssumption, FileTransferAssumption DEF Index

LEMMA MsgTypes ==
  ASSUME NEW m \in Msg
  PROVE  /\ m.client \in Client /\ FileId[m.client] \in Id /\ m.file \in File
         /\ m.index \in Index /\ m.data \in Data /\ m # NoMessage
         /\ m.file \in Versions[m.client] /\ m.data \in {m.file, "bad"}
<1>1. /\ m \in [client : Client, run : Nat, type : {"START", "QUERY", "CHUNK"}, file : File,
                index : Index, data : Data]
      /\ m.file \in Versions[m.client] /\ m.data \in {m.file, "bad"}
  BY DEF Msg
<1>2. m.type \in {"START", "QUERY", "CHUNK"} /\ NoMessage.type = "none"
  BY <1>1 DEF NoMessage
<1>3. m # NoMessage
  BY <1>2
<1>4. m.client \in Client /\ m.file \in File /\ m.index \in Index /\ m.data \in Data
  BY <1>1
<1> QED BY <1>1, <1>3, <1>4, Constants

(* What the client sends is a message about its file.                       *)
LEMMA SendsMsg ==
  ASSUME Announced, NEW c \in Client, Active(c), NEW type \in {"START", "QUERY", "CHUNK"},
         NEW i \in Index, NEW d \in {sends[c], "bad"}, Sends(c, type, i, d)
  PROVE  ptasks' \in Seq(Msg)
<1>1. sends[c] \in Versions[c] /\ sends[c] \in File /\ run[c] \in Nat
  BY Constants DEF Announced, Active
<1>2. d \in Data
  BY <1>1 DEF Data
<1> DEFINE m == [client |-> c, run |-> run[c], type |-> type, file |-> sends[c],
                 index |-> i, data |-> d]
<1>3. m \in Msg
  <2>1. m \in [client : Client, run : Nat, type : {"START", "QUERY", "CHUNK"}, file : File,
               index : Index, data : Data]
    BY <1>1, <1>2
  <2>2. m.file = sends[c] /\ m.client = c /\ m.data = d
    OBVIOUS
  <2> HIDE DEF m
  <2> QED BY <1>1, <2>1, <2>2 DEF Msg
<1>4. ptasks' = IF up[c] THEN Append(ptasks, m) ELSE ptasks
  BY DEF Sends
<1> HIDE DEF m
<1> QED BY <1>3, <1>4 DEF Announced

LEMMA InitAnnounced == UploadInit => Announced
<1> SUFFICES ASSUME UploadInit
             PROVE  Announced
  OBVIOUS
<1>1. ptasks \in Seq(Msg) /\ <<>> \in Seq(Answer)
  BY DEF UploadInit
<1> QED BY <1>1 DEF UploadInit, Announced

LEMMA ReadsType ==
  ASSUME Announced, NEW c \in Client, chan' = chan \/ Reads(c)
  PROVE  chan' \in [Client -> Seq(Answer)]
<1>1. CASE Reads(c)
  <2>1. chan[c] \in Seq(Answer) /\ chan[c] # <<>> /\ chan' = [chan EXCEPT ![c] = Tail(chan[c])]
    BY <1>1 DEF Announced, Reads
  <2>2. Tail(chan[c]) \in Seq(Answer)
    BY <2>1
  <2> QED BY <2>1, <2>2 DEF Announced
<1>2. CASE chan' = chan
  BY <1>2 DEF Announced
<1> QED BY <1>1, <1>2

(* What a worker answers from the session it has handled.                   *)
LEMMA AnswerType ==
  ASSUME TypeOK', NEW m \in Msg
  PROVE  [n \in 1..Len(replies') |->
            [type |-> replies'[n].type, ok |-> replies'[n].ok, index |-> m.index,
             bitmap |-> g_states'[FileId[m.client]].bitmap,
             file |-> g_states'[FileId[m.client]].file]] \in Seq(Answer)
<1>1. g_states'[FileId[m.client]] \in Session \cup {NoState}
  BY MsgTypes DEF TypeOK
<1>2. /\ g_states'[FileId[m.client]].bitmap \in SUBSET Index
      /\ g_states'[FileId[m.client]].file \in File \cup {NoFile}
  BY <1>1 DEF Session, NoState
<1>3. replies' \in Seq(ReplySet) /\ Len(replies') \in Nat
  BY DEF TypeOK, ReplySet
<1>4. ASSUME NEW n \in 1..Len(replies')
      PROVE  [type |-> replies'[n].type, ok |-> replies'[n].ok, index |-> m.index,
              bitmap |-> g_states'[FileId[m.client]].bitmap,
              file |-> g_states'[FileId[m.client]].file] \in Answer
  <2>1. replies'[n] \in ReplySet
    BY <1>3
  <2>2. /\ replies'[n].type \in {"QUERY_RESPONSE", "CHUNK_ACK", "FINISH_ACK", "ERROR"}
        /\ replies'[n].ok \in BOOLEAN
    BY <2>1 DEF ReplySet
  <2> QED BY <1>2, <2>2, MsgTypes DEF Answer
<1> QED BY <1>3, <1>4

(* A step that moves one client and neither a worker nor the pool's queue.  *)
LEMMA ClientMoves ==
  ASSUME Announced, NEW c \in Client, Active(c),
         NEW l \in {"query", "bitmap", "chunk", "ack", "finish", "ok", "failed"}, Goto(c, l),
         ptasks' \in Seq(Msg), chan' = chan \/ Reads(c), UNCHANGED <<wtask, wout, run, sends>>
  PROVE  Announced'
<1>1. chan' \in [Client -> Seq(Answer)]
  BY ReadsType
<1>2. cpc' \in [Client -> {"idle", "start", "query", "bitmap", "chunk", "ack", "finish",
                          "ok", "failed"}]
  BY DEF Announced, Goto
<1>3. \A d \in Client : cpc'[d] # "idle" => sends'[d] \in Versions[d]
  BY DEF Announced, Goto, Active
<1> QED BY <1>1, <1>2, <1>3 DEF Announced

LEMMA NextAnnounced ==
  ASSUME Announced, TypeOK', [UploadNext]_uploadVars
  PROVE  Announced'
<1> USE DEF clientVars, poolVars
<1>0. ptasks \in Seq(Msg)
  BY DEF Announced
<1>1. CASE UNCHANGED uploadVars
  BY <1>1 DEF Announced, uploadVars
<1>2. ASSUME NEW c \in Client, Begin(c)
      PROVE  Announced'
  <2>1. PICK f \in Versions[c] : sends' = [sends EXCEPT ![c] = f]
    BY <1>2 DEF Begin
  <2>2. f \in File
    BY Constants
  <2>3. chan' \in [Client -> Seq(Answer)]
    <3>1. <<>> \in Seq(Answer)
      OBVIOUS
    <3> QED BY <1>2, <3>1 DEF Announced, Begin
  <2> QED BY <1>2, <2>1, <2>2, <2>3 DEF Announced, Begin
<1>3. ASSUME NEW c \in Client, Run(c)
      PROVE  Announced'
  <2>1. CASE SendStart(c)
    <3>1. Active(c) /\ Goto(c, "query") /\ UNCHANGED <<chan, wtask, wout, run, sends>>
      BY <2>1 DEF SendStart, Active
    <3>2. ptasks' \in Seq(Msg)
      BY <2>1, <3>1, SendsMsg, Constants DEF SendStart
    <3> QED BY <3>1, <3>2, ClientMoves
  <2>2. CASE SendQuery(c)
    <3>1. Active(c) /\ Goto(c, "bitmap") /\ UNCHANGED <<chan, wtask, wout, run, sends>>
      BY <2>2 DEF SendQuery, Active
    <3>2. ptasks' \in Seq(Msg)
      BY <2>2, <3>1, SendsMsg, Constants DEF SendQuery
    <3> QED BY <3>1, <3>2, ClientMoves
  <2>3. CASE SendChunk(c)
    <3>1. Active(c) /\ Goto(c, "ack") /\ UNCHANGED <<chan, wtask, wout, run, sends>>
      BY <2>3 DEF SendChunk, Active
    <3>2. PICK i \in Index, d \in {sends[c], "bad"} : Sends(c, "CHUNK", i, d)
      BY <2>3 DEF SendChunk, Missing
    <3>3. ptasks' \in Seq(Msg)
      BY <3>1, <3>2, SendsMsg
    <3> QED BY <3>1, <3>3, ClientMoves
  <2>4. CASE ReadBitmap(c) \/ NothingMissing(c) \/ ReadAck(c) \/ ReadFinish(c) \/ ReadError(c)
             \/ ConnectionLost(c)
    <3>1. Active(c) /\ UNCHANGED <<ptasks, wtask, wout, run, sends>>
      BY <2>4
      DEF Active, ReadBitmap, NothingMissing, ReadAck, ReadFinish, ReadError, ConnectionLost
    <3>2. \E l \in {"chunk", "finish", "ok", "failed"} : Goto(c, l)
      BY <2>4 DEF ReadBitmap, NothingMissing, ReadAck, ReadFinish, ReadError, ConnectionLost
    <3>3. chan' = chan \/ Reads(c)
      BY <2>4 DEF ReadBitmap, NothingMissing, ReadAck, ReadFinish, ReadError, ConnectionLost
    <3> QED BY <1>0, <3>1, <3>2, <3>3, ClientMoves
  <2>5. CASE ReadOther(c)
    <3>1. chan' \in [Client -> Seq(Answer)]
      BY <2>5, ReadsType DEF ReadOther
    <3> QED BY <2>5, <3>1 DEF ReadOther, Announced
  <2> QED BY <1>3, <2>1, <2>2, <2>3, <2>4, <2>5 DEF Run
<1>4. ASSUME NEW c \in Client, Killed(c)
      PROVE  Announced'
  BY <1>0, <1>4, ClientMoves DEF Killed
<1>5. ASSUME NEW w \in Worker, Take(w)
      PROVE  Announced'
  <2>1. Head(ptasks) \in Msg /\ Tail(ptasks) \in Seq(Msg)
    BY <1>0, <1>5 DEF Take
  <2>2. Head(ptasks) # NoMessage
    BY <2>1, MsgTypes
  <2>3. \A v \in Worker : wout'[v] # <<>> => wtask'[v] # NoMessage
    BY <1>5, <2>2 DEF Announced, Take
  <2> QED BY <1>5, <2>1, <2>3 DEF Announced, Take
<1>6. ASSUME NEW w \in Worker, Dropped(w)
      PROVE  Announced'
  BY <1>6 DEF Announced, Dropped
<1>7. ASSUME NEW w \in Worker, Handle(w)
      PROVE  Announced'
  <2>1. wtask[w] # NoMessage /\ UNCHANGED <<cpc, run, sends, ptasks, wtask>>
    BY <1>7 DEF Handle
  <2>2. wtask[w] \in Msg
    BY <2>1 DEF Announced
  <2>3. wout' \in [Worker -> Seq(Answer)]
    BY <1>7, <2>2, AnswerType DEF Announced, Handle
  <2>4. \A v \in Worker : wout'[v] # <<>> => wtask'[v] # NoMessage
    BY <1>7, <2>1 DEF Announced, Handle
  <2> QED BY <1>7, <2>1, <2>3, <2>4 DEF Announced, Handle
<1>8. ASSUME NEW w \in Worker, QueueReplies(w)
      PROVE  Announced'
  <2>1. wtask[w] \in Msg /\ wout[w] \in Seq(Answer) /\ <<>> \in Seq(Answer)
    BY <1>8 DEF Announced, QueueReplies
  <2>2. wtask[w].client \in Client
    BY <2>1, MsgTypes
  <2>3. chan[wtask[w].client] \o wout[w] \in Seq(Answer)
    BY <2>1, <2>2 DEF Announced
  <2>4. chan' \in [Client -> Seq(Answer)]
    BY <1>8, <2>3 DEF Announced, QueueReplies
  <2>5. wtask' \in [Worker -> Msg \cup {NoMessage}] /\ wout' \in [Worker -> Seq(Answer)]
    BY <1>8, <2>1 DEF Announced, QueueReplies
  <2>6. \A v \in Worker : wout'[v] # <<>> => wtask'[v] # NoMessage
    BY <1>8 DEF Announced, QueueReplies
  <2> QED BY <1>8, <2>4, <2>5, <2>6 DEF Announced, QueueReplies
<1>9. CASE Timer
  BY <1>9 DEF Announced, Timer
<1>10. CASE ServerRestart
  <2>1. <<>> \in Seq(Answer) /\ <<>> \in Seq(Msg)
    OBVIOUS
  <2> QED BY <1>10, <2>1 DEF Announced, ServerRestart
<1> QED
  BY <1>1, <1>2, <1>3, <1>4, <1>5, <1>6, <1>7, <1>8, <1>9, <1>10 DEF UploadNext, Serve

(***************************************************************************)
(* Whatever clients and workers do, the sessions go through a behaviour of *)
(* FileTransfer: each of its theorems holds of them here.                  *)
(***************************************************************************)
LEMMA SessionsStep ==
  ASSUME Announced, [UploadNext]_uploadVars
  PROVE  [Next]_vars
<1> USE DEF clientVars, poolVars
<1>1. CASE UNCHANGED uploadVars
  BY <1>1 DEF uploadVars
<1>2. ASSUME NEW c \in Client, Begin(c) \/ Run(c) \/ Killed(c)
      PROVE  UNCHANGED vars
  BY <1>2
  DEF Begin, Run, Killed, SendStart, SendQuery, ReadBitmap, SendChunk, NothingMissing, ReadAck,
      ReadFinish, ReadError, ReadOther, ConnectionLost
<1>3. ASSUME NEW w \in Worker, Take(w) \/ Dropped(w) \/ QueueReplies(w)
      PROVE  UNCHANGED vars
  BY <1>3 DEF Take, Dropped, QueueReplies
<1>4. ASSUME NEW w \in Worker, Handle(w)
      PROVE  Next
  <2> DEFINE m == wtask[w]
             id == FileId[m.client]
  <2>1. m \in Msg
    BY <1>4 DEF Handle, Announced
  <2>2. id \in Id /\ m.file \in File /\ m.index \in Index /\ m.data \in Data
    BY <2>1, MsgTypes
  <2>3. FileStart(id, m.file) \/ Query(id) \/ FileChunk(id, m.index, m.data)
    BY <1>4 DEF Handle
  <2> QED BY <2>2, <2>3 DEF Next, handleClientMessage
<1>5. CASE Timer
  BY <1>5 DEF Timer, Next
<1>6. CASE ServerRestart
  BY <1>6 DEF ServerRestart, Next
<1> QED BY <1>1, <1>2, <1>3, <1>4, <1>5, <1>6 DEF UploadNext, Serve

(* The sessions behind clients, connections and pool behave as FileTransfer *)
(* says, so that everything proved of them alone holds in the whole.        *)
THEOREM SessionsComposed == UploadSpec => Spec
<1>1. UploadInit => Init
  BY DEF UploadInit
<1>2. UploadInit => FileInv
  BY <1>1, InitFileInv
<1>3. FileInv /\ Announced /\ [UploadNext]_uploadVars => [Next]_vars /\ FileInv' /\ Announced'
  BY SessionsStep, FileStep, NextAnnounced DEF FileInv
<1> QED BY <1>1, <1>2, <1>3, InitAnnounced, PTL DEF UploadSpec, Spec

(***************************************************************************)
(* Sessions that are sent one file only.                                   *)
(***************************************************************************)
Part(f, b) == [i \in Index |-> IF i \in b THEN f ELSE "hole"]

Kept(st, content, f) ==
  st.file = f /\ st.bitmap \subseteq 0..(Total[f] - 1) /\ content = Part(f, st.bitmap)

(* If path[id] is the only file announced under an id, a session has its    *)
(* marked chunks in the temporary file and nothing else.                    *)
Intact(path) == \A id \in Id : Live(id) => Kept(g_states[id], temp[id], path[id])

Stored(final, path, id) == final[id] = Whole(path[id])

Finishes(answers) == \E n \in 1..Len(answers) : answers[n].type = "FINISH_ACK"

LEMMA IntactOne ==
  ASSUME NEW path, Intact(path), NEW id \in Id,
         \A k \in Id \ {id} : g_states'[k] = g_states[k] /\ temp'[k] = temp[k],
         g_states'[id].fd # 0 => Kept(g_states'[id], temp'[id], path[id])
  PROVE  Intact(path)'
<1> SUFFICES ASSUME NEW k \in Id, g_states'[k].fd # 0
             PROVE  Kept(g_states'[k], temp'[k], path[k])
  BY DEF Intact, Live, Kept
<1>1. CASE k = id
  BY <1>1
<1>2. CASE k # id
  BY <1>2 DEF Intact, Live
<1> QED BY <1>1, <1>2

(* The chunk that is stored is the file's, wherever there was something     *)
(* before; when the counter is full, the whole file is there.               *)
LEMMA ChunkKept ==
  ASSUME FileInv, NEW f \in File, NEW id \in Id, Kept(g_states[id], temp[id], f),
         NEW i \in Index, NEW d \in {f, "bad"}, Accepted(id, i, d),
         NEW r \in Written(temp[id][i], d)
  PROVE  /\ Kept(Marked(g_states[id], i), [temp[id] EXCEPT ![i] = r], f)
         /\ Full(Marked(g_states[id], i)) => [temp[id] EXCEPT ![i] = r] = Whole(f)
<1> DEFINE st == g_states[id]
           mk == Marked(st, i)
<1>1. st \in Session /\ clock \in 0..MaxTime /\ st.received_count = Cardinality(st.bitmap)
  BY SessionTypes DEF FileInv, Accepted, BitmapMatchesDisk, Faithful, TypeOK
<1>2. /\ mk.received_count = Cardinality(mk.bitmap) /\ mk.bitmap = st.bitmap \cup {i}
      /\ mk.file = st.file
  BY <1>1, MarkedSession
<1>3. Kept(st, temp[id], f) /\ d = f /\ i < Total[st.file]
  BY DEF Accepted
<1>4. f \in File /\ Total[f] \in Nat /\ Total[f] \in 1..MaxChunks /\ f \notin {"hole", "odd"} /\ i \in Nat
  BY Constants, FileTransferAssumption DEF Index
<1>5. i \in 0..(Total[f] - 1)
  BY <1>3, <1>4 DEF Kept
<1>6. temp[id][i] # "odd"
  BY <1>3, <1>4 DEF Kept, Part
<1>7. r = f
  BY <1>3, <1>6 DEF Written
<1>8. [temp[id] EXCEPT ![i] = r] = Part(f, mk.bitmap)
  BY <1>2, <1>3, <1>7 DEF Kept, Part
<1>9. Kept(mk, [temp[id] EXCEPT ![i] = r], f)
  BY <1>2, <1>3, <1>5, <1>8 DEF Kept
<1>10. ASSUME Full(mk)
       PROVE  [temp[id] EXCEPT ![i] = r] = Whole(f)
  <2>1. mk.file = f /\ mk.bitmap \subseteq 0..(Total[f] - 1)
    BY <1>9 DEF Kept
  <2>2. Cardinality(mk.bitmap) = Total[f]
    BY <1>2, <1>10, <2>1 DEF Full
  <2>3. IsFiniteSet(0..(Total[f] - 1)) /\ Cardinality(0..(Total[f] - 1)) = Total[f]
    <3>1. Total[f] - 1 \in Int /\ ~ (0 > Total[f] - 1) /\ (Total[f] - 1) - 0 + 1 = Total[f]
      BY <1>4
    <3> QED BY <3>1, FS_Interval
  <2>4. mk.bitmap = 0..(Total[f] - 1)
    BY <2>1, <2>2, <2>3, FS_Subset
  <2>5. \A j \in Index : j \in mk.bitmap <=> j < Total[f]
    BY <1>4, <2>4 DEF Index
  <2> HIDE DEF mk
  <2>6. Part(f, mk.bitmap) = Whole(f)
    BY <2>5 DEF Part, Whole
  <2> QED BY <1>8, <2>6
<1> QED BY <1>9, <1>10

LEMMA HandledIntact ==
  ASSUME FileInv, NEW path \in [Id -> File], Intact(path), Faults \cap {"pwrite", "rename"} = {},
         NEW id \in Id, NEW i \in Index, NEW d \in {path[id], "bad"},
         FileStart(id, path[id]) \/ Query(id) \/ FileChunk(id, i, d)
  PROVE  /\ Intact(path)'
         /\ \A k \in Id : Stored(published, path, k) => Stored(published', path, k)
         /\ Finishes(replies') => Stored(published', path, id)
<1>0. /\ g_states \in [Id -> Session \cup {NoState}] /\ temp \in [Id -> Content \cup {NoFile}]
      /\ published \in [Id -> Content \cup {NoFile}] /\ NoState.fd = 0
  BY DEF FileInv, TypeOK, NoState
<1>1. \A b \in BOOLEAN : /\ ~ Finishes(<<Reply("QUERY_RESPONSE", id, b)>>)
                         /\ ~ Finishes(Error(id))
                         /\ ~ Finishes(Append(Error(id), Reply("CHUNK_ACK", id, b)))
                         /\ ~ Finishes(<<Reply("CHUNK_ACK", id, b)>>)
                         /\ ~ Finishes(<<Reply("CHUNK_ACK", id, b), Reply("ERROR", id, FALSE)>>)
  BY DEF Finishes, Reply, Error
<1>2. Ack(id, i) = Reply("CHUNK_ACK", id, i \notin g_states[id].bitmap)
  BY DEF Ack
<1>3. ASSUME g_states' = [g_states EXCEPT ![id] = g_states'[id]],
             temp' = [temp EXCEPT ![id] = temp'[id]],
             g_states'[id].fd # 0 => Kept(g_states'[id], temp'[id], path[id])
      PROVE  Intact(path)'
  <2>1. \A k \in Id \ {id} : g_states'[k] = g_states[k] /\ temp'[k] = temp[k]
    BY <1>0, <1>3
  <2> QED BY <1>3, <2>1, IntactOne
<1>4. ASSUME UNCHANGED published
      PROVE  \A k \in Id : Stored(published, path, k) => Stored(published', path, k)
  BY <1>4 DEF Stored
<1>. path[id] \in File
  OBVIOUS
<1>5. Live(id) => Kept(g_states[id], temp[id], path[id]) /\ g_states[id] \in Session
  BY SessionTypes DEF FileInv, Intact
<1>6. Kept([file |-> path[id], bitmap |-> {}, received_count |-> 0,
            fd |-> 0, last_update_ts |-> clock], Empty, path[id])
  BY DEF Kept, Empty, Part
<1>7. CASE StartResumes(id, path[id]) \/ (Query(id) /\ Live(id))
  <2>1. /\ Live(id) /\ g_states' = [g_states EXCEPT ![id].last_update_ts = clock]
        /\ UNCHANGED <<temp, published>> /\ replies' = <<Reply("QUERY_RESPONSE", id, TRUE)>>
    BY <1>7 DEF StartResumes, Query
  <2>2. /\ g_states'[id] = [g_states[id] EXCEPT !.last_update_ts = clock]
        /\ g_states' = [g_states EXCEPT ![id] = g_states'[id]]
    BY <1>0, <2>1
  <2>3. g_states'[id].file = g_states[id].file /\ g_states'[id].bitmap = g_states[id].bitmap
    BY <1>5, <2>1, <2>2 DEF Session
  <2>4. temp' = [temp EXCEPT ![id] = temp'[id]]
    BY <1>0, <2>1
  <2>5. Kept(g_states'[id], temp'[id], path[id])
    BY <1>5, <2>1, <2>3 DEF Kept
  <2> QED BY <1>1, <1>3, <1>4, <2>1, <2>2, <2>4, <2>5
<1>8. CASE Query(id) /\ ~ Live(id)
  BY <1>1, <1>4, <1>8 DEF Query, Intact, Live
<1>9. CASE StartOpenFails(id, path[id]) \/ StartTruncateFails(id, path[id])
           \/ StartNoMemory(id, path[id])
  <2>1. g_states' = [g_states EXCEPT ![id] = NoState] /\ UNCHANGED published /\ replies' = Error(id)
        /\ temp' \in {temp, [temp EXCEPT ![id] = Empty]}
    BY <1>9 DEF StartOpenFails, StartTruncateFails, StartNoMemory
  <2>2. g_states'[id] = NoState /\ g_states' = [g_states EXCEPT ![id] = g_states'[id]]
        /\ temp' = [temp EXCEPT ![id] = temp'[id]]
    BY <1>0, <2>1
  <2> QED BY <1>0, <1>1, <1>3, <1>4, <2>1, <2>2
<1>10. CASE StartCreates(id, path[id])
  <2>1. PICK n \in 1..MaxFds :
          g_states' = [g_states EXCEPT ![id] =
            [file |-> path[id], bitmap |-> {}, received_count |-> 0, fd |-> n, last_update_ts |-> clock]]
    BY <1>10 DEF StartCreates
  <2>2. /\ temp' = [temp EXCEPT ![id] = Empty] /\ UNCHANGED published
        /\ replies' = <<Reply("QUERY_RESPONSE", id, TRUE)>>
    BY <1>10 DEF StartCreates
  <2>3. /\ g_states'[id].file = path[id] /\ g_states'[id].bitmap = {} /\ temp'[id] = Empty
        /\ g_states' = [g_states EXCEPT ![id] = g_states'[id]]
        /\ temp' = [temp EXCEPT ![id] = temp'[id]]
    BY <1>0, <2>1, <2>2
  <2>4. Kept(g_states'[id], temp'[id], path[id])
    BY <2>3 DEF Kept, Empty, Part
  <2> QED BY <1>1, <1>3, <1>4, <2>2, <2>3, <2>4
<1>11. CASE ChunkRejected(id, i, d)
  <2>1. UNCHANGED <<g_states, temp, published>> /\ ~ Finishes(replies')
    BY <1>1, <1>11 DEF ChunkRejected
  <2> QED BY <1>4, <2>1 DEF Intact, Live
<1>12. CASE ChunkWriteFails(id, i, d)
  BY <1>12 DEF ChunkWriteFails
<1>13. CASE ChunkStored(id, i, d) \/ FinishReadFails(id, i, d)
  <2>1. /\ Accepted(id, i, d) /\ UNCHANGED published
        /\ g_states' = [g_states EXCEPT ![id] = Marked(g_states[id], i)]
        /\ replies' \in {<<Ack(id, i)>>, <<Ack(id, i), Reply("ERROR", id, FALSE)>>}
    BY <1>13 DEF ChunkStored, FinishReadFails
  <2>2. PICK r \in Written(temp[id][i], d) : temp' = [temp EXCEPT ![id][i] = r]
    BY <1>13 DEF ChunkStored, FinishReadFails
  <2>3. /\ g_states'[id] = Marked(g_states[id], i) /\ temp'[id] = [temp[id] EXCEPT ![i] = r]
        /\ g_states' = [g_states EXCEPT ![id] = g_states'[id]]
        /\ temp' = [temp EXCEPT ![id] = temp'[id]]
    BY <1>0, <2>1, <2>2
  <2>4. Kept(g_states'[id], temp'[id], path[id])
    <3>1. /\ Kept(g_states[id], temp[id], path[id])
          /\ Kept(Marked(g_states[id], i), [temp[id] EXCEPT ![i] = r], path[id])
      BY <1>5, <2>1, ChunkKept DEF Accepted
    <3> QED BY <2>3, <3>1
  <2>5. ~ Finishes(replies')
    BY <1>1, <1>2, <2>1
  <2> QED BY <1>3, <1>4, <2>1, <2>3, <2>4, <2>5
<1>14. CASE Finish(id, i, d)
  <2>1. /\ Accepted(id, i, d) /\ g_states' = [g_states EXCEPT ![id] = NoState]
        /\ Full(Marked(g_states[id], i))
    BY <1>14 DEF Finish
  <2>2. PICK r \in Written(temp[id][i], d) :
          /\ published' = [published EXCEPT ![id] = [temp[id] EXCEPT ![i] = r]]
          /\ temp' = [temp EXCEPT ![id] = NoFile]
    BY <1>14 DEF Finish
  <2>3. [temp[id] EXCEPT ![i] = r] = Whole(path[id])
    BY <1>5, <2>1, ChunkKept DEF Accepted
  <2>4. /\ g_states'[id].fd = 0 /\ g_states' = [g_states EXCEPT ![id] = g_states'[id]]
        /\ temp' = [temp EXCEPT ![id] = temp'[id]]
    BY <1>0, <2>1, <2>2
  <2>5. published'[id] = Whole(path[id]) /\ \A k \in Id \ {id} : published'[k] = published[k]
    BY <1>0, <2>2, <2>3
  <2> QED BY <1>3, <2>4, <2>5 DEF Stored
<1>15. CASE FinishMismatch(id, i, d)
  <2>1. Accepted(id, i, d) /\ Full(Marked(g_states[id], i))
    BY <1>15 DEF FinishMismatch
  <2>2. PICK r \in Written(temp[id][i], d) :
          ~ CrcMatches([temp[id] EXCEPT ![i] = r], Marked(g_states[id], i).file)
    BY <1>15 DEF FinishMismatch
  <2>3. /\ [temp[id] EXCEPT ![i] = r] = Whole(path[id])
        /\ Marked(g_states[id], i).file = path[id]
    <3>1. /\ [temp[id] EXCEPT ![i] = r] = Whole(path[id])
          /\ Kept(Marked(g_states[id], i), [temp[id] EXCEPT ![i] = r], path[id])
      BY <1>5, <2>1, ChunkKept DEF Accepted
    <3> QED BY <3>1 DEF Kept
  <2> QED BY <2>2, <2>3 DEF CrcMatches
<1> QED
  BY <1>7, <1>8, <1>9, <1>10, <1>11, <1>12, <1>13, <1>14, <1>15 DEF FileStart, FileChunk

(***************************************************************************)
(* What a FINISH_ACK on its way says is true, and stays true.              *)
(***************************************************************************)
Told(path) ==
  /\ \A c \in Client : Finishes(chan[c]) \/ cpc[c] = "ok" => Stored(published, path, FileId[c])
  /\ \A w \in Worker : Finishes(wout[w]) => Stored(published, path, FileId[wtask[w].client])

LEMMA FinishesParts ==
  ASSUME NEW s \in Seq(Answer), NEW t \in Seq(Answer)
  PROVE  /\ ~ Finishes(<<>>)
         /\ s # <<>> /\ Finishes(Tail(s)) => Finishes(s)
         /\ s # <<>> /\ Head(s).type = "FINISH_ACK" => Finishes(s)
         /\ Finishes(s \o t) => Finishes(s) \/ Finishes(t)
<1>1. ~ Finishes(<<>>)
  BY DEF Finishes
<1>2. ASSUME s # <<>>, Finishes(Tail(s)) PROVE Finishes(s)
  <2>1. PICK n \in 1..Len(Tail(s)) : Tail(s)[n].type = "FINISH_ACK"
    BY <1>2 DEF Finishes
  <2>2. n + 1 \in 1..Len(s) /\ s[n + 1] = Tail(s)[n]
    BY <1>2
  <2> QED BY <2>1, <2>2 DEF Finishes
<1>3. ASSUME s # <<>>, Head(s).type = "FINISH_ACK" PROVE Finishes(s)
  <2>1. 1 \in 1..Len(s) /\ Head(s) = s[1]
    BY <1>3
  <2> QED BY <1>3, <2>1 DEF Finishes
<1>4. ASSUME Finishes(s \o t) PROVE Finishes(s) \/ Finishes(t)
  <2>1. PICK n \in 1..Len(s \o t) : (s \o t)[n].type = "FINISH_ACK"
    BY <1>4 DEF Finishes
  <2>2. CASE n <= Len(s)
    <3>1. n \in 1..Len(s) /\ (s \o t)[n] = s[n]
      BY <2>2
    <3> QED BY <2>1, <3>1 DEF Finishes
  <2>3. CASE ~ (n <= Len(s))
    <3>1. n - Len(s) \in 1..Len(t) /\ (s \o t)[n] = t[n - Len(s)]
      BY <2>3
    <3> QED BY <2>1, <3>1 DEF Finishes
  <2> QED BY <2>2, <2>3
<1> QED BY <1>1, <1>2, <1>3, <1>4

(* A step of the sessions, seen from outside.                               *)
LEMMA SessionsIntact ==
  ASSUME FileInv, Announced, NEW path \in [Id -> File], Intact(path),
         \A c \in Client : Versions[c] \subseteq {path[FileId[c]]},
         Faults \cap {"pwrite", "rename"} = {}, [UploadNext]_uploadVars
  PROVE  /\ Intact(path)' /\ \A k \in Id : Stored(published, path, k) => Stored(published', path, k)
         /\ \A w \in Worker : Handle(w) /\ Finishes(replies')
              => Stored(published', path, FileId[wtask[w].client])
<1> USE DEF clientVars, poolVars
<1>1. ASSUME UNCHANGED <<g_states, temp, published>>
      PROVE  Intact(path)' /\ \A k \in Id : Stored(published, path, k) => Stored(published', path, k)
  BY <1>1 DEF Intact, Live, Stored
<1>2. ASSUME NEW w \in Worker, Handle(w)
      PROVE  /\ Intact(path)' /\ \A k \in Id : Stored(published, path, k) => Stored(published', path, k)
             /\ Finishes(replies') => Stored(published', path, FileId[wtask[w].client])
  <2> DEFINE m == wtask[w]
             id == FileId[m.client]
  <2>1. m \in Msg
    BY <1>2 DEF Handle, Announced
  <2>2. /\ id \in Id /\ m.index \in Index /\ m.client \in Client
        /\ m.file \in Versions[m.client] /\ m.data \in {m.file, "bad"}
    BY <2>1, MsgTypes
  <2>3. m.file = path[id]
    BY <2>2
  <2>4. m.data \in {path[id], "bad"}
    BY <2>2, <2>3
  <2>5. FileStart(id, path[id]) \/ Query(id) \/ FileChunk(id, m.index, m.data)
    BY <1>2, <2>3 DEF Handle
  <2> HIDE DEF m, id
  <2>6. /\ Intact(path)' /\ \A k \in Id : Stored(published, path, k) => Stored(published', path, k)
        /\ Finishes(replies') => Stored(published', path, id)
    BY <2>2, <2>4, <2>5, HandledIntact
  <2> QED BY <2>6 DEF id, m
<1>3. CASE ServerRestart
  <2>1. published' = published /\ \A k \in Id : g_states'[k].fd = 0
    BY <1>3 DEF ServerRestart, Restart, NoState
  <2> QED BY <1>2, <2>1 DEF Intact, Live, Stored
<1>4. CASE Timer
  <2>1. CASE ReadClock \/ Tick \/ ClockSetBack
    BY <1>1, <1>2, <2>1 DEF ReadClock, Tick, ClockSetBack
  <2>2. CASE Cleanup
    <3>1. published' = published /\ \E ids : Drop(ids)
      BY <2>2 DEF Cleanup
    <3>2. PICK ids : Drop(ids)
      BY <3>1
    <3>3. \A k \in Id : g_states'[k] = NoState \/ (g_states'[k] = g_states[k] /\ temp'[k] = temp[k])
      BY <3>2 DEF Drop
    <3>4. Intact(path)'
      BY <3>3 DEF Intact, Live, NoState
    <3> QED BY <1>2, <3>1, <3>4 DEF Stored
  <2> QED BY <1>4, <2>1, <2>2 DEF Timer
<1>5. CASE UNCHANGED vars
  BY <1>1, <1>2, <1>5 DEF vars
<1>6. CASE UNCHANGED uploadVars
  BY <1>5, <1>6 DEF uploadVars
<1>7. ASSUME NEW c \in Client, Begin(c) \/ Run(c) \/ Killed(c)
      PROVE  UNCHANGED vars
  BY <1>7
  DEF Begin, Run, Killed, SendStart, SendQuery, ReadBitmap, SendChunk, NothingMissing, ReadAck,
      ReadFinish, ReadError, ReadOther, ConnectionLost
<1>8. ASSUME NEW w \in Worker, Take(w) \/ Dropped(w) \/ QueueReplies(w)
      PROVE  UNCHANGED vars
  BY <1>8 DEF Take, Dropped, QueueReplies
<1> QED BY <1>2, <1>3, <1>4, <1>5, <1>6, <1>7, <1>8 DEF UploadNext, Serve

(* A step of clients that queues no reply.                                  *)
LEMMA ToldClient ==
  ASSUME NEW path, Announced, Told(path),
         \A k \in Id : Stored(published, path, k) => Stored(published', path, k),
         UNCHANGED <<wtask, wout>>,
         \A c \in Client : Finishes(chan'[c]) \/ cpc'[c] = "ok" => Finishes(chan[c]) \/ cpc[c] = "ok"
  PROVE  Told(path)'
<1>1. ASSUME NEW c \in Client, Finishes(chan'[c]) \/ cpc'[c] = "ok"
      PROVE  Stored(published', path, FileId[c])
  BY <1>1, Constants DEF Told
<1>2. ASSUME NEW w \in Worker, Finishes(wout'[w])
      PROVE  Stored(published', path, FileId[wtask'[w].client])
  <2>1. wout[w] # <<>> /\ Finishes(wout[w])
    BY <1>2 DEF Finishes
  <2>2. wtask[w] \in Msg
    BY <2>1 DEF Announced
  <2> QED BY <2>1, <2>2, MsgTypes DEF Told
<1> QED BY <1>1, <1>2 DEF Told, Finishes

(* A FINISH_ACK is queued only after the rename, and a client succeeds only *)
(* when it has read one.                                                    *)
LEMMA NextTold ==
  ASSUME FileInv, FileInv', Announced, Announced', NEW path \in [Id -> File],
         Intact(path), Told(path),
         \A c \in Client : Versions[c] \subseteq {path[FileId[c]]},
         Faults \cap {"pwrite", "rename"} = {}, [UploadNext]_uploadVars
  PROVE  Told(path)'
<1> USE DEF clientVars, poolVars
<1>0. \A k \in Id : Stored(published, path, k) => Stored(published', path, k)
  BY SessionsIntact
<1>1. CASE UNCHANGED uploadVars
  BY <1>0, <1>1, ToldClient DEF uploadVars
<1>2. ASSUME NEW c \in Client, Begin(c)
      PROVE  Told(path)'
  <2>1. cpc'[c] = "start" /\ chan'[c] = <<>> /\ UNCHANGED <<wtask, wout>>
    BY <1>2 DEF Announced, Begin
  <2>2. \A k \in Client \ {c} : cpc'[k] = cpc[k] /\ chan'[k] = chan[k]
    BY <1>2 DEF Announced, Begin
  <2>3. ~ Finishes(<<>>)
    BY DEF Finishes
  <2> QED BY <1>0, <2>1, <2>2, <2>3, ToldClient
<1>3. ASSUME NEW c \in Client, Run(c) \/ Killed(c)
      PROVE  Told(path)'
  <2>1. UNCHANGED <<wtask, wout>>
    BY <1>3
    DEF Run, Killed, SendStart, SendQuery, ReadBitmap, SendChunk, NothingMissing, ReadAck, ReadFinish,
        ReadError, ReadOther, ConnectionLost
  <2>2. chan' = chan \/ Reads(c)
    BY <1>3
    DEF Run, Killed, SendStart, SendQuery, ReadBitmap, SendChunk, NothingMissing, ReadAck, ReadFinish,
        ReadError, ReadOther, ConnectionLost
  <2>3. chan[c] \in Seq(Answer)
    BY DEF Announced
  <2>4. \A k \in Client : Finishes(chan'[k]) => Finishes(chan[k])
    <3>1. CASE chan' = chan
      BY <3>1
    <3>2. CASE Reads(c)
      <4>1. /\ chan[c] # <<>> /\ chan'[c] = Tail(chan[c])
            /\ \A k \in Client \ {c} : chan'[k] = chan[k]
        BY <3>2 DEF Announced, Reads
      <4>2. Finishes(Tail(chan[c])) => Finishes(chan[c])
        BY <2>3, <4>1, FinishesParts
      <4> QED BY <4>1, <4>2
    <3> QED BY <2>2, <3>1, <3>2
  <2>5. \A k \in Client : cpc'[k] = "ok" => Finishes(chan[k]) \/ cpc[k] = "ok"
    <3>1. CASE ReadFinish(c)
      <4>1. Finishes(chan[c])
        <5>1. chan[c] # <<>> /\ Head(chan[c]).type = "FINISH_ACK"
          BY <3>1 DEF ReadFinish, Reads, Got
        <5> QED BY <2>3, <5>1, FinishesParts
      <4> QED BY <3>1, <4>1 DEF ReadFinish, Goto, Announced
    <3>2. CASE ~ ReadFinish(c)
      <4>1. \/ cpc' = cpc
            \/ \E l \in {"query", "bitmap", "chunk", "ack", "finish", "failed"} : Goto(c, l)
        BY <1>3, <3>2
        DEF Run, Killed, SendStart, SendQuery, ReadBitmap, SendChunk, NothingMissing, ReadAck,
            ReadError, ReadOther, ConnectionLost
      <4> QED BY <4>1 DEF Goto, Announced
    <3> QED BY <3>1, <3>2
  <2> QED BY <1>0, <2>1, <2>4, <2>5, ToldClient
<1>4. ASSUME UNCHANGED <<chan, cpc>>,
             \A w \in Worker : Finishes(wout'[w]) => Stored(published', path, FileId[wtask'[w].client])
      PROVE  Told(path)'
  <2>1. ASSUME NEW c \in Client, Finishes(chan'[c]) \/ cpc'[c] = "ok"
        PROVE  Stored(published', path, FileId[c])
    BY <1>0, <1>4, <2>1, Constants DEF Told
  <2> QED BY <1>4, <2>1 DEF Told
<1>5. ASSUME NEW v \in Worker, Finishes(wout[v])
      PROVE  Stored(published', path, FileId[wtask[v].client]) /\ wtask[v] \in Msg
  <2>1. wout[v] # <<>>
    BY <1>5 DEF Finishes
  <2>2. wtask[v] \in Msg
    BY <2>1 DEF Announced
  <2> QED BY <1>0, <1>5, <2>2, MsgTypes DEF Told
<1>6. ASSUME NEW w \in Worker, Take(w) \/ Dropped(w)
      PROVE  Told(path)'
  <2>1. /\ UNCHANGED <<chan, cpc, wout>> /\ wout[w] = <<>>
        /\ \A v \in Worker \ {w} : wtask'[v] = wtask[v]
    BY <1>6 DEF Take, Dropped, Announced
  <2>2. ~ Finishes(wout[w])
    BY <2>1 DEF Finishes
  <2> QED BY <1>4, <1>5, <2>1, <2>2
<1>7. ASSUME NEW w \in Worker, Handle(w)
      PROVE  Told(path)'
  <2>1. /\ UNCHANGED <<chan, cpc, wtask>>
        /\ \A v \in Worker \ {w} : wout'[v] = wout[v]
    BY <1>7 DEF Handle, Announced
  <2>2. Finishes(wout'[w]) => Finishes(replies')
    <3>1. PICK F : F = g_states'[FileId[wtask[w].client]]
      OBVIOUS
    <3>2. wout'[w] = [n \in 1..Len(replies') |->
             [type |-> replies'[n].type, ok |-> replies'[n].ok, index |-> wtask[w].index,
              bitmap |-> F.bitmap, file |-> F.file]]
      BY <1>7, <3>1 DEF Handle, Announced
    <3>3. replies' \in Seq(ReplySet) /\ Len(replies') \in Nat
      BY DEF FileInv, TypeOK, ReplySet
    <3>4. Len(wout'[w]) = Len(replies') /\ \A n \in 1..Len(replies') : wout'[w][n].type = replies'[n].type
      BY <3>2, <3>3
    <3> QED BY <3>4 DEF Finishes
  <2>3. Finishes(wout'[w]) => Stored(published', path, FileId[wtask[w].client])
    BY <1>7, <2>2, SessionsIntact
  <2> QED BY <1>4, <1>5, <2>1, <2>3
<1>8. ASSUME NEW w \in Worker, QueueReplies(w)
      PROVE  Told(path)'
  <2> DEFINE c == wtask[w].client
  <2>1. /\ wtask[w] \in Msg /\ c \in Client /\ wout[w] \in Seq(Answer) /\ chan[c] \in Seq(Answer)
    <3>1. wtask[w] \in Msg
      BY <1>8 DEF QueueReplies, Announced
    <3> QED BY <3>1, MsgTypes DEF Announced
  <2>2. /\ cpc' = cpc /\ wout'[w] = <<>>
        /\ \A v \in Worker \ {w} : wout'[v] = wout[v] /\ wtask'[v] = wtask[v]
    BY <1>8 DEF QueueReplies, Announced
  <2>3. /\ \A k \in Client \ {c} : chan'[k] = chan[k]
        /\ chan'[c] = chan[c] \/ chan'[c] = chan[c] \o wout[w]
    BY <1>8, <2>1 DEF QueueReplies, Announced
  <2>4. ASSUME NEW k \in Client, Finishes(chan'[k]) \/ cpc'[k] = "ok"
        PROVE  Stored(published', path, FileId[k])
    <3>1. CASE Finishes(chan[k]) \/ cpc[k] = "ok"
      BY <1>0, <3>1, Constants DEF Told
    <3>2. CASE ~ (Finishes(chan[k]) \/ cpc[k] = "ok")
      <4>1. k = c /\ Finishes(chan[c] \o wout[w])
        BY <2>2, <2>3, <2>4, <3>2
      <4>2. Finishes(wout[w])
        BY <2>1, <3>2, <4>1, FinishesParts
      <4> QED BY <1>5, <4>1, <4>2
    <3> QED BY <3>1, <3>2
  <2>5. ASSUME NEW v \in Worker, Finishes(wout'[v])
        PROVE  Stored(published', path, FileId[wtask'[v].client])
    <3>1. v # w
      BY <2>2, <2>5 DEF Finishes
    <3> QED BY <1>5, <2>2, <2>5, <3>1
  <2> QED BY <2>4, <2>5 DEF Told
<1>9. CASE Timer
  BY <1>4, <1>5, <1>9 DEF Timer
<1>10. CASE ServerRestart
  <2>1. UNCHANGED <<chan, cpc>> /\ \A w \in Worker : ~ Finishes(wout'[w])
    BY <1>10 DEF ServerRestart, Finishes
  <2> QED BY <1>4, <2>1
<1> QED
  BY <1>1, <1>2, <1>3, <1>6, <1>7, <1>8, <1>9, <1>10 DEF UploadNext, Serve

(* Killed and restarted any number of times, with any number of clients and *)
(* workers, read errors and failing opens: a client that reports success    *)
(* has its file, whole, at the final path.  What this takes is that a path  *)
(* keeps its file, that paths with different files have different ids, and  *)
(* that neither pwrite nor rename fails: a mismatch found after the last    *)
(* chunk, or a lost rename, is a success to it (main_client.cpp:899).       *)
THEOREM SuccessCorrect ==
  ASSUME NEW path \in [Id -> File], \A c \in Client : Versions[c] \subseteq {path[FileId[c]]},
         Faults \cap {"pwrite", "rename"} = {}
  PROVE  UploadSpec => []SuccessIsPublished
<1> DEFINE Inv == FileInv /\ Announced /\ Intact(path) /\ Told(path)
<1>1. UploadInit => Inv
  <2> SUFFICES ASSUME UploadInit
               PROVE  Inv
    OBVIOUS
  <2>1. Init
    BY DEF UploadInit
  <2>2. Intact(path)
    BY <2>1 DEF Init, Intact, Live, NoState
  <2>3. Told(path)
    BY DEF UploadInit, Told, Finishes
  <2> QED BY <2>1, <2>2, <2>3, InitFileInv, InitAnnounced
<1>2. Inv /\ [UploadNext]_uploadVars => Inv'
  <2> SUFFICES ASSUME FileInv, Announced, Intact(path), Told(path), [UploadNext]_uploadVars
               PROVE  FileInv' /\ Announced' /\ Intact(path)' /\ Told(path)'
    OBVIOUS
  <2>1. FileInv'
    BY SessionsStep, FileStep
  <2>2. Announced'
    BY <2>1, NextAnnounced DEF FileInv
  <2>3. Intact(path)'
    BY SessionsIntact
  <2>4. Told(path)'
    BY <2>1, <2>2, NextTold
  <2> QED BY <2>1, <2>2, <2>3, <2>4
<1>3. Inv => SuccessIsPublished
  <2> SUFFICES ASSUME Inv, NEW c \in Client, cpc[c] = "ok"
               PROVE  published[FileId[c]] = Whole(sends[c])
    BY DEF SuccessIsPublished
  <2>1. sends[c] = path[FileId[c]]
    BY DEF Announced
  <2>2. Stored(published, path, FileId[c])
    BY DEF Told
  <2> QED BY <2>1, <2>2 DEF Stored
<1> HIDE DEF Inv
<1> QED BY <1>1, <1>2, <1>3, PTL DEF UploadSpec

(***************************************************************************)
(* Every message is answered, and the client looks out for the answer.     *)
(***************************************************************************)
AnswerTo(type) == IF type = "CHUNK" THEN "CHUNK_ACK" ELSE "QUERY_RESPONSE"

Outstanding(c, type, i) == Pending(c, type, i) \/ Comes(c, AnswerTo(type), i)

LEMMA BringsParts ==
  ASSUME NEW s \in Seq(Answer), NEW t \in Seq(Answer), NEW type, NEW i
  PROVE  /\ ~ Brings(<<>>, type, i)
         /\ Brings(s, type, i) => Brings(s \o t, type, i)
         /\ Brings(t, type, i) => Brings(s \o t, type, i)
         /\ s # <<>> /\ Brings(s, type, i) /\ Head(s).type # "ERROR"
            /\ ~ (Head(s).type = type /\ (type = "CHUNK_ACK" => Head(s).index = i))
              => Brings(Tail(s), type, i)
<1>1. ~ Brings(<<>>, type, i)
  BY DEF Brings
<1>2. ASSUME Brings(s, type, i) PROVE Brings(s \o t, type, i)
  <2>1. PICK n \in 1..Len(s) :
          \/ s[n].type = "ERROR"
          \/ s[n].type = type /\ (type = "CHUNK_ACK" => s[n].index = i)
    BY <1>2 DEF Brings
  <2>2. n \in 1..Len(s \o t) /\ (s \o t)[n] = s[n]
    OBVIOUS
  <2> QED BY <2>1, <2>2 DEF Brings
<1>3. ASSUME Brings(t, type, i) PROVE Brings(s \o t, type, i)
  <2>1. PICK n \in 1..Len(t) :
          \/ t[n].type = "ERROR"
          \/ t[n].type = type /\ (type = "CHUNK_ACK" => t[n].index = i)
    BY <1>3 DEF Brings
  <2>2. Len(s) + n \in 1..Len(s \o t) /\ (s \o t)[Len(s) + n] = t[n]
    OBVIOUS
  <2> QED BY <2>1, <2>2 DEF Brings
<1>4. ASSUME s # <<>>, Brings(s, type, i), Head(s).type # "ERROR",
             ~ (Head(s).type = type /\ (type = "CHUNK_ACK" => Head(s).index = i))
      PROVE  Brings(Tail(s), type, i)
  <2>1. PICK n \in 1..Len(s) :
          \/ s[n].type = "ERROR"
          \/ s[n].type = type /\ (type = "CHUNK_ACK" => s[n].index = i)
    BY <1>4 DEF Brings
  <2>2. n # 1
    BY <1>4, <2>1
  <2>3. n - 1 \in 1..Len(Tail(s)) /\ Tail(s)[n - 1] = s[n]
    BY <1>4, <2>2
  <2> QED BY <2>1, <2>3 DEF Brings
<1> QED BY <1>1, <1>2, <1>3, <1>4

(* handleClientMessage answers a message of a known type with what the      *)
(* client looks out for, or with an error.                                  *)
LEMMA Answered ==
  ASSUME Announced, FileInv', NEW w \in Worker, Handle(w)
  PROVE  Brings(wout'[w], AnswerTo(wtask[w].type), wtask[w].index)
<1> DEFINE m == wtask[w]
           id == FileId[m.client]
           F == g_states'[id]
<1>1. m \in Msg /\ id \in Id /\ m.index \in Index /\ m.data \in Data /\ m.file \in File
  <2>1. m \in Msg
    BY DEF Handle, Announced
  <2> QED BY <2>1, MsgTypes
<1>2. wout'[w] = [n \in 1..Len(replies') |->
         [type |-> replies'[n].type, ok |-> replies'[n].ok, index |-> m.index,
          bitmap |-> F.bitmap, file |-> F.file]]
  BY DEF Handle, Announced
<1>3. \/ m.type = "START" /\ FileStart(id, m.file)
      \/ m.type = "QUERY" /\ Query(id)
      \/ m.type = "CHUNK" /\ FileChunk(id, m.index, m.data)
  BY DEF Handle
<1> HIDE DEF m, id, F
<1>4. replies' \in Seq(ReplySet) /\ Len(replies') \in Nat
  BY DEF FileInv, TypeOK, ReplySet
<1>5. replies' # <<>> /\ replies'[1].type \in {"ERROR", AnswerTo(m.type)}
  <2>1. CASE m.type = "START" /\ FileStart(id, m.file)
    BY <2>1
    DEF FileStart, StartResumes, StartCreates, StartOpenFails, StartTruncateFails, StartNoMemory,
        Reply, Error, AnswerTo
  <2>2. CASE m.type = "QUERY" /\ Query(id)
    BY <2>2 DEF Query, Reply, Error, AnswerTo
  <2>3. CASE m.type = "CHUNK" /\ FileChunk(id, m.index, m.data)
    <3>1. CASE ChunkRejected(id, m.index, m.data)
      <4>1. \/ replies' = Error(id)
            \/ replies' = Append(Error(id), Reply("CHUNK_ACK", id, FALSE))
        BY <3>1 DEF ChunkRejected
      <4>2. /\ Error(id) # <<>> /\ Append(Error(id), Reply("CHUNK_ACK", id, FALSE)) # <<>>
            /\ Error(id)[1].type = "ERROR"
            /\ Append(Error(id), Reply("CHUNK_ACK", id, FALSE))[1].type = "ERROR"
        BY DEF Error, Reply
      <4> QED BY <4>1, <4>2
    <3>2. CASE ~ ChunkRejected(id, m.index, m.data)
      <4>1. \/ replies' = Error(id)
            \/ replies' = <<Ack(id, m.index)>>
            \/ \E b \in BOOLEAN : \E t \in {"ERROR", "FINISH_ACK"} :
                 replies' = <<Ack(id, m.index), Reply(t, id, b)>>
        BY <2>3, <3>2
        DEF FileChunk, ChunkWriteFails, ChunkStored, FinishReadFails, Finish, FinishMismatch
      <4>2. Ack(id, m.index).type = "CHUNK_ACK" /\ Error(id)[1].type = "ERROR" /\ Error(id) # <<>>
        BY DEF Ack, Error, Reply
      <4> QED BY <2>3, <4>1, <4>2 DEF AnswerTo
    <3> QED BY <3>1, <3>2
  <2> QED BY <1>3, <2>1, <2>2, <2>3
<1>6. 1 \in 1..Len(replies') /\ Len(wout'[w]) = Len(replies')
  BY <1>2, <1>4, <1>5
<1>7. wout'[w][1].type = replies'[1].type /\ wout'[w][1].index = m.index
  BY <1>2, <1>6
<1>8. Brings(wout'[w], AnswerTo(m.type), m.index)
  BY <1>5, <1>6, <1>7 DEF Brings
<1> QED BY <1>8 DEF m

(* A step that leaves the client's channel and the workers alone.           *)
LEMMA OutstandingStays ==
  ASSUME NEW c \in Client, NEW type, NEW i, Outstanding(c, type, i), ptasks \in Seq(Msg),
         UNCHANGED <<wtask, wout>>, run'[c] = run[c], chan'[c] = chan[c], up'[c] = up[c],
         Active(c)' = Active(c), ptasks' = ptasks \/ \E m : ptasks' = Append(ptasks, m)
  PROVE  Outstanding(c, type, i)'
<1>1. CASE \E n \in 1..Len(ptasks) : Asked(ptasks[n], c, type) /\ ptasks[n].index = i
  <2>1. PICK n \in 1..Len(ptasks) : Asked(ptasks[n], c, type) /\ ptasks[n].index = i
    BY <1>1
  <2>2. n \in 1..Len(ptasks') /\ ptasks'[n] = ptasks[n]
    OBVIOUS
  <2>3. Asked(ptasks[n], c, type)'
    BY <2>1, <2>2 DEF Asked
  <2> QED BY <2>1, <2>2, <2>3 DEF Outstanding, Pending
<1>2. CASE \E w \in Worker : wout[w] = <<>> /\ Asked(wtask[w], c, type) /\ wtask[w].index = i
  <2>1. PICK w \in Worker : wout[w] = <<>> /\ Asked(wtask[w], c, type) /\ wtask[w].index = i
    BY <1>2
  <2>2. Asked(wtask[w], c, type)'
    BY <2>1 DEF Asked
  <2> QED BY <2>1, <2>2 DEF Outstanding, Pending
<1>3. CASE Comes(c, AnswerTo(type), i)
  <2>1. CASE Brings(chan[c], AnswerTo(type), i)
    BY <2>1 DEF Outstanding, Comes, Brings
  <2>2. CASE ~ Brings(chan[c], AnswerTo(type), i)
    <3>1. PICK w \in Worker :
            /\ wtask[w] # NoMessage /\ Reachable(wtask[w]) /\ wtask[w].client = c
            /\ Brings(wout[w], AnswerTo(type), i)
      BY <1>3, <2>2 DEF Comes
    <3>2. Reachable(wtask[w])' /\ Brings(wout[w], AnswerTo(type), i)'
      BY <3>1 DEF Reachable, Brings
    <3> QED BY <3>1, <3>2 DEF Outstanding, Comes
  <2> QED BY <2>1, <2>2
<1> QED BY <1>1, <1>2, <1>3 DEF Outstanding, Pending

(* A step of one worker: what it does with its own message and replies, and  *)
(* with the heads of the queues, is all there is to look at.                *)
LEMMA OutstandingMoves ==
  ASSUME NEW c \in Client, NEW type, NEW i, Outstanding(c, type, i), NEW w \in Worker,
         UNCHANGED <<cpc, run, up>>,
         \A v \in Worker \ {w} : wtask'[v] = wtask[v] /\ wout'[v] = wout[v],
         \A n \in 1..Len(ptasks) :
           Asked(ptasks[n], c, type) /\ ptasks[n].index = i => Outstanding(c, type, i)',
         wout[w] = <<>> /\ Asked(wtask[w], c, type) /\ wtask[w].index = i => Outstanding(c, type, i)',
         wtask[w] # NoMessage /\ Reachable(wtask[w]) /\ wtask[w].client = c
           /\ Brings(wout[w], AnswerTo(type), i) => Outstanding(c, type, i)',
         Brings(chan[c], AnswerTo(type), i) => Brings(chan'[c], AnswerTo(type), i)
  PROVE  Outstanding(c, type, i)'
<1>1. CASE \E n \in 1..Len(ptasks) : Asked(ptasks[n], c, type) /\ ptasks[n].index = i
  BY <1>1
<1>2. CASE \E v \in Worker : wout[v] = <<>> /\ Asked(wtask[v], c, type) /\ wtask[v].index = i
  <2>1. PICK v \in Worker : wout[v] = <<>> /\ Asked(wtask[v], c, type) /\ wtask[v].index = i
    BY <1>2
  <2>2. CASE v # w
    <3>1. Asked(wtask[v], c, type)' /\ wout'[v] = <<>>
      BY <2>1, <2>2 DEF Asked
    <3> QED BY <2>1, <2>2, <3>1 DEF Outstanding, Pending
  <2> QED BY <2>1, <2>2
<1>3. CASE Brings(chan[c], AnswerTo(type), i)
  <2>1. Brings(chan[c], AnswerTo(type), i)'
    BY <1>3 DEF Brings
  <2> QED BY <2>1 DEF Outstanding, Comes
<1>4. CASE \E v \in Worker :
             /\ wtask[v] # NoMessage /\ Reachable(wtask[v]) /\ wtask[v].client = c
             /\ Brings(wout[v], AnswerTo(type), i)
  <2>1. PICK v \in Worker :
          /\ wtask[v] # NoMessage /\ Reachable(wtask[v]) /\ wtask[v].client = c
          /\ Brings(wout[v], AnswerTo(type), i)
    BY <1>4
  <2>2. CASE v # w
    <3>1. Reachable(wtask[v])' /\ Brings(wout[v], AnswerTo(type), i)'
      BY <2>1, <2>2 DEF Reachable, Active, Brings
    <3> QED BY <2>1, <2>2, <3>1 DEF Outstanding, Comes
  <2> QED BY <2>1, <2>2
<1> QED BY <1>1, <1>2, <1>3, <1>4 DEF Outstanding, Pending, Comes

(* The workers lose nothing that a client waits for.                        *)
LEMMA OutstandingServed ==
  ASSUME Announced, FileInv', NEW c \in Client, Active(c), up[c],
         NEW type \in {"START", "QUERY", "CHUNK"}, NEW i, Outstanding(c, type, i),
         NEW w \in Worker, Serve(w)
  PROVE  Outstanding(c, type, i)'
<1> USE DEF clientVars
<1>0. /\ ptasks \in Seq(Msg) /\ ~ Brings(<<>>, AnswerTo(type), i)
      /\ \A v \in Worker : wout[v] # <<>> => wtask[v] # NoMessage
  BY DEF Announced, Brings
<1>1. ASSUME UNCHANGED <<ptasks, run>>, NEW n \in 1..Len(ptasks), Asked(ptasks[n], c, type),
             ptasks[n].index = i
      PROVE  Outstanding(c, type, i)'
  BY <1>1 DEF Asked, Outstanding, Pending
<1>2. CASE Take(w)
  <2>1. /\ wtask[w] = NoMessage /\ wout[w] = <<>> /\ wtask'[w] = Head(ptasks) /\ ptasks # <<>>
        /\ ptasks' = Tail(ptasks) /\ UNCHANGED <<run, cpc, chan, up, wout>>
        /\ \A v \in Worker \ {w} : wtask'[v] = wtask[v]
    BY <1>0, <1>2 DEF Take, Announced
  <2>2. ASSUME NEW n \in 1..Len(ptasks), Asked(ptasks[n], c, type), ptasks[n].index = i
        PROVE  Outstanding(c, type, i)'
    <3>1. CASE n = 1
      <4>1. wtask'[w] = ptasks[n]
        BY <1>0, <2>1, <3>1
      <4>2. Asked(wtask[w], c, type)'
        BY <2>1, <2>2, <4>1 DEF Asked
      <4> QED BY <2>1, <2>2, <4>1, <4>2 DEF Outstanding, Pending
    <3>2. CASE n # 1
      <4>1. n - 1 \in 1..Len(ptasks') /\ ptasks'[n - 1] = ptasks[n]
        BY <1>0, <2>1, <3>2
      <4>2. Asked(ptasks[n - 1], c, type)'
        BY <2>1, <2>2, <4>1 DEF Asked
      <4> QED BY <2>2, <4>1, <4>2 DEF Outstanding, Pending
    <3> QED BY <3>1, <3>2
  <2>3. ~ Asked(wtask[w], c, type)
    BY <2>1 DEF Asked
  <2> QED BY <2>1, <2>2, <2>3, OutstandingMoves
<1>3. CASE Dropped(w)
  <2>1. /\ wtask[w] # NoMessage /\ wout[w] = <<>> /\ ~ Reachable(wtask[w])
        /\ UNCHANGED <<run, cpc, chan, up, ptasks, wout>>
        /\ \A v \in Worker \ {w} : wtask'[v] = wtask[v]
    BY <1>3 DEF Dropped, Announced
  <2>2. ~ Asked(wtask[w], c, type)
    BY <2>1 DEF Asked, Reachable
  <2> QED BY <1>1, <2>1, <2>2, OutstandingMoves
<1>4. CASE Handle(w)
  <2>1. /\ wtask[w] # NoMessage /\ wout[w] = <<>>
        /\ UNCHANGED <<run, cpc, chan, up, ptasks, wtask>>
        /\ \A v \in Worker \ {w} : wout'[v] = wout[v]
    BY <1>4 DEF Handle, Announced
  <2>2. ASSUME Asked(wtask[w], c, type), wtask[w].index = i
        PROVE  Outstanding(c, type, i)'
    <3>1. Brings(wout'[w], AnswerTo(type), i)
      BY <1>4, <2>2, Answered DEF Asked
    <3>2. Reachable(wtask[w])' /\ wtask'[w].client = c /\ wtask'[w] # NoMessage
      BY <2>1, <2>2 DEF Reachable, Active, Asked
    <3>3. Brings(wout[w], AnswerTo(type), i)'
      BY <3>1 DEF Brings
    <3> QED BY <3>2, <3>3 DEF Outstanding, Comes
  <2> QED BY <1>0, <1>1, <2>1, <2>2, OutstandingMoves
<1>5. CASE QueueReplies(w)
  <2>1. /\ wout[w] # <<>> /\ UNCHANGED <<run, cpc, up, ptasks>>
        /\ \A v \in Worker \ {w} : wout'[v] = wout[v] /\ wtask'[v] = wtask[v]
    BY <1>5 DEF QueueReplies, Announced
  <2>2. /\ wout[w] \in Seq(Answer) /\ chan[c] \in Seq(Answer)
        /\ chan'[c] = IF Reachable(wtask[w]) /\ wtask[w].client = c
                      THEN chan[c] \o wout[w] ELSE chan[c]
    BY <1>5 DEF QueueReplies, Announced
  <2>3. Brings(chan[c], AnswerTo(type), i) => Brings(chan'[c], AnswerTo(type), i)
    BY <2>2, BringsParts
  <2>4. ASSUME Reachable(wtask[w]), wtask[w].client = c, Brings(wout[w], AnswerTo(type), i)
        PROVE  Outstanding(c, type, i)'
    <3>1. Brings(chan'[c], AnswerTo(type), i)
      BY <2>2, <2>4, BringsParts
    <3>2. Brings(chan[c], AnswerTo(type), i)'
      BY <3>1 DEF Brings
    <3> QED BY <3>2 DEF Outstanding, Comes
  <2> QED BY <1>1, <2>1, <2>3, <2>4, OutstandingMoves
<1> QED BY <1>2, <1>3, <1>4, <1>5 DEF Serve

(* The rest of the client's variables.                                      *)
ClientTypes ==
  up \in [Client -> BOOLEAN] /\ next \in [Client -> Nat] /\ bitmap \in [Client -> SUBSET Index]

LEMMA InitClientTypes == UploadInit => ClientTypes
BY DEF UploadInit, ClientTypes

LEMMA NextClientTypes ==
  ASSUME ClientTypes, Announced, [UploadNext]_uploadVars
  PROVE  ClientTypes'
<1> USE DEF clientVars, poolVars
<1>1. ASSUME NEW c \in Client, Begin(c) PROVE ClientTypes'
  BY <1>1 DEF Begin, ClientTypes
<1>2. ASSUME NEW c \in Client, Run(c) \/ Killed(c) PROVE ClientTypes'
  <2>1. CASE ReadBitmap(c)
    <3>1. Got(c) \in Answer
      <4>1. chan[c] \in Seq(Answer) /\ chan[c] # <<>>
        BY <2>1 DEF ReadBitmap, Reads, Announced
      <4> QED BY <4>1 DEF Got
    <3>2. Got(c).bitmap \in SUBSET Index
      BY <3>1 DEF Answer
    <3> QED BY <2>1, <3>2 DEF ReadBitmap, ClientTypes
  <2>2. CASE SendChunk(c)
    <3>1. PICK i \in Missing(c) : next' = [next EXCEPT ![c] = i]
      BY <2>2 DEF SendChunk
    <3>2. i \in Nat
      BY Constants DEF Missing, Index
    <3> QED BY <2>2, <3>1, <3>2 DEF SendChunk, ClientTypes
  <2>3. CASE ReadAck(c)
    <3>1. next' = [next EXCEPT ![c] = next[c] + 1] /\ next[c] + 1 \in Nat
      BY <2>3 DEF ReadAck, ClientTypes
    <3> QED BY <2>3, <3>1 DEF ReadAck, ClientTypes
  <2> QED
    BY <1>2, <2>1, <2>2, <2>3
    DEF Run, Killed, SendStart, SendQuery, NothingMissing, ReadFinish, ReadError, ReadOther,
        ConnectionLost, ClientTypes
<1>3. ASSUME NEW w \in Worker, Serve(w) PROVE ClientTypes'
  BY <1>3 DEF Serve, Take, Dropped, Handle, QueueReplies, ClientTypes
<1> QED BY <1>1, <1>2, <1>3 DEF UploadNext, Timer, ServerRestart, ClientTypes, uploadVars

(* What the client has asked, and waits for, when it waits.                 *)
Attended(c) ==
  up[c] =>
    /\ cpc[c] = "bitmap" => Outstanding(c, "START", 0) \/ Outstanding(c, "QUERY", 0)
    /\ cpc[c] = "ack" => \A i : i = next[c] => Outstanding(c, "CHUNK", i)

LEMMA NextAttended ==
  ASSUME Announced, ClientTypes, FileInv', NEW c \in Client, Attended(c), [UploadNext]_uploadVars
  PROVE  Attended(c)'
<1> USE DEF clientVars, poolVars
<1>0. ptasks \in Seq(Msg) /\ chan[c] \in Seq(Answer)
  BY DEF Announced
<1>1. ASSUME UNCHANGED <<wtask, wout>>, run'[c] = run[c], chan'[c] = chan[c], up'[c] = up[c],
             cpc'[c] = cpc[c], next'[c] = next[c],
             ptasks' = ptasks \/ \E m : ptasks' = Append(ptasks, m)
      PROVE  Attended(c)'
  <2>1. Active(c)' = Active(c)
    BY <1>1 DEF Active
  <2>2. ASSUME NEW type, NEW i, Outstanding(c, type, i) PROVE Outstanding(c, type, i)'
    BY <1>0, <1>1, <2>1, <2>2, OutstandingStays
  <2>3. ASSUME up'[c], cpc'[c] = "ack", NEW i, i = next'[c] PROVE Outstanding(c, "CHUNK", i)'
    BY <1>1, <2>2, <2>3 DEF Attended
  <2>4. up'[c] /\ cpc'[c] = "bitmap" => Outstanding(c, "START", 0)' \/ Outstanding(c, "QUERY", 0)'
    BY <1>1, <2>2 DEF Attended
  <2> QED BY <2>3, <2>4 DEF Attended
<1>2. ASSUME cpc'[c] \notin {"bitmap", "ack"} \/ ~ up'[c]
      PROVE  Attended(c)'
  BY <1>2 DEF Attended
<1>3. CASE UNCHANGED uploadVars
  BY <1>1, <1>3 DEF uploadVars
<1>4. ASSUME NEW k \in Client, k # c, Begin(k) \/ Run(k) \/ Killed(k)
      PROVE  Attended(c)'
  <2>1. UNCHANGED <<wtask, wout>> /\ (ptasks' = ptasks \/ \E m : ptasks' = Append(ptasks, m))
    BY <1>4
    DEF Begin, Run, Killed, SendStart, SendQuery, ReadBitmap, SendChunk, NothingMissing, ReadAck,
        ReadFinish, ReadError, ReadOther, ConnectionLost, Sends
  <2>2. run'[c] = run[c] /\ up'[c] = up[c]
    BY <1>4
    DEF Begin, Run, Killed, SendStart, SendQuery, ReadBitmap, SendChunk, NothingMissing, ReadAck,
        ReadFinish, ReadError, ReadOther, ConnectionLost, Announced, ClientTypes
  <2>3. cpc'[c] = cpc[c] /\ next'[c] = next[c]
    BY <1>4
    DEF Begin, Run, Killed, SendStart, SendQuery, ReadBitmap, SendChunk, NothingMissing, ReadAck,
        ReadFinish, ReadError, ReadOther, ConnectionLost, Goto, Announced, ClientTypes
  <2>4. chan'[c] = chan[c]
    BY <1>4
    DEF Begin, Run, Killed, SendStart, SendQuery, ReadBitmap, SendChunk, NothingMissing, ReadAck,
        ReadFinish, ReadError, ReadOther, ConnectionLost, Reads, Announced
  <2> QED BY <1>1, <2>1, <2>2, <2>3, <2>4
<1>5. CASE Begin(c)
  BY <1>2, <1>5 DEF Begin, Announced
<1>6. CASE Killed(c)
  BY <1>2, <1>6 DEF Killed, Goto, Announced
<1>7. CASE Run(c)
  <2>1. CASE SendStart(c) \/ ReadBitmap(c) \/ NothingMissing(c) \/ ReadAck(c) \/ ReadFinish(c)
             \/ ReadError(c) \/ ConnectionLost(c)
    <3>1. \E l \in {"query", "chunk", "finish", "ok", "failed"} : Goto(c, l)
      BY <2>1
      DEF SendStart, ReadBitmap, NothingMissing, ReadAck, ReadFinish, ReadError, ConnectionLost
    <3> QED BY <1>2, <3>1 DEF Goto, Announced
  <2>2. CASE SendQuery(c) /\ up[c]
    <3>0. PICK m : m = [client |-> c, run |-> run[c], type |-> "QUERY", file |-> sends[c],
                        index |-> 0, data |-> sends[c]]
      OBVIOUS
    <3>1. ptasks' = Append(ptasks, m) /\ cpc'[c] = "bitmap" /\ run' = run
      BY <2>2, <3>0 DEF SendQuery, Sends, Goto, Announced
    <3>2. m.type = "QUERY" /\ m.client = c /\ m.run = run[c] /\ m.index = 0
      BY <3>0
    <3>3. m # NoMessage
      BY <3>2 DEF NoMessage
    <3>4. Len(ptasks) + 1 \in 1..Len(ptasks') /\ ptasks'[Len(ptasks) + 1] = m
      BY <1>0, <3>1
    <3>5. Asked(m, c, "QUERY")'
      BY <3>1, <3>2, <3>3 DEF Asked
    <3>6. Outstanding(c, "QUERY", 0)'
      BY <3>2, <3>4, <3>5 DEF Outstanding, Pending, Asked
    <3> QED BY <3>1, <3>6 DEF Attended
  <2>3. CASE SendChunk(c) /\ up[c]
    <3>1. PICK i \in Missing(c) :
            next' = [next EXCEPT ![c] = i] /\ \E d \in {sends[c], "bad"} : Sends(c, "CHUNK", i, d)
      BY <2>3 DEF SendChunk
    <3>2. PICK d \in {sends[c], "bad"} : Sends(c, "CHUNK", i, d)
      BY <3>1
    <3>0. PICK m : m = [client |-> c, run |-> run[c], type |-> "CHUNK", file |-> sends[c],
                        index |-> i, data |-> d]
      OBVIOUS
    <3>3. ptasks' = Append(ptasks, m) /\ cpc'[c] = "ack" /\ run' = run
      BY <2>3, <3>0, <3>2 DEF SendChunk, Sends, Goto, Announced
    <3>4. m.type = "CHUNK" /\ m.client = c /\ m.run = run[c] /\ m.index = i
      BY <3>0
    <3>5. m # NoMessage
      BY <3>4 DEF NoMessage
    <3>6. Len(ptasks) + 1 \in 1..Len(ptasks') /\ ptasks'[Len(ptasks) + 1] = m
      BY <1>0, <3>3
    <3>7. Asked(m, c, "CHUNK")'
      BY <3>3, <3>4, <3>5 DEF Asked
    <3>8. Outstanding(c, "CHUNK", i)'
      BY <3>4, <3>6, <3>7 DEF Outstanding, Pending, Asked
    <3>9. \A j : j = next'[c] => j = i
      BY <3>1 DEF ClientTypes
    <3>10. ASSUME NEW j, j = next'[c] PROVE Outstanding(c, "CHUNK", j)'
      BY <3>8, <3>9, <3>10
    <3> QED BY <3>3, <3>10 DEF Attended
  <2>4. CASE (SendQuery(c) \/ SendChunk(c)) /\ ~ up[c]
    <3>1. up' = up
      BY <2>4 DEF SendQuery, SendChunk
    <3> QED BY <1>2, <2>4, <3>1
  <2>5. CASE ReadOther(c)
    <3>1. /\ chan[c] # <<>> /\ chan'[c] = Tail(chan[c]) /\ Head(chan[c]).type # "ERROR"
          /\ cpc[c] \in {"bitmap", "ack", "finish"}
          /\ cpc[c] = "bitmap" => Head(chan[c]).type # "QUERY_RESPONSE"
          /\ cpc[c] = "ack" => ~ (Head(chan[c]).type = "CHUNK_ACK" /\ Head(chan[c]).index = next[c])
          /\ UNCHANGED <<cpc, run, up, next, wtask, wout, ptasks>>
      BY <2>5 DEF ReadOther, Reads, Got, AcksNext, Announced
    <3>2. ASSUME NEW type, NEW i, Outstanding(c, type, i),
                 Brings(chan[c], AnswerTo(type), i) => Brings(Tail(chan[c]), AnswerTo(type), i)
          PROVE  Outstanding(c, type, i)'
      <4>1. CASE Pending(c, type, i)
        BY <3>1, <4>1 DEF Outstanding, Pending, Asked
      <4>2. CASE Brings(chan[c], AnswerTo(type), i)
        <5>1. Brings(chan[c], AnswerTo(type), i)'
          BY <3>1, <3>2, <4>2 DEF Brings
        <5> QED BY <5>1 DEF Outstanding, Comes
      <4>3. CASE \E w \in Worker :
                   /\ wtask[w] # NoMessage /\ Reachable(wtask[w]) /\ wtask[w].client = c
                   /\ Brings(wout[w], AnswerTo(type), i)
        BY <3>1, <4>3 DEF Outstanding, Comes, Reachable, Active, Brings
      <4> QED BY <3>2, <4>1, <4>2, <4>3 DEF Outstanding, Comes
    <3>3. CASE cpc[c] = "bitmap"
      <4>1. \A t \in {"START", "QUERY"} :
              Brings(chan[c], AnswerTo(t), 0) => Brings(Tail(chan[c]), AnswerTo(t), 0)
        BY <1>0, <3>1, <3>3, BringsParts DEF AnswerTo
      <4>2. Outstanding(c, "START", 0) => Outstanding(c, "START", 0)'
        BY <3>2, <4>1
      <4>3. Outstanding(c, "QUERY", 0) => Outstanding(c, "QUERY", 0)'
        BY <3>2, <4>1
      <4> QED BY <3>1, <3>3, <4>2, <4>3 DEF Attended
    <3>4. CASE cpc[c] = "ack"
      <4>1. ASSUME up'[c], NEW i, i = next'[c] PROVE Outstanding(c, "CHUNK", i)'
        <5>1. i = next[c] /\ Outstanding(c, "CHUNK", i)
          BY <3>1, <3>4, <4>1 DEF Attended
        <5>2. Brings(chan[c], AnswerTo("CHUNK"), i) => Brings(Tail(chan[c]), AnswerTo("CHUNK"), i)
          BY <1>0, <3>1, <3>4, <5>1, BringsParts DEF AnswerTo
        <5> QED BY <3>2, <5>1, <5>2
      <4> QED BY <3>1, <3>4, <4>1 DEF Attended
    <3> QED BY <1>2, <3>1, <3>3, <3>4
  <2> QED BY <1>7, <2>1, <2>2, <2>3, <2>4, <2>5 DEF Run
<1>8. ASSUME NEW w \in Worker, Serve(w)
      PROVE  Attended(c)'
  <2>1. UNCHANGED <<cpc, up, next>>
    BY <1>8 DEF Serve, Take, Dropped, Handle, QueueReplies
  <2>2. ASSUME Active(c), up[c], NEW type \in {"START", "QUERY", "CHUNK"}, NEW i,
               Outstanding(c, type, i)
        PROVE  Outstanding(c, type, i)'
    BY <1>8, <2>2, OutstandingServed
  <2>3. ASSUME up'[c], cpc'[c] = "ack", NEW i, i = next'[c] PROVE Outstanding(c, "CHUNK", i)'
    BY <2>1, <2>2, <2>3 DEF Attended, Active
  <2>4. up'[c] /\ cpc'[c] = "bitmap" => Outstanding(c, "START", 0)' \/ Outstanding(c, "QUERY", 0)'
    BY <2>1, <2>2 DEF Attended, Active
  <2> QED BY <2>3, <2>4 DEF Attended
<1>9. CASE Timer
  BY <1>1, <1>9 DEF Timer
<1>10. CASE ServerRestart
  BY <1>2, <1>10 DEF ServerRestart
<1> QED
  BY <1>3, <1>4, <1>5, <1>6, <1>7, <1>8, <1>9, <1>10 DEF UploadNext

(* For any number of clients, workers, runs and restarts of the server, and *)
(* under every fault: a client that waits for a bitmap or for the           *)
(* acknowledgement of a chunk has its question in the pool or the answer,   *)
(* if only an error, on its way, or its connection is lost.  Every branch   *)
(* of handleClientMessage answers, and weak.lock() fails for nobody whose   *)
(* connection is still there.                                               *)
THEOREM WaitingCorrect == UploadSpec => []NeverLeftWaiting
<1> DEFINE Inv == FileInv /\ Announced /\ ClientTypes /\ \A c \in Client : Attended(c)
<1>1. UploadInit => Inv
  <2>1. UploadInit => \A c \in Client : Attended(c)
    BY DEF UploadInit, Attended
  <2>2. UploadInit => FileInv
    BY InitFileInv DEF UploadInit
  <2> QED BY <2>1, <2>2, InitAnnounced, InitClientTypes
<1>2. Inv /\ [UploadNext]_uploadVars => Inv'
  <2> SUFFICES ASSUME Inv, [UploadNext]_uploadVars
               PROVE  Inv'
    OBVIOUS
  <2>1. FileInv'
    BY SessionsStep, FileStep
  <2>2. Announced' /\ ClientTypes'
    BY <2>1, NextAnnounced, NextClientTypes DEF FileInv
  <2>3. ASSUME NEW c \in Client PROVE Attended(c)'
    BY <2>1, <2>3, NextAttended
  <2> QED BY <2>1, <2>2, <2>3
<1>3. Inv => NeverLeftWaiting
  <2> SUFFICES ASSUME Inv, NEW c \in Client, up[c]
               PROVE  /\ cpc[c] = "bitmap" => \/ Pending(c, "START", 0) \/ Pending(c, "QUERY", 0)
                                              \/ Comes(c, "QUERY_RESPONSE", 0)
                      /\ cpc[c] = "ack" => Pending(c, "CHUNK", next[c]) \/ Comes(c, "CHUNK_ACK", next[c])
    BY DEF NeverLeftWaiting
  <2>1. Attended(c)
    OBVIOUS
  <2> QED BY <2>1 DEF Attended, Outstanding, AnswerTo
<1> HIDE DEF Inv
<1> QED BY <1>1, <1>2, <1>3, PTL DEF UploadSpec

(***************************************************************************)
(* What the server has of an upload is never lost while it runs.           *)
(***************************************************************************)
Has(f, st, final, i) == final = Whole(f) \/ (st.fd # 0 /\ st.file = f /\ i \in st.bitmap)

(* Behind an error the client does not read on: the chunk that an error     *)
(* reports is acknowledged as well.                                         *)
Vouched(answers, f, st, final) ==
  \A n \in 1..Len(answers) :
    (\A k \in 1..(n - 1) : answers[k].type # "ERROR") =>
      /\ answers[n].type = "CHUNK_ACK" => Has(f, st, final, answers[n].index)
      /\ answers[n].type = "QUERY_RESPONSE" => \A i \in answers[n].bitmap : Has(f, st, final, i)

LEMMA VouchedParts ==
  ASSUME NEW s \in Seq(Answer), NEW t \in Seq(Answer), NEW f, NEW st, NEW final
  PROVE  /\ Vouched(<<>>, f, st, final)
         /\ Vouched(s, f, st, final) /\ Vouched(t, f, st, final) => Vouched(s \o t, f, st, final)
         /\ s # <<>> /\ Vouched(s, f, st, final) /\ Head(s).type # "ERROR"
              => Vouched(Tail(s), f, st, final)
         /\ s # <<>> /\ Vouched(s, f, st, final)
              => /\ Head(s).type = "CHUNK_ACK" => Has(f, st, final, Head(s).index)
                 /\ Head(s).type = "QUERY_RESPONSE" => \A i \in Head(s).bitmap : Has(f, st, final, i)
<1>1. Vouched(<<>>, f, st, final)
  BY DEF Vouched
<1>2. ASSUME Vouched(s, f, st, final), Vouched(t, f, st, final)
      PROVE  Vouched(s \o t, f, st, final)
  <2> SUFFICES ASSUME NEW n \in 1..Len(s \o t),
                      \A k \in 1..(n - 1) : (s \o t)[k].type # "ERROR"
               PROVE  /\ (s \o t)[n].type = "CHUNK_ACK" => Has(f, st, final, (s \o t)[n].index)
                      /\ (s \o t)[n].type = "QUERY_RESPONSE"
                           => \A i \in (s \o t)[n].bitmap : Has(f, st, final, i)
    BY DEF Vouched
  <2>1. CASE n <= Len(s)
    <3>1. n \in 1..Len(s) /\ (s \o t)[n] = s[n] /\ \A k \in 1..(n - 1) : (s \o t)[k] = s[k]
      BY <2>1
    <3> QED BY <1>2, <3>1 DEF Vouched
  <2>2. CASE ~ (n <= Len(s))
    <3>1. n - Len(s) \in 1..Len(t) /\ (s \o t)[n] = t[n - Len(s)]
      BY <2>2
    <3>2. \A k \in 1..(n - Len(s) - 1) : k + Len(s) \in 1..(n - 1) /\ (s \o t)[k + Len(s)] = t[k]
      BY <2>2
    <3>3. \A k \in 1..(n - Len(s) - 1) : t[k].type # "ERROR"
      BY <3>2
    <3> QED BY <1>2, <3>1, <3>3 DEF Vouched
  <2> QED BY <2>1, <2>2
<1>3. ASSUME s # <<>>, Vouched(s, f, st, final), Head(s).type # "ERROR"
      PROVE  Vouched(Tail(s), f, st, final)
  <2> SUFFICES ASSUME NEW n \in 1..Len(Tail(s)), \A k \in 1..(n - 1) : Tail(s)[k].type # "ERROR"
               PROVE  /\ Tail(s)[n].type = "CHUNK_ACK" => Has(f, st, final, Tail(s)[n].index)
                      /\ Tail(s)[n].type = "QUERY_RESPONSE"
                           => \A i \in Tail(s)[n].bitmap : Has(f, st, final, i)
    BY DEF Vouched
  <2>1. n + 1 \in 1..Len(s) /\ Tail(s)[n] = s[n + 1]
    BY <1>3
  <2>2. ASSUME NEW k \in 1..n PROVE s[k].type # "ERROR"
    <3>1. CASE k = 1
      BY <1>3, <3>1
    <3>2. CASE k # 1
      <4>1. k - 1 \in 1..(n - 1) /\ Tail(s)[k - 1] = s[k]
        BY <1>3, <3>2
      <4> QED BY <4>1
    <3> QED BY <3>1, <3>2
  <2>3. \A k \in 1..((n + 1) - 1) : s[k].type # "ERROR"
    BY <2>2
  <2> QED BY <1>3, <2>1, <2>3 DEF Vouched
<1>4. ASSUME s # <<>>, Vouched(s, f, st, final)
      PROVE  /\ Head(s).type = "CHUNK_ACK" => Has(f, st, final, Head(s).index)
             /\ Head(s).type = "QUERY_RESPONSE" => \A i \in Head(s).bitmap : Has(f, st, final, i)
  <2>1. 1 \in 1..Len(s) /\ Head(s) = s[1] /\ 1..(1 - 1) = {}
    BY <1>4
  <2> QED BY <1>4, <2>1 DEF Vouched
<1> QED BY <1>1, <1>2, <1>3, <1>4

(* What a message leaves of a session of its own file, and what the answer  *)
(* to it says of that session.                                              *)
LEMMA HandledAnswers ==
  ASSUME FileInv, NEW path \in [Id -> File], Intact(path), Faults \cap {"pwrite", "rename"} = {},
         NEW id \in Id, NEW i \in Index, NEW d \in {path[id], "bad"},
         FileStart(id, path[id]) \/ Query(id) \/ FileChunk(id, i, d)
  PROVE  /\ \A k \in Id : Live(k) /\ ~ Live(k)' => k = id /\ Finishes(replies')
         /\ \A n \in 1..Len(replies') : replies'[n].type = "QUERY_RESPONSE" => Live(id)'
         /\ \A n \in 1..Len(replies') :
              replies'[n].type = "CHUNK_ACK" /\ (\A k \in 1..(n - 1) : replies'[k].type # "ERROR")
                => Finishes(replies') \/ (Live(id)' /\ i \in g_states'[id].bitmap)
<1> DEFINE Goal == /\ \A k \in Id : Live(k) /\ ~ Live(k)' => k = id /\ Finishes(replies')
                   /\ \A n \in 1..Len(replies') : replies'[n].type = "QUERY_RESPONSE" => Live(id)'
                   /\ \A n \in 1..Len(replies') :
                        replies'[n].type = "CHUNK_ACK" /\ (\A k \in 1..(n - 1) : replies'[k].type # "ERROR")
                          => Finishes(replies') \/ (Live(id)' /\ i \in g_states'[id].bitmap)
<1>0. g_states \in [Id -> Session \cup {NoState}] /\ NoState.fd = 0
  BY DEF FileInv, TypeOK, NoState
<1>1. ASSUME replies' = Error(id) \/ replies' = Append(Error(id), Reply("CHUNK_ACK", id, FALSE)),
             \A k \in Id : Live(k) => Live(k)'
      PROVE  Goal
  <2>1. Error(id)[1].type = "ERROR" /\ Append(Error(id), Reply("CHUNK_ACK", id, FALSE))[1].type = "ERROR"
    BY DEF Error, Reply
  <2>2. /\ Len(replies') \in {1, 2} /\ replies'[1].type = "ERROR"
        /\ Len(replies') = 2 => replies'[2].type = "CHUNK_ACK"
    BY <1>1, <2>1 DEF Error, Reply
  <2>3. ASSUME NEW n \in 1..Len(replies')
        PROVE  /\ replies'[n].type # "QUERY_RESPONSE"
               /\ replies'[n].type = "CHUNK_ACK" => 1 \in 1..(n - 1)
    BY <2>2, <2>3
  <2> QED BY <1>1, <2>2, <2>3
<1>2. ASSUME replies' = <<Reply("QUERY_RESPONSE", id, TRUE)>>, Live(id)',
             \A k \in Id \ {id} : Live(k) => Live(k)'
      PROVE  Goal
  <2>1. ASSUME NEW n \in 1..Len(replies') PROVE replies'[n].type # "CHUNK_ACK"
    BY <1>2, <2>1 DEF Reply
  <2>2. \A k \in Id : Live(k) => Live(k)'
    BY <1>2
  <2> QED BY <1>2, <2>1, <2>2
<1>3. ASSUME NEW st, g_states' = [g_states EXCEPT ![id] = st]
      PROVE  g_states'[id] = st /\ \A k \in Id \ {id} : Live(k) => Live(k)'
  BY <1>0, <1>3 DEF Live
<1>4. CASE StartResumes(id, path[id]) \/ (Query(id) /\ Live(id))
  <2>1. /\ Live(id) /\ g_states' = [g_states EXCEPT ![id].last_update_ts = clock]
        /\ replies' = <<Reply("QUERY_RESPONSE", id, TRUE)>>
    BY <1>4 DEF StartResumes, Query
  <2>2. g_states[id] \in Session
    BY <2>1, SessionTypes DEF FileInv
  <2>3. g_states'[id].fd = g_states[id].fd /\ \A k \in Id \ {id} : g_states'[k] = g_states[k]
    BY <1>0, <2>1, <2>2 DEF Session
  <2> QED BY <1>2, <2>1, <2>3 DEF Live
<1>5. CASE Query(id) /\ ~ Live(id)
  BY <1>1, <1>5 DEF Query, Live
<1>6. ASSUME Replaces(id, path[id])
      PROVE  ~ Live(id)
  BY <1>6 DEF Replaces, Intact, Kept
<1>7. CASE StartOpenFails(id, path[id]) \/ StartTruncateFails(id, path[id])
           \/ StartNoMemory(id, path[id])
  <2>1. /\ Replaces(id, path[id]) /\ g_states' = [g_states EXCEPT ![id] = NoState]
        /\ replies' = Error(id)
    BY <1>7 DEF StartOpenFails, StartTruncateFails, StartNoMemory
  <2> QED BY <1>1, <1>3, <1>6, <2>1
<1>8. CASE StartCreates(id, path[id])
  <2>1. PICK n \in 1..MaxFds :
          g_states' = [g_states EXCEPT ![id] =
            [file |-> path[id], bitmap |-> {}, received_count |-> 0, fd |-> n, last_update_ts |-> clock]]
    BY <1>8 DEF StartCreates
  <2>2. g_states'[id].fd = n /\ n # 0
    BY <1>0, <2>1, FileTransferAssumption
  <2> QED BY <1>2, <1>3, <1>8, <2>1, <2>2 DEF StartCreates, Live
<1>9. CASE ChunkRejected(id, i, d)
  <2>1. /\ \A k \in Id : Live(k) => Live(k)'
        /\ replies' = Error(id) \/ replies' = Append(Error(id), Reply("CHUNK_ACK", id, FALSE))
    BY <1>9 DEF ChunkRejected, Live
  <2> QED BY <1>1, <2>1
<1>10. CASE ChunkWriteFails(id, i, d)
  BY <1>10 DEF ChunkWriteFails
<1>11. CASE ChunkStored(id, i, d) \/ FinishReadFails(id, i, d)
  <2>1. /\ Accepted(id, i, d)
        /\ g_states' = [g_states EXCEPT ![id] = Marked(g_states[id], i)]
        /\ replies' \in {<<Ack(id, i)>>, <<Ack(id, i), Reply("ERROR", id, FALSE)>>}
    BY <1>11 DEF ChunkStored, FinishReadFails
  <2>2. g_states[id] \in Session /\ g_states[id].fd # 0
    BY <2>1, SessionTypes DEF FileInv, Accepted, Live
  <2>3. /\ Marked(g_states[id], i).fd = g_states[id].fd
        /\ i \in Marked(g_states[id], i).bitmap
    BY <2>2 DEF Marked, Session
  <2>4. /\ Live(id)' /\ i \in g_states'[id].bitmap /\ \A k \in Id \ {id} : Live(k) => Live(k)'
    BY <1>3, <2>1, <2>2, <2>3 DEF Live
  <2>5. ASSUME NEW n \in 1..Len(replies') PROVE replies'[n].type # "QUERY_RESPONSE"
    BY <2>1, <2>5 DEF Ack, Reply
  <2> QED BY <2>4, <2>5
<1>12. CASE Finish(id, i, d) \/ FinishMismatch(id, i, d)
  <2>1. /\ g_states' = [g_states EXCEPT ![id] = NoState]
        /\ \E b \in BOOLEAN : replies' = <<Ack(id, i), Reply("FINISH_ACK", id, b)>>
    BY <1>12 DEF Finish, FinishMismatch
  <2>2. Finishes(replies')
    <3>1. Len(replies') = 2 /\ replies'[2].type = "FINISH_ACK"
      BY <2>1 DEF Reply
    <3> QED BY <3>1 DEF Finishes
  <2>3. ASSUME NEW n \in 1..Len(replies') PROVE replies'[n].type # "QUERY_RESPONSE"
    BY <2>1, <2>3 DEF Ack, Reply
  <2> QED BY <1>3, <2>1, <2>2, <2>3
<1> QED
  BY <1>4, <1>5, <1>7, <1>8, <1>9, <1>10, <1>11, <1>12 DEF FileStart, FileChunk

(* Whatever happens to the other sessions, or by other workers: what the     *)
(* server has of a file it keeps.                                           *)
LEMMA HasKept ==
  ASSUME FileInv, FileInv', Announced, NEW path \in [Id -> File], Intact(path),
         \A c \in Client : Versions[c] \subseteq {path[FileId[c]]},
         Faults \cap {"pwrite", "rename"} = {},
         [UploadNext]_uploadVars, ~ ServerRestart, Cleanup => UNCHANGED g_states,
         NEW k \in Id, NEW i, Has(path[k], g_states[k], published[k], i)
  PROVE  Has(path[k], g_states'[k], published'[k], i)
<1> USE DEF clientVars, poolVars
<1>1. /\ Intact(path)' /\ \A j \in Id : Stored(published, path, j) => Stored(published', path, j)
      /\ \A w \in Worker : Handle(w) /\ Finishes(replies')
           => Stored(published', path, FileId[wtask[w].client])
  BY SessionsIntact
<1>2. CASE published[k] = Whole(path[k])
  BY <1>1, <1>2 DEF Stored, Has
<1>3. CASE Live(k) /\ g_states[k].file = path[k] /\ i \in g_states[k].bitmap
  <2>1. CASE Live(k)'
    <3>1. g_states'[k].file = path[k]
      BY <1>1, <2>1 DEF Intact, Live, Kept
    <3>2. [Next]_vars
      BY SessionsStep
    <3>3. g_states[k].bitmap \subseteq g_states'[k].bitmap
      BY <1>3, <2>1, <3>1, <3>2, SessionChange
    <3> QED BY <1>3, <2>1, <3>1, <3>3 DEF Has, Live
  <2>2. CASE ~ Live(k)'
    <3>1. g_states' # g_states
      BY <1>3, <2>2 DEF Live
    <3>2. PICK w \in Worker : Handle(w)
      <4>1. ~ Timer
        BY <3>1 DEF Timer, ReadClock, Tick, ClockSetBack
      <4>2. \A c \in Client : ~ (Begin(c) \/ Run(c) \/ Killed(c))
        BY <3>1
        DEF Begin, Run, Killed, SendStart, SendQuery, ReadBitmap, SendChunk, NothingMissing, ReadAck,
            ReadFinish, ReadError, ReadOther, ConnectionLost, vars
      <4>3. \A w \in Worker : ~ (Take(w) \/ Dropped(w) \/ QueueReplies(w))
        BY <3>1 DEF Take, Dropped, QueueReplies, vars
      <4>4. ~ UNCHANGED uploadVars
        BY <3>1 DEF uploadVars, vars
      <4> QED BY <4>1, <4>2, <4>3, <4>4 DEF UploadNext, Serve
    <3> DEFINE m == wtask[w]
               id == FileId[m.client]
    <3>3. m \in Msg
      BY <3>2 DEF Handle, Announced
    <3>4. /\ id \in Id /\ m.index \in Index /\ m.client \in Client
          /\ m.file \in Versions[m.client] /\ m.data \in {m.file, "bad"}
      BY <3>3, MsgTypes
    <3>5. m.file = path[id] /\ m.data \in {path[id], "bad"}
      BY <3>4
    <3>6. FileStart(id, path[id]) \/ Query(id) \/ FileChunk(id, m.index, m.data)
      BY <3>2, <3>5 DEF Handle
    <3>7. k = id /\ Finishes(replies')
      <4> HIDE DEF m, id
      <4> QED BY <1>3, <2>2, <3>4, <3>5, <3>6, HandledAnswers
    <3>8. Stored(published', path, k)
      BY <1>1, <3>2, <3>7
    <3> QED BY <3>8 DEF Stored, Has
  <2> QED BY <2>1, <2>2
<1> QED BY <1>2, <1>3 DEF Has, Live

(* The replies a worker has got say what is so.                             *)
LEMMA RepliesVouched ==
  ASSUME FileInv, FileInv', Announced, NEW path \in [Id -> File], Intact(path), Intact(path)',
         \A c \in Client : Versions[c] \subseteq {path[FileId[c]]},
         Faults \cap {"pwrite", "rename"} = {}, NEW w \in Worker, Handle(w),
         NEW id, id = FileId[wtask[w].client],
         Finishes(replies') => Stored(published', path, id)
  PROVE  Vouched(wout'[w], path[id], g_states'[id], published'[id])
<1>1. PICK m : m = wtask[w]
  OBVIOUS
<1>2. m \in Msg
  BY <1>1 DEF Handle, Announced
<1>3. /\ id \in Id /\ m.index \in Index /\ m.client \in Client
      /\ m.file \in Versions[m.client] /\ m.data \in {m.file, "bad"}
  BY <1>1, <1>2, MsgTypes
<1>4. m.file = path[id] /\ m.data \in {path[id], "bad"}
  BY <1>1, <1>3
<1>5. FileStart(id, path[id]) \/ Query(id) \/ FileChunk(id, m.index, m.data)
  BY <1>1, <1>4 DEF Handle
<1>6. PICK F : F = g_states'[id]
  OBVIOUS
<1>7. wout'[w] = [n \in 1..Len(replies') |->
         [type |-> replies'[n].type, ok |-> replies'[n].ok, index |-> m.index,
          bitmap |-> F.bitmap, file |-> F.file]]
  BY <1>1, <1>6 DEF Handle, Announced
<1>8. replies' \in Seq(ReplySet) /\ Len(replies') \in Nat
  BY DEF FileInv, TypeOK, ReplySet
<1>9. /\ Len(wout'[w]) = Len(replies')
      /\ \A n \in 1..Len(replies') : /\ wout'[w][n].type = replies'[n].type
                                     /\ wout'[w][n].index = m.index
                                     /\ wout'[w][n].bitmap = F.bitmap
  BY <1>7, <1>8
<1>10. /\ \A n \in 1..Len(replies') : replies'[n].type = "QUERY_RESPONSE" => Live(id)'
       /\ \A n \in 1..Len(replies') :
            replies'[n].type = "CHUNK_ACK" /\ (\A k \in 1..(n - 1) : replies'[k].type # "ERROR")
              => Finishes(replies') \/ (Live(id)' /\ m.index \in g_states'[id].bitmap)
  BY <1>3, <1>4, <1>5, HandledAnswers
<1>11. Live(id)' => F.file = path[id] /\ F.fd # 0
  BY <1>3, <1>6 DEF Intact, Live, Kept
<1>12. ASSUME NEW n \in 1..Len(wout'[w]), \A k \in 1..(n - 1) : wout'[w][k].type # "ERROR"
       PROVE  /\ wout'[w][n].type = "CHUNK_ACK" => Has(path[id], F, published'[id], wout'[w][n].index)
              /\ wout'[w][n].type = "QUERY_RESPONSE"
                   => \A i \in wout'[w][n].bitmap : Has(path[id], F, published'[id], i)
  <2>1. \A k \in 1..(n - 1) : k \in 1..Len(replies')
    BY <1>8, <1>9, <1>12
  <2>2. \A k \in 1..(n - 1) : replies'[k].type # "ERROR"
    BY <1>9, <1>12, <2>1
  <2>3. CASE wout'[w][n].type = "CHUNK_ACK"
    <3>1. Finishes(replies') \/ (Live(id)' /\ m.index \in g_states'[id].bitmap)
      BY <1>9, <1>10, <1>12, <2>2, <2>3
    <3>2. Has(path[id], F, published'[id], m.index)
      BY <1>6, <1>11, <3>1 DEF Has, Stored
    <3> QED BY <1>9, <1>12, <2>3, <3>2
  <2>4. CASE wout'[w][n].type = "QUERY_RESPONSE"
    BY <1>9, <1>10, <1>11, <1>12, <2>4 DEF Has
  <2> QED BY <2>3, <2>4
<1> QED BY <1>6, <1>12 DEF Vouched

LEMMA VouchedKept ==
  ASSUME NEW s, NEW f, NEW st, NEW final, NEW st2, NEW final2, Vouched(s, f, st, final),
         \A i : Has(f, st, final, i) => Has(f, st2, final2, i)
  PROVE  Vouched(s, f, st2, final2)
BY DEF Vouched

(* What a worker is about to tell a client is so.                           *)
WorkerSays(path, w) ==
  wtask[w] # NoMessage =>
    Vouched(wout[w], path[FileId[wtask[w].client]], g_states[FileId[wtask[w].client]],
            published[FileId[wtask[w].client]])

(* What it has been told is so, and it has gone by that.                    *)
ClientHas(path, c) ==
  up[c] /\ Active(c) =>
    /\ Vouched(chan[c], path[FileId[c]], g_states[FileId[c]], published[FileId[c]])
    /\ \A i \in Index :
         i < Total[path[FileId[c]]] /\ (i < next[c] \/ i \in bitmap[c])
           => Has(path[FileId[c]], g_states[FileId[c]], published[FileId[c]], i)

LEMMA NextWorkerSays ==
  ASSUME FileInv, FileInv', Announced, NEW path \in [Id -> File], Intact(path),
         \A c \in Client : Versions[c] \subseteq {path[FileId[c]]},
         Faults \cap {"pwrite", "rename"} = {},
         [UploadNext]_uploadVars, Cleanup => UNCHANGED g_states,
         NEW v \in Worker, WorkerSays(path, v)
  PROVE  WorkerSays(path, v)'
<1> USE DEF clientVars, poolVars
<1>0. ASSUME NEW x, x = wtask'[v], x # NoMessage, x = wtask[v], wout'[v] = wout[v], ~ ServerRestart
      PROVE  Vouched(wout'[v], path[FileId[x.client]], g_states'[FileId[x.client]],
                     published'[FileId[x.client]])
  <2>1. PICK k : k = FileId[x.client]
    OBVIOUS
  <2>2. x \in Msg /\ k \in Id
    <3>1. x \in Msg
      BY <1>0 DEF Announced
    <3> QED BY <2>1, <3>1, MsgTypes
  <2>3. Vouched(wout[v], path[k], g_states[k], published[k])
    BY <1>0, <2>1 DEF WorkerSays
  <2>4. \A i : Has(path[k], g_states[k], published[k], i) => Has(path[k], g_states'[k], published'[k], i)
    BY <1>0, <2>2, HasKept
  <2>5. Vouched(wout[v], path[k], g_states'[k], published'[k])
    BY <2>3, <2>4, VouchedKept
  <2> QED BY <1>0, <2>1, <2>5
<1>1. ASSUME wtask'[v] = wtask[v], wout'[v] = wout[v], ~ ServerRestart
      PROVE  WorkerSays(path, v)'
  BY <1>0, <1>1 DEF WorkerSays
<1>2. ASSUME wout'[v] = <<>>
      PROVE  WorkerSays(path, v)'
  BY <1>2 DEF WorkerSays, Vouched
<1>3. CASE ServerRestart
  BY <1>2, <1>3 DEF ServerRestart
<1>4. ASSUME NEW w \in Worker, Serve(w), ~ ServerRestart
      PROVE  WorkerSays(path, v)'
  <2>1. CASE w # v
    BY <1>1, <1>4, <2>1 DEF Serve, Take, Dropped, Handle, QueueReplies, Announced
  <2>2. CASE w = v /\ (Take(w) \/ Dropped(w) \/ QueueReplies(w))
    <3>1. wout'[v] = <<>>
      BY <2>2 DEF Take, Dropped, QueueReplies, Announced
    <3> QED BY <1>2, <3>1
  <2>3. CASE w = v /\ Handle(w)
    <3>1. PICK id : id = FileId[wtask[v].client]
      OBVIOUS
    <3>2. Intact(path)' /\ (Finishes(replies') => Stored(published', path, id))
      BY <2>3, <3>1, SessionsIntact
    <3>3. Vouched(wout'[v], path[id], g_states'[id], published'[id])
      BY <2>3, <3>1, <3>2, RepliesVouched
    <3>4. wtask' = wtask
      BY <2>3 DEF Handle
    <3> QED BY <3>1, <3>3, <3>4 DEF WorkerSays
  <2> QED BY <1>4, <2>1, <2>2, <2>3 DEF Serve
<1>5. ASSUME NEW c \in Client, Begin(c) \/ Run(c) \/ Killed(c), ~ ServerRestart
      PROVE  WorkerSays(path, v)'
  <2>1. UNCHANGED <<wtask, wout>>
    BY <1>5
    DEF Begin, Run, Killed, SendStart, SendQuery, ReadBitmap, SendChunk, NothingMissing, ReadAck,
        ReadFinish, ReadError, ReadOther, ConnectionLost
  <2> QED BY <1>1, <1>5, <2>1
<1>6. CASE (Timer \/ UNCHANGED uploadVars) /\ ~ ServerRestart
  BY <1>1, <1>6 DEF Timer, uploadVars
<1> QED BY <1>3, <1>4, <1>5, <1>6 DEF UploadNext

LEMMA NextClientHas ==
  ASSUME FileInv, FileInv', Announced, ClientTypes, NEW path \in [Id -> File], Intact(path),
         \A c \in Client : Versions[c] \subseteq {path[FileId[c]]},
         Faults \cap {"pwrite", "rename"} = {},
         [UploadNext]_uploadVars, Cleanup => UNCHANGED g_states,
         \A w \in Worker : WorkerSays(path, w),
         NEW c \in Client, ClientHas(path, c)
  PROVE  ClientHas(path, c)'
<1> USE DEF clientVars, poolVars
<1>1. PICK k \in Id : k = FileId[c]
  BY Constants
<1>2. PICK f \in File : f = path[k]
  OBVIOUS
<1>3. Versions[c] \subseteq {f} /\ (cpc[c] # "idle" => sends[c] = f)
  BY <1>1, <1>2 DEF Announced
<1>4. CASE ServerRestart
  BY <1>4 DEF ServerRestart, ClientHas
<1>5. ASSUME ~ ServerRestart, NEW i, Has(f, g_states[k], published[k], i)
      PROVE  Has(f, g_states'[k], published'[k], i)
  BY <1>2, <1>5, HasKept
<1>6. ASSUME ~ ServerRestart, NEW s, Vouched(s, f, g_states[k], published[k])
      PROVE  Vouched(s, f, g_states'[k], published'[k])
  BY <1>5, <1>6, VouchedKept
<1>7. ASSUME up[c], Active(c)
      PROVE  /\ chan[c] \in Seq(Answer) /\ Vouched(chan[c], f, g_states[k], published[k])
             /\ \A i \in Index : i < Total[f] /\ (i < next[c] \/ i \in bitmap[c])
                                  => Has(f, g_states[k], published[k], i)
  BY <1>1, <1>2, <1>7 DEF ClientHas, Announced
<1>8. ASSUME ~ ServerRestart, up[c], Active(c), Vouched(chan'[c], f, g_states[k], published[k]),
             \A i \in Index : i < Total[f] /\ (i < next'[c] \/ i \in bitmap'[c])
                             => Has(f, g_states[k], published[k], i)
      PROVE  ClientHas(path, c)'
  <2>1. Vouched(chan'[c], f, g_states'[k], published'[k])
    BY <1>6, <1>8
  <2>2. \A i \in Index : i < Total[f] /\ (i < next'[c] \/ i \in bitmap'[c])
                         => Has(f, g_states'[k], published'[k], i)
    BY <1>5, <1>8
  <2> QED BY <1>1, <1>2, <2>1, <2>2 DEF ClientHas
<1>9. ASSUME ~ ServerRestart, up'[c] = up[c], cpc'[c] = cpc[c], chan'[c] = chan[c],
             next'[c] = next[c], bitmap'[c] = bitmap[c]
      PROVE  ClientHas(path, c)'
  <2>1. CASE up[c] /\ Active(c)
    BY <1>7, <1>8, <1>9, <2>1
  <2>2. CASE ~ (up[c] /\ Active(c))
    BY <1>9, <2>2 DEF ClientHas, Active
  <2> QED BY <2>1, <2>2
<1>10. CASE (Timer \/ UNCHANGED uploadVars) /\ ~ ServerRestart
  BY <1>9, <1>10 DEF Timer, uploadVars
<1>11. ASSUME NEW w \in Worker, Take(w) \/ Dropped(w) \/ Handle(w), ~ ServerRestart
       PROVE  ClientHas(path, c)'
  BY <1>9, <1>11 DEF Take, Dropped, Handle
<1>12. ASSUME NEW w \in Worker, QueueReplies(w), ~ ServerRestart
       PROVE  ClientHas(path, c)'
  <2>1. UNCHANGED <<cpc, up, next, bitmap>>
    BY <1>12 DEF QueueReplies
  <2>2. chan'[c] = chan[c] \/ (wtask[w].client = c /\ chan'[c] = chan[c] \o wout[w])
    BY <1>12 DEF QueueReplies, Announced
  <2>3. CASE chan'[c] = chan[c]
    BY <1>9, <1>12, <2>1, <2>3
  <2>4. CASE ~ (up[c] /\ Active(c))
    BY <2>1, <2>4 DEF ClientHas, Active
  <2>5. CASE up[c] /\ Active(c) /\ wtask[w].client = c /\ chan'[c] = chan[c] \o wout[w]
    <3>1. wtask[w] # NoMessage /\ wout[w] \in Seq(Answer)
      BY <1>12 DEF QueueReplies, Announced
    <3>2. Vouched(wout[w], f, g_states[k], published[k])
      BY <1>1, <1>2, <2>5, <3>1 DEF WorkerSays
    <3>3. Vouched(chan[c] \o wout[w], f, g_states[k], published[k])
      BY <1>7, <2>5, <3>1, <3>2, VouchedParts
    <3> QED BY <1>7, <1>8, <1>12, <2>1, <2>5, <3>3
  <2> QED BY <2>2, <2>3, <2>4, <2>5
<1>13. ASSUME NEW d \in Client, d # c, Begin(d) \/ Run(d) \/ Killed(d), ~ ServerRestart
       PROVE  ClientHas(path, c)'
  <2>1. up'[c] = up[c] /\ bitmap'[c] = bitmap[c] /\ next'[c] = next[c]
    BY <1>13
    DEF Begin, Run, Killed, SendStart, SendQuery, ReadBitmap, SendChunk, NothingMissing, ReadAck,
        ReadFinish, ReadError, ReadOther, ConnectionLost, ClientTypes
  <2>2. cpc'[c] = cpc[c]
    BY <1>13
    DEF Begin, Run, Killed, SendStart, SendQuery, ReadBitmap, SendChunk, NothingMissing, ReadAck,
        ReadFinish, ReadError, ReadOther, ConnectionLost, Goto, Announced
  <2>3. chan'[c] = chan[c]
    BY <1>13
    DEF Begin, Run, Killed, SendStart, SendQuery, ReadBitmap, SendChunk, NothingMissing, ReadAck,
        ReadFinish, ReadError, ReadOther, ConnectionLost, Reads, Announced
  <2> QED BY <1>9, <1>13, <2>1, <2>2, <2>3
<1>14. CASE Begin(c) /\ ~ ServerRestart
  <2>1. chan'[c] = <<>> /\ next'[c] = 0 /\ bitmap'[c] = {}
    BY <1>14 DEF Begin, Announced, ClientTypes
  <2>2. Vouched(chan'[c], path[FileId[c]], g_states'[FileId[c]], published'[FileId[c]])
    BY <2>1 DEF Vouched
  <2>3. \A i \in Index : ~ (i < next'[c] \/ i \in bitmap'[c])
    BY <2>1, Constants DEF Index
  <2> QED BY <2>2, <2>3 DEF ClientHas
<1>15. ASSUME Goto(c, "failed") \/ Goto(c, "ok")
       PROVE  ClientHas(path, c)'
  <2>1. ~ Active(c)'
    BY <1>15 DEF Goto, Active, Announced
  <2> QED BY <2>1 DEF ClientHas
<1>16. CASE (Run(c) \/ Killed(c)) /\ ~ ServerRestart
  <2>1. CASE Killed(c) \/ ReadFinish(c) \/ ReadError(c) \/ ConnectionLost(c)
    BY <1>15, <2>1 DEF Killed, ReadFinish, ReadError, ConnectionLost
  <2>2. CASE SendStart(c) \/ SendQuery(c) \/ NothingMissing(c)
    <3>1. Active(c) /\ UNCHANGED <<up, chan, next, bitmap>>
      BY <2>2 DEF SendStart, SendQuery, NothingMissing, Active
    <3>2. CASE ~ up[c]
      BY <3>1, <3>2 DEF ClientHas
    <3> QED BY <1>7, <1>8, <1>16, <3>1, <3>2
  <2>3. CASE SendChunk(c)
    <3>1. PICK i \in Missing(c) : (\A j \in Missing(c) : i <= j) /\ next' = [next EXCEPT ![c] = i]
      BY <2>3 DEF SendChunk
    <3>2. Active(c) /\ cpc[c] # "idle" /\ UNCHANGED <<up, chan, bitmap>> /\ next'[c] = i
      BY <2>3, <3>1 DEF SendChunk, Active, ClientTypes
    <3>3. i \in Index /\ i \in Nat /\ next[c] \in Nat
      BY <3>1 DEF Missing, Index, ClientTypes
    <3>4. ASSUME NEW j \in Index, j < Total[f], j < i PROVE j < next[c] \/ j \in bitmap[c]
      <4>1. j \notin Missing(c) /\ j \in Nat
        BY <3>1, <3>3, <3>4, Constants DEF Index
      <4>2. next[c] <= j => j \in bitmap[c]
        BY <1>3, <3>2, <3>4, <4>1 DEF Missing
      <4> QED BY <3>3, <4>1, <4>2
    <3>5. CASE ~ up[c]
      BY <3>2, <3>5 DEF ClientHas
    <3> QED BY <1>7, <1>8, <1>16, <3>2, <3>4, <3>5
  <2>4. CASE ReadBitmap(c) \/ ReadAck(c) \/ ReadOther(c)
    <3>1. /\ Active(c) /\ up' = up /\ chan[c] # <<>> /\ chan'[c] = Tail(chan[c])
          /\ Head(chan[c]).type # "ERROR"
      BY <2>4 DEF ReadBitmap, ReadAck, ReadOther, Reads, Got, AcksNext, Active, Announced
    <3>2. CASE ~ up[c]
      BY <3>1, <3>2 DEF ClientHas
    <3>3. CASE up[c]
      <4>1. Vouched(chan'[c], f, g_states[k], published[k])
        BY <1>7, <3>1, <3>3, VouchedParts
      <4>2. /\ Head(chan[c]).type = "CHUNK_ACK"
                 => Has(f, g_states[k], published[k], Head(chan[c]).index)
            /\ Head(chan[c]).type = "QUERY_RESPONSE"
                 => \A i \in Head(chan[c]).bitmap : Has(f, g_states[k], published[k], i)
        BY <1>7, <3>1, <3>3, VouchedParts
      <4>3. CASE ReadBitmap(c)
        <5>1. /\ Head(chan[c]).type = "QUERY_RESPONSE" /\ bitmap'[c] = Head(chan[c]).bitmap
              /\ next' = next
          BY <4>3 DEF ReadBitmap, Got, ClientTypes
        <5> QED BY <1>7, <1>8, <1>16, <3>1, <3>3, <4>1, <4>2, <5>1
      <4>4. CASE ReadAck(c)
        <5>1. /\ Head(chan[c]).type = "CHUNK_ACK" /\ Head(chan[c]).index = next[c]
              /\ next'[c] = next[c] + 1 /\ bitmap' = bitmap /\ next[c] \in Nat
          BY <4>4 DEF ReadAck, AcksNext, Got, ClientTypes
        <5>2. \A i \in Index : i < next[c] + 1 => i < next[c] \/ i = next[c]
          BY <5>1, Constants DEF Index
        <5> QED BY <1>7, <1>8, <1>16, <3>1, <3>3, <4>1, <4>2, <5>1, <5>2
      <4>5. CASE ReadOther(c)
        <5>1. next' = next /\ bitmap' = bitmap
          BY <4>5 DEF ReadOther
        <5> QED BY <1>7, <1>8, <1>16, <3>1, <3>3, <4>1, <5>1
      <4> QED BY <2>4, <4>3, <4>4, <4>5
    <3> QED BY <3>2, <3>3
  <2> QED BY <1>16, <2>1, <2>2, <2>3, <2>4 DEF Run
<1> QED
  BY <1>4, <1>10, <1>11, <1>12, <1>13, <1>14, <1>16 DEF UploadNext, Serve

(* The client is never ahead of the server, with any number of clients,     *)
(* workers and runs, and whatever old messages are still in the pool.  As   *)
(* for SuccessCorrect a path keeps its file, ids differ, and neither pwrite *)
(* nor rename fails; and the timer must drop no session, or an upload that  *)
(* stalls for longer than the expiry loses what it has been acknowledged.   *)
THEOREM NeverAheadCorrect ==
  ASSUME NEW path \in [Id -> File], \A c \in Client : Versions[c] \subseteq {path[FileId[c]]},
         Faults \cap {"pwrite", "rename"} = {}
  PROVE  UploadSpec /\ [][Cleanup => UNCHANGED g_states]_uploadVars => []ClientNeverAhead
<1> DEFINE Inv == /\ FileInv /\ Announced /\ ClientTypes /\ Intact(path)
                  /\ \A w \in Worker : WorkerSays(path, w)
                  /\ \A c \in Client : ClientHas(path, c)
<1>1. UploadInit => Inv
  <2> SUFFICES ASSUME UploadInit
               PROVE  Inv
    OBVIOUS
  <2>1. Init
    BY DEF UploadInit
  <2>2. Intact(path)
    BY <2>1 DEF Init, Intact, Live, NoState
  <2>3. \A w \in Worker : WorkerSays(path, w)
    BY DEF UploadInit, WorkerSays
  <2>4. \A c \in Client : ClientHas(path, c)
    BY DEF UploadInit, ClientHas
  <2> QED BY <2>1, <2>2, <2>3, <2>4, InitFileInv, InitAnnounced, InitClientTypes
<1>2. Inv /\ [UploadNext]_uploadVars /\ [Cleanup => UNCHANGED g_states]_uploadVars => Inv'
  <2> SUFFICES ASSUME Inv, [UploadNext]_uploadVars, [Cleanup => UNCHANGED g_states]_uploadVars
               PROVE  Inv'
    OBVIOUS
  <2>1. FileInv'
    BY SessionsStep, FileStep
  <2>2. Announced' /\ ClientTypes'
    BY <2>1, NextAnnounced, NextClientTypes DEF FileInv
  <2>3. Intact(path)'
    BY SessionsIntact
  <2>4. Cleanup => UNCHANGED g_states
    BY DEF uploadVars, vars
  <2>5. ASSUME NEW w \in Worker PROVE WorkerSays(path, w)'
    <3>1. WorkerSays(path, w)
      OBVIOUS
    <3> QED BY <2>1, <2>4, <3>1, NextWorkerSays
  <2>6. ASSUME NEW c \in Client PROVE ClientHas(path, c)'
    <3>1. ClientHas(path, c)
      OBVIOUS
    <3> QED BY <2>1, <2>4, <3>1, NextClientHas
  <2> QED BY <2>1, <2>2, <2>3, <2>5, <2>6
<1>3. Inv => ClientNeverAhead
  <2> SUFFICES ASSUME Inv, NEW c \in Client, cpc[c] \in {"chunk", "ack", "finish"}, up[c],
                      NEW i \in Index, i < Total[sends[c]], i < next[c] \/ i \in bitmap[c]
               PROVE  Delivered(c, i)
    BY DEF ClientNeverAhead
  <2>1. sends[c] = path[FileId[c]]
    BY DEF Announced
  <2>2. Has(path[FileId[c]], g_states[FileId[c]], published[FileId[c]], i)
    BY <2>1 DEF ClientHas, Active
  <2> QED BY <2>1, <2>2 DEF Has, Delivered, InPlace, Live
<1> HIDE DEF Inv
<1> QED BY <1>1, <1>2, <1>3, PTL DEF UploadSpec

(***************************************************************************)
(* What a client that has sent everything waits for.                       *)
(***************************************************************************)
Unfinished == \A id \in Id : Live(id) => ~ Full(g_states[id])

AllSent == \A c \in Client : cpc[c] = "finish" => Missing(c) = {}

(* A session is full only after a failed read.                              *)
LEMMA NextUnfinished ==
  ASSUME FileInv, Announced, Unfinished, "read" \notin Faults, [UploadNext]_uploadVars
  PROVE  Unfinished'
<1> SUFFICES ASSUME NEW k \in Id, Live(k)'
             PROVE  ~ Full(g_states'[k])
  BY DEF Unfinished, Live, Full
<1>1. [Next]_vars
  BY SessionsStep
<1>2. \/ g_states'[k].file \in File /\ g_states'[k].received_count = 0
      \/ ~ Full(g_states'[k])
      \/ Live(k) /\ Full(g_states[k])
      \/ "read" \in Faults
  BY <1>1, SessionChange DEF Full
<1>3. \A f \in File : Total[f] # 0
  BY FileTransferAssumption DEF FileTransferAssumption
<1> QED BY <1>2, <1>3 DEF Unfinished, Full

(* A client that waits for FINISH_ACK found no chunk missing.               *)
LEMMA NextAllSent ==
  ASSUME Announced, ClientTypes, AllSent, [UploadNext]_uploadVars
  PROVE  AllSent'
<1> USE DEF clientVars, poolVars
<1> SUFFICES ASSUME NEW c \in Client, cpc'[c] = "finish"
             PROVE  Missing(c)' = {}
  BY DEF AllSent
<1>1. ASSUME next'[c] = next[c], sends'[c] = sends[c], bitmap'[c] = bitmap[c], Missing(c) = {}
      PROVE  Missing(c)' = {}
  BY <1>1 DEF Missing
<1>2. ASSUME UNCHANGED <<cpc, next, sends, bitmap>>
      PROVE  Missing(c)' = {}
  BY <1>1, <1>2 DEF AllSent
<1>3. CASE Timer \/ ServerRestart \/ UNCHANGED uploadVars
  BY <1>2, <1>3 DEF Timer, ServerRestart, uploadVars
<1>4. ASSUME NEW w \in Worker, Serve(w)
      PROVE  Missing(c)' = {}
  BY <1>2, <1>4 DEF Serve, Take, Dropped, Handle, QueueReplies
<1>5. ASSUME NEW e \in Client, e # c, Begin(e) \/ Run(e) \/ Killed(e)
      PROVE  Missing(c)' = {}
  <2>1. next'[c] = next[c] /\ sends'[c] = sends[c] /\ bitmap'[c] = bitmap[c]
    BY <1>5
    DEF Begin, Run, Killed, SendStart, SendQuery, ReadBitmap, SendChunk, NothingMissing, ReadAck,
        ReadFinish, ReadError, ReadOther, ConnectionLost, Announced, ClientTypes
  <2>2. cpc'[c] = cpc[c]
    BY <1>5
    DEF Begin, Run, Killed, SendStart, SendQuery, ReadBitmap, SendChunk, NothingMissing, ReadAck,
        ReadFinish, ReadError, ReadOther, ConnectionLost, Goto, Announced
  <2> QED BY <1>1, <2>1, <2>2 DEF AllSent
<1>6. CASE NothingMissing(c)
  BY <1>1, <1>6 DEF NothingMissing
<1>7. CASE ReadOther(c)
  BY <1>2, <1>7 DEF ReadOther
<1>8. CASE Begin(c) \/ Killed(c) \/ SendStart(c) \/ SendQuery(c) \/ ReadBitmap(c) \/ SendChunk(c)
           \/ ReadAck(c) \/ ReadFinish(c) \/ ReadError(c) \/ ConnectionLost(c)
  <2>1. PICK l \in {"start", "query", "bitmap", "chunk", "ack", "ok", "failed"} : Goto(c, l)
    BY <1>8
    DEF Begin, Killed, SendStart, SendQuery, ReadBitmap, SendChunk, ReadAck, ReadFinish, ReadError,
        ConnectionLost, Goto
  <2> QED BY <2>1 DEF Goto, Announced
<1> QED BY <1>3, <1>4, <1>5, <1>6, <1>7, <1>8 DEF UploadNext, Run

(* A client that waits for FINISH_ACK never waits for a file that is not    *)
(* there: its chunks are in a session that would be full, and was finished. *)
(* What remains, and happens, is that an old chunk finished it.             *)
THEOREM WaitingIsPublished ==
  ASSUME NEW path \in [Id -> File], \A c \in Client : Versions[c] \subseteq {path[FileId[c]]},
         Faults \cap {"pwrite", "rename", "read"} = {}
  PROVE  UploadSpec /\ [][Cleanup => UNCHANGED g_states]_uploadVars => []WaitsForPublished
<1> DEFINE Inv == FileInv /\ Announced /\ ClientTypes /\ Intact(path) /\ Unfinished /\ AllSent
<1>0. Faults \cap {"pwrite", "rename"} = {} /\ "read" \notin Faults
  OBVIOUS
<1>1. UploadInit => Inv
  <2> SUFFICES ASSUME UploadInit
               PROVE  Inv
    OBVIOUS
  <2>1. Init
    BY DEF UploadInit
  <2>2. Intact(path) /\ Unfinished /\ AllSent
    BY <2>1 DEF Init, UploadInit, Intact, Unfinished, AllSent, Live, NoState
  <2> QED BY <2>1, <2>2, InitFileInv, InitAnnounced, InitClientTypes
<1>2. Inv /\ [UploadNext]_uploadVars => Inv'
  <2> SUFFICES ASSUME Inv, [UploadNext]_uploadVars
               PROVE  Inv'
    OBVIOUS
  <2>1. FileInv'
    BY SessionsStep, FileStep
  <2>2. Announced' /\ ClientTypes'
    BY <2>1, NextAnnounced, NextClientTypes DEF FileInv
  <2>3. Unfinished' /\ AllSent'
    BY <1>0, NextUnfinished, NextAllSent
  <2>4. Intact(path)'
    BY <1>0, SessionsIntact
  <2> QED BY <2>1, <2>2, <2>3, <2>4
<1>3. Inv /\ ClientNeverAhead => WaitsForPublished
  <2> SUFFICES ASSUME Inv, ClientNeverAhead, NEW c \in Client, up[c], cpc[c] = "finish", ~ InPlace(c)
               PROVE  FALSE
    BY DEF WaitsForPublished
  <2>1. PICK id \in Id : id = FileId[c]
    BY Constants
  <2>2. PICK f \in File : f = sends[c]
    BY Constants DEF Announced
  <2>3. Total[f] \in Nat /\ Total[f] \in 1..MaxChunks /\ MaxChunks \in Nat
    BY Constants
  <2>4. ASSUME NEW i \in 0..(Total[f] - 1)
        PROVE  Live(id) /\ g_states[id].file = f /\ i \in g_states[id].bitmap
    <3>1. i \in Index /\ i < Total[f] /\ next[c] \in Nat
      BY <2>3 DEF Index, ClientTypes
    <3>2. i < next[c] \/ i \in bitmap[c]
      <4>1. i \notin Missing(c)
        BY DEF AllSent
      <4> QED BY <2>2, <3>1, <4>1 DEF Missing, Index
    <3> QED BY <2>1, <2>2, <3>1, <3>2 DEF ClientNeverAhead, Delivered
  <2>5. Live(id) /\ g_states[id].file = f
    <3>1. 0 \in 0..(Total[f] - 1)
      BY <2>3
    <3> QED BY <2>4, <3>1
  <2>6. /\ g_states[id] \in Session
        /\ g_states[id].received_count = Cardinality(g_states[id].bitmap)
    BY <2>5, SessionTypes DEF FileInv, BitmapMatchesDisk, Faithful
  <2>7. Cardinality(g_states[id].bitmap) = Total[f]
    <3>1. g_states[id].bitmap \subseteq 0..(Total[f] - 1)
      BY <2>5 DEF Intact, Kept
    <3>2. g_states[id].bitmap = 0..(Total[f] - 1)
      BY <2>4, <3>1
    <3>3. Total[f] - 1 \in Int /\ ~ (0 > Total[f] - 1) /\ (Total[f] - 1) - 0 + 1 = Total[f]
      BY <2>3
    <3>4. Cardinality(0..(Total[f] - 1)) = Total[f]
      BY <3>3, FS_Interval
    <3> QED BY <3>2, <3>4
  <2> QED BY <2>5, <2>6, <2>7 DEF Unfinished, Full
<1> HIDE DEF Inv
<1>4. UploadSpec /\ [][Cleanup => UNCHANGED g_states]_uploadVars => []ClientNeverAhead
  BY <1>0, NeverAheadCorrect
<1> QED BY <1>1, <1>2, <1>3, <1>4, PTL DEF UploadSpec
=============================================================================
