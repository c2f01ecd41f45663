------------------------- MODULE FileTransferProofs -------------------------
(* What the upload sessions guarantee for every set of ids, files and       *)
(* faults, proved with TLAPS.                                               *)
EXTENDS FileTransfer, FiniteSetTheorems, TLAPS

(***************************************************************************)
(* The types and the bitmaps are invariant together:                       *)
(* received_count stays in its range because it counts the marked chunks,  *)
(* and a marked chunk has a place on disk because its index is in range.   *)
(***************************************************************************)
FileInv == TypeOK /\ BitmapMatchesDisk

(* A live id has a session, with a descriptor; any other has none.          *)
LEMMA SessionTypes ==
  ASSUME TypeOK, NEW id \in Id
  PROVE  /\ Live(id) => g_states[id] \in Session
         /\ ~ Live(id) => g_states[id] = NoState
<1>1. g_states[id] \in Session \/ g_states[id] = NoState
  BY DEF TypeOK
<1>2. NoState.fd = 0
  BY DEF NoState
<1>3. \A st \in Session : st.fd # 0
  BY DEF Session
<1> QED BY <1>1, <1>2, <1>3 DEF Live

(* Marking a chunk keeps the counter equal to the number of marked chunks,   *)
(* and so within the number of chunks there are.                            *)
LEMMA MarkedSession ==
  ASSUME NEW st \in Session, NEW i \in Index, st.received_count = Cardinality(st.bitmap),
         clock \in 0..MaxTime
  PROVE  /\ Marked(st, i) \in Session
         /\ Marked(st, i).received_count = Cardinality(Marked(st, i).bitmap)
         /\ Marked(st, i).bitmap = st.bitmap \cup {i}
         /\ Marked(st, i).file = st.file /\ Marked(st, i).fd = st.fd
<1>1. MaxChunks \in Nat \ {0}
  BY FileTransferAssumption DEF FileTransferAssumption
<1>2. IsFiniteSet(Index) /\ Cardinality(Index) = MaxChunks
  BY <1>1, FS_Interval DEF Index
<1>3. st.bitmap \subseteq Index /\ st.bitmap \cup {i} \subseteq Index
  BY DEF Session
<1>4. IsFiniteSet(st.bitmap) /\ IsFiniteSet(st.bitmap \cup {i})
  BY <1>2, <1>3, FS_Subset
<1>5. Cardinality(st.bitmap \cup {i}) \in Nat /\ Cardinality(st.bitmap) \in Nat
      /\ Cardinality(st.bitmap \cup {i}) <= MaxChunks
  BY <1>2, <1>3, <1>4, FS_Subset, FS_CardinalityType
<1>6. CASE i \in st.bitmap
  <2>1. st.bitmap \cup {i} = st.bitmap
    BY <1>6
  <2> QED BY <1>6, <2>1 DEF Marked
<1>7. CASE i \notin st.bitmap
  <2>1. Cardinality(st.bitmap \cup {i}) = st.received_count + 1
    BY <1>4, <1>7, FS_AddElement
  <2>2. st.received_count + 1 \in 0..MaxChunks
    BY <1>1, <1>5, <2>1
  <2> QED BY <1>3, <1>7, <2>1, <2>2 DEF Marked, Session
<1> QED BY <1>6, <1>7

(* A step that touches one id keeps the invariant if what it leaves there    *)
(* is as it should be.                                                      *)
LEMMA OneSession ==
  ASSUME FileInv, NEW id \in Id,
         NEW st \in Session \cup {NoState}, NEW t \in Content \cup {NoFile},
         NEW p \in Content \cup {NoFile},
         g_states' = [g_states EXCEPT ![id] = st],
         temp' = [temp EXCEPT ![id] = t],
         published' = [published EXCEPT ![id] = p],
         st.fd # 0 => Faithful(st, t)
  PROVE  /\ g_states' \in [Id -> Session \cup {NoState}]
         /\ temp' \in [Id -> Content \cup {NoFile}]
         /\ published' \in [Id -> Content \cup {NoFile}]
         /\ BitmapMatchesDisk'
<1>1. /\ g_states \in [Id -> Session \cup {NoState}]
      /\ temp \in [Id -> Content \cup {NoFile}]
      /\ published \in [Id -> Content \cup {NoFile}]
  BY DEF FileInv, TypeOK
<1>2. g_states' \in [Id -> Session \cup {NoState}] /\ temp' \in [Id -> Content \cup {NoFile}]
      /\ published' \in [Id -> Content \cup {NoFile}]
  BY <1>1
<1>3. ASSUME NEW d \in Id, Live(d)' PROVE Faithful(g_states'[d], temp'[d])
  BY <1>1, <1>3 DEF FileInv, BitmapMatchesDisk, Live
<1>4. BitmapMatchesDisk'
  BY <1>3 DEF BitmapMatchesDisk, Faithful
<1> QED BY <1>2, <1>4

(* The rest of TypeOK, for the steps that handle a message. *)
ReplySet == [type : {"QUERY_RESPONSE", "CHUNK_ACK", "FINISH_ACK", "ERROR"}, id : Id, ok : BOOLEAN]

(* Every list of replies the handlers build is one.                         *)
LEMMA ReplyTypes ==
  ASSUME NEW id \in Id, NEW i \in Index
  PROVE  /\ \A b \in BOOLEAN : <<Reply("QUERY_RESPONSE", id, b)>> \in Seq(ReplySet)
         /\ Error(id) \in Seq(ReplySet)
         /\ \A b \in BOOLEAN : Append(Error(id), Reply("CHUNK_ACK", id, b)) \in Seq(ReplySet)
         /\ <<Ack(id, i)>> \in Seq(ReplySet)
         /\ <<Ack(id, i), Reply("ERROR", id, FALSE)>> \in Seq(ReplySet)
         /\ \A b \in BOOLEAN : <<Ack(id, i), Reply("FINISH_ACK", id, b)>> \in Seq(ReplySet)
<1>1. \A b \in BOOLEAN : /\ Reply("QUERY_RESPONSE", id, b) \in ReplySet
                        /\ Reply("ERROR", id, b) \in ReplySet
                        /\ Reply("CHUNK_ACK", id, b) \in ReplySet
                        /\ Reply("FINISH_ACK", id, b) \in ReplySet
  BY DEF Reply, ReplySet
<1>2. Ack(id, i) \in ReplySet
  BY <1>1 DEF Ack
<1>3. \A a \in ReplySet : <<a>> \in Seq(ReplySet)
  OBVIOUS
<1>4. \A a, b \in ReplySet : <<a, b>> \in Seq(ReplySet)
  OBVIOUS
<1>5. \A a, b \in ReplySet : Append(<<a>>, b) \in Seq(ReplySet)
  BY <1>3
<1> QED BY <1>1, <1>2, <1>3, <1>4, <1>5 DEF Error

(* Closing a descriptor and opening one keep the descriptor table.          *)
LEMMA ClosedTypes ==
  ASSUME TypeOK, NEW id \in Id
  PROVE  /\ Closed(id) \in [1..MaxFds -> Id \cup {NoFile}]
         /\ \A n \in 1..MaxFds : [Closed(id) EXCEPT ![n] = id] \in [1..MaxFds -> Id \cup {NoFile}]
BY DEF TypeOK, Closed

(* What is in a file after each of the writes the handlers do is a content. *)
LEMMA Contents ==
  /\ Empty \in Content /\ NoFile \notin Content
  /\ \A f \in File : Whole(f) \in Content
  /\ \A c \in Content, i \in Index, r \in Region : [c EXCEPT ![i] = r] \in Content
BY ContentAssumption DEF ContentAssumption, Content, Empty, Whole, Region

(* Every path through the handlers, the timer and the disk keeps FileInv.   *)
LEMMA FileStep ==
  ASSUME FileInv, [Next]_vars
  PROVE  FileInv'
<1>0. /\ TypeOK /\ clock \in 0..MaxTime /\ sampled \in -1..MaxTime /\ MaxTime \in Nat
      /\ g_states \in [Id -> Session \cup {NoState}]
      /\ temp \in [Id -> Content \cup {NoFile}]
      /\ published \in [Id -> Content \cup {NoFile}]
      /\ fds \in [1..MaxFds -> Id \cup {NoFile}]
      /\ replies \in Seq(ReplySet)
  BY FileTransferAssumption DEF FileInv, TypeOK, FileTransferAssumption, ReplySet
<1>1. NoState.fd = 0 /\ 0 \in Index
  BY FileTransferAssumption DEF NoState, FileTransferAssumption, Index
<1>2. \A id \in Id : Live(id) => /\ g_states[id] \in Session
                                 /\ Faithful(g_states[id], temp[id])
                                 /\ temp[id] \in Content
  BY <1>0, SessionTypes DEF FileInv, BitmapMatchesDisk, Faithful
<1>3. ASSUME NEW id \in Id,
             NEW st \in Session \cup {NoState}, NEW t \in Content \cup {NoFile},
             NEW p \in Content \cup {NoFile},
             g_states' = [g_states EXCEPT ![id] = st],
             temp' = [temp EXCEPT ![id] = t],
             published' = [published EXCEPT ![id] = p],
             fds' \in [1..MaxFds -> Id \cup {NoFile}],
             clock' = clock, sampled' = sampled, replies' \in Seq(ReplySet),
             st.fd # 0 => Faithful(st, t)
      PROVE  FileInv'
  BY <1>0, <1>3, OneSession DEF FileInv, TypeOK, ReplySet
<1>4. ASSUME NEW id \in Id, Live(id), g_states' = [g_states EXCEPT ![id].last_update_ts = clock],
             UNCHANGED <<temp, published, fds, clock, sampled>>, replies' \in Seq(ReplySet)
      PROVE  FileInv'
  <2> DEFINE st == [g_states[id] EXCEPT !.last_update_ts = clock]
  <2>1. st \in Session /\ Faithful(st, temp[id])
    BY <1>0, <1>2, <1>4 DEF Session, Faithful
  <2>2. /\ g_states' = [g_states EXCEPT ![id] = st]
        /\ temp' = [temp EXCEPT ![id] = temp[id]]
        /\ published' = [published EXCEPT ![id] = published[id]]
    BY <1>0, <1>4
  <2>3. /\ fds' \in [1..MaxFds -> Id \cup {NoFile}] /\ clock' = clock /\ sampled' = sampled
        /\ temp[id] \in Content /\ replies' \in Seq(ReplySet)
    BY <1>0, <1>2, <1>4
  <2>4. published[id] \in Content \cup {NoFile}
    BY <1>0
  <2> HIDE DEF st
  <2> QED BY <1>3, <2>1, <2>2, <2>3, <2>4
<1>5. ASSUME NEW id \in Id, NEW f \in File, StartResumes(id, f) PROVE FileInv'
  BY <1>1, <1>4, <1>5, ReplyTypes DEF StartResumes
<1>6. ASSUME NEW id \in Id, Query(id) PROVE FileInv'
  <2>1. replies' \in Seq(ReplySet)
    BY <1>1, <1>6, ReplyTypes DEF Query
  <2>2. CASE Live(id)
    BY <1>4, <1>6, <2>1, <2>2 DEF Query
  <2>3. CASE ~ Live(id)
    <3>1. /\ g_states' = [g_states EXCEPT ![id] = g_states[id]]
          /\ temp' = [temp EXCEPT ![id] = temp[id]]
          /\ published' = [published EXCEPT ![id] = published[id]]
          /\ UNCHANGED <<fds, clock, sampled>> /\ g_states[id].fd = 0
      BY <1>0, <1>6, <2>3 DEF Query, Live
    <3> QED BY <1>0, <1>3, <2>1, <3>1
  <2> QED BY <2>2, <2>3
<1>7. ASSUME NEW id \in Id, NEW f \in File,
             StartOpenFails(id, f) \/ StartTruncateFails(id, f) \/ StartNoMemory(id, f)
      PROVE  FileInv'
  <2>1. replies' \in Seq(ReplySet) /\ UNCHANGED <<published, clock, sampled>>
        /\ g_states' = [g_states EXCEPT ![id] = NoState]
    BY <1>1, <1>7, ReplyTypes DEF StartOpenFails, StartTruncateFails, StartNoMemory
  <2>2. fds' \in [1..MaxFds -> Id \cup {NoFile}]
    <3>1. fds' = Closed(id) \/ \E n \in 1..MaxFds : fds' = [Closed(id) EXCEPT ![n] = id]
      BY <1>7 DEF StartOpenFails, StartTruncateFails, StartNoMemory
    <3>2. CASE fds' = Closed(id)
      BY <1>0, <3>2, ClosedTypes
    <3>3. CASE \E n \in 1..MaxFds : fds' = [Closed(id) EXCEPT ![n] = id]
      <4>1. PICK n \in 1..MaxFds : fds' = [Closed(id) EXCEPT ![n] = id]
        BY <3>3
      <4> QED BY <1>0, <4>1, ClosedTypes
    <3> QED BY <3>1, <3>2, <3>3
  <2>3. temp' = [temp EXCEPT ![id] = temp[id]] \/ temp' = [temp EXCEPT ![id] = Empty]
    BY <1>0, <1>7 DEF StartOpenFails, StartTruncateFails, StartNoMemory
  <2>4. published' = [published EXCEPT ![id] = published[id]]
    BY <1>0, <2>1
  <2> QED BY <1>0, <1>1, <1>3, <2>1, <2>2, <2>3, <2>4, Contents
<1>8. ASSUME NEW id \in Id, NEW f \in File, StartCreates(id, f) PROVE FileInv'
  <2>1. PICK n \in 1..MaxFds :
          /\ fds' = [Closed(id) EXCEPT ![n] = id]
          /\ g_states' = [g_states EXCEPT ![id] =
               [file |-> f, bitmap |-> {}, received_count |-> 0, fd |-> n, last_update_ts |-> clock]]
    BY <1>8 DEF StartCreates
  <2> DEFINE st == [file |-> f, bitmap |-> {}, received_count |-> 0, fd |-> n, last_update_ts |-> clock]
  <2>2. st \in Session
    BY <1>0, FileTransferAssumption DEF Session, FileTransferAssumption
  <2>3. st.received_count = Cardinality(st.bitmap) /\ st.bitmap = {}
    BY FS_EmptySet
  <2>4. Faithful(st, Empty)
    BY <2>3, Contents DEF Faithful, Empty
  <2>5. fds' \in [1..MaxFds -> Id \cup {NoFile}]
    BY <1>0, <2>1, ClosedTypes
  <2>6. /\ temp' = [temp EXCEPT ![id] = Empty] /\ replies' \in Seq(ReplySet)
        /\ published' = [published EXCEPT ![id] = published[id]]
        /\ UNCHANGED <<clock, sampled>> /\ g_states' = [g_states EXCEPT ![id] = st]
    BY <1>0, <1>1, <1>8, <2>1, ReplyTypes DEF StartCreates
  <2> HIDE DEF st
  <2> QED BY <1>0, <1>3, <2>2, <2>4, <2>5, <2>6, Contents
<1>9. ASSUME NEW id \in Id, NEW i \in Index, NEW d \in Data, ChunkRejected(id, i, d) PROVE FileInv'
  <2>1. replies' \in Seq(ReplySet)
    BY <1>9, ReplyTypes DEF ChunkRejected
  <2>2. /\ g_states' = [g_states EXCEPT ![id] = g_states[id]]
        /\ temp' = [temp EXCEPT ![id] = temp[id]]
        /\ published' = [published EXCEPT ![id] = published[id]]
        /\ UNCHANGED <<fds, clock, sampled>>
    BY <1>0, <1>9 DEF ChunkRejected
  <2> QED BY <1>0, <1>2, <1>3, <2>1, <2>2 DEF Live
<1>10. ASSUME NEW id \in Id, NEW i \in Index, NEW d \in Data, ChunkWriteFails(id, i, d) PROVE FileInv'
  <2>1. PICK r \in {temp[id][i], IF temp[id][i] = "odd" THEN "odd" ELSE "torn"} :
          temp' = [temp EXCEPT ![id][i] = r]
    BY <1>10 DEF ChunkWriteFails
  <2>2. Live(id) /\ g_states[id] \in Session /\ temp[id] \in Content /\ Faithful(g_states[id], temp[id])
    BY <1>2, <1>10 DEF ChunkWriteFails, Accepted
  <2> DEFINE t == [temp[id] EXCEPT ![i] = r]
  <2>3. t \in Content
    BY <2>1, <2>2, Contents DEF Content, Region
  <2>4. Faithful(g_states[id], t)
    BY <2>1, <2>2, <2>3, Contents DEF Faithful, Content
  <2>5. /\ g_states' = [g_states EXCEPT ![id] = g_states[id]]
        /\ temp' = [temp EXCEPT ![id] = t]
        /\ published' = [published EXCEPT ![id] = published[id]]
        /\ UNCHANGED <<fds, clock, sampled>> /\ replies' \in Seq(ReplySet)
    BY <1>0, <1>10, <2>1, ReplyTypes DEF ChunkWriteFails
  <2> HIDE DEF t
  <2> QED BY <1>0, <1>3, <2>2, <2>3, <2>4, <2>5
<1>11. ASSUME NEW id \in Id, NEW i \in Index, NEW d \in Data, Accepted(id, i, d),
              NEW r \in Written(temp[id][i], d)
       PROVE  /\ Marked(g_states[id], i) \in Session
              /\ [temp[id] EXCEPT ![i] = r] \in Content
              /\ Faithful(Marked(g_states[id], i), [temp[id] EXCEPT ![i] = r])
  <2>1. /\ g_states[id] \in Session /\ temp[id] \in Content /\ d \in Region \ {"hole"}
        /\ Faithful(g_states[id], temp[id])
    BY <1>2, <1>11, FileTransferAssumption DEF Accepted, Data, Region, FileTransferAssumption
  <2>2. r \in Region \ {"hole"}
    BY <1>11, <2>1 DEF Written, Region
  <2>3. /\ Marked(g_states[id], i) \in Session
        /\ Marked(g_states[id], i).received_count = Cardinality(Marked(g_states[id], i).bitmap)
        /\ Marked(g_states[id], i).bitmap = g_states[id].bitmap \cup {i}
    BY <1>0, <2>1, MarkedSession DEF Faithful
  <2>4. [temp[id] EXCEPT ![i] = r] \in Content
    BY <2>1, <2>2, Contents
  <2>5. \A j \in Index : [temp[id] EXCEPT ![i] = r][j] = IF j = i THEN r ELSE temp[id][j]
    BY <2>1 DEF Content
  <2> QED BY <2>1, <2>2, <2>3, <2>4, <2>5, Contents DEF Faithful
<1>12. ASSUME NEW id \in Id, NEW i \in Index, NEW d \in Data,
              ChunkStored(id, i, d) \/ FinishReadFails(id, i, d)
       PROVE  FileInv'
  <2>1. PICK r \in Written(temp[id][i], d) : temp' = [temp EXCEPT ![id][i] = r]
    BY <1>12 DEF ChunkStored, FinishReadFails
  <2>2. /\ Accepted(id, i, d) /\ UNCHANGED <<published, fds, clock, sampled>>
        /\ g_states' = [g_states EXCEPT ![id] = Marked(g_states[id], i)]
        /\ replies' \in Seq(ReplySet)
    BY <1>12, ReplyTypes DEF ChunkStored, FinishReadFails
  <2>3. /\ temp' = [temp EXCEPT ![id] = [temp[id] EXCEPT ![i] = r]]
        /\ published' = [published EXCEPT ![id] = published[id]]
    BY <1>0, <2>1, <2>2
  <2> QED BY <1>0, <1>3, <1>11, <2>2, <2>3
<1>13. ASSUME NEW id \in Id, NEW i \in Index, NEW d \in Data, Finish(id, i, d) PROVE FileInv'
  <2>1. PICK r \in Written(temp[id][i], d) :
          LET content == [temp[id] EXCEPT ![i] = r]
          IN /\ CrcMatches(content, Marked(g_states[id], i).file)
             /\ \/ /\ published' = [published EXCEPT ![id] = content]
                   /\ temp' = [temp EXCEPT ![id] = NoFile]
                \/ /\ temp' = [temp EXCEPT ![id] = content]
                   /\ UNCHANGED published
    BY <1>13 DEF Finish
  <2> DEFINE t == [temp[id] EXCEPT ![i] = r]
  <2>2. Accepted(id, i, d) /\ UNCHANGED <<clock, sampled>> /\ fds' = Closed(id)
        /\ g_states' = [g_states EXCEPT ![id] = NoState] /\ replies' \in Seq(ReplySet)
    BY <1>13, ReplyTypes DEF Finish
  <2>3. t \in Content /\ t = Whole(Marked(g_states[id], i).file)
        /\ Marked(g_states[id], i).file \in File
    BY <1>11, <2>1, <2>2 DEF CrcMatches, Session
  <2>4. fds' \in [1..MaxFds -> Id \cup {NoFile}]
    BY <1>0, <2>2, ClosedTypes
  <2>5. CASE published' = [published EXCEPT ![id] = t] /\ temp' = [temp EXCEPT ![id] = NoFile]
    <3> HIDE DEF t
    <3> QED BY <1>1, <1>3, <2>2, <2>3, <2>4, <2>5
  <2>6. CASE published' = published /\ temp' = [temp EXCEPT ![id] = t]
    <3> HIDE DEF t
    <3>1. published' = [published EXCEPT ![id] = published[id]]
      BY <1>0, <2>6
    <3> QED BY <1>0, <1>1, <1>3, <2>2, <2>3, <2>4, <2>6, <3>1
  <2> QED BY <2>1, <2>5, <2>6
<1>14. ASSUME NEW id \in Id, NEW i \in Index, NEW d \in Data, FinishMismatch(id, i, d) PROVE FileInv'
  <2>1. /\ UNCHANGED <<published, clock, sampled>> /\ fds' = Closed(id)
        /\ g_states' = [g_states EXCEPT ![id] = NoState] /\ replies' \in Seq(ReplySet)
        /\ temp' = [temp EXCEPT ![id] = NoFile]
    BY <1>14, ReplyTypes DEF FinishMismatch
  <2>2. published' = [published EXCEPT ![id] = published[id]] /\ fds' \in [1..MaxFds -> Id \cup {NoFile}]
    BY <1>0, <2>1, ClosedTypes
  <2> QED BY <1>0, <1>1, <1>3, <2>1, <2>2
<1>15. ASSUME NEW ids \in SUBSET Id, Drop(ids), UNCHANGED <<published, clock>>,
              sampled' = -1, replies' = <<>>
       PROVE  FileInv'
  <2>1. /\ g_states' = [id \in Id |-> IF id \in ids THEN NoState ELSE g_states[id]]
        /\ temp' = [id \in Id |-> IF id \in ids THEN NoFile ELSE temp[id]]
        /\ fds' \in [1..MaxFds -> Id \cup {NoFile}]
    BY <1>0, <1>15 DEF Drop
  <2>2. TypeOK'
    BY <1>0, <1>15, <2>1 DEF TypeOK
  <2>3. BitmapMatchesDisk'
    BY <1>1, <2>1 DEF BitmapMatchesDisk, Live, FileInv, Faithful
  <2> QED BY <1>15, <2>2, <2>3 DEF FileInv
<1>16. ASSUME Cleanup PROVE FileInv'
  <2>1. PICK ids \in SUBSET Id : Drop(ids)
    BY <1>16 DEF Cleanup
  <2> QED BY <1>15, <1>16, <2>1 DEF Cleanup
<1>17. ASSUME ReadClock \/ Tick \/ ClockSetBack \/ UNCHANGED vars PROVE FileInv'
  <2>1. UNCHANGED <<g_states, temp, published, fds>> /\ clock' \in 0..MaxTime /\ sampled' \in -1..MaxTime
        /\ replies' \in Seq(ReplySet)
    <3>1. CASE ReadClock
      BY <1>0, <3>1 DEF ReadClock
    <3>2. CASE Tick
      BY <1>0, <3>2 DEF Tick
    <3>3. CASE ClockSetBack
      BY <1>0, <3>3 DEF ClockSetBack
    <3>4. CASE UNCHANGED vars
      BY <1>0, <3>4 DEF vars
    <3> QED BY <1>17, <3>1, <3>2, <3>3, <3>4
  <2>2. TypeOK'
    BY <1>0, <2>1 DEF TypeOK, ReplySet
  <2> QED BY <2>1, <2>2 DEF FileInv, BitmapMatchesDisk, Faithful, Live
<1>18. ASSUME Restart PROVE FileInv'
  <2>1. TypeOK'
    BY <1>0, <1>18 DEF Restart, TypeOK
  <2> QED BY <1>1, <1>18, <2>1 DEF Restart, FileInv, BitmapMatchesDisk, Live
<1>19. ASSUME NEW id \in Id, NEW f \in File, FileStart(id, f) PROVE FileInv'
  BY <1>5, <1>7, <1>8, <1>19 DEF FileStart
<1>20. ASSUME NEW id \in Id, NEW i \in Index, NEW d \in Data, FileChunk(id, i, d) PROVE FileInv'
  BY <1>9, <1>10, <1>12, <1>13, <1>14, <1>20 DEF FileChunk
<1>21. CASE handleClientMessage
  BY <1>6, <1>19, <1>20, <1>21 DEF handleClientMessage
<1> QED BY <1>16, <1>17, <1>18, <1>21 DEF Next

LEMMA InitFileInv == Init => FileInv
<1> SUFFICES ASSUME Init
             PROVE  FileInv
  OBVIOUS
<1>1. NoState.fd = 0 /\ MaxTime \in Nat /\ 0 \in 0..MaxTime
  BY FileTransferAssumption DEF NoState, FileTransferAssumption
<1>2. TypeOK
  BY <1>1 DEF Init, TypeOK
<1> QED BY <1>1, <1>2 DEF Init, FileInv, BitmapMatchesDisk, Live

(* Whatever the ids, files and faults: the session's bitmap tells the truth  *)
(* about the disk.                                                          *)
LEMMA FileInvariant == Spec => []FileInv
<1>1. FileInv /\ [Next]_vars => FileInv'
  BY FileStep
<1> QED BY <1>1, InitFileInv, PTL DEF Spec

(* TypeOK is an invariant: the chunk counter and the descriptors never leave *)
(* their range, whichever calls fail.                                       *)
THEOREM TypeCorrect == Spec => []TypeOK
<1>1. FileInv => TypeOK
  BY DEF FileInv
<1> QED BY <1>1, FileInvariant, PTL

(* A resumed upload can rely on the bitmap it is sent.                      *)
THEOREM BitmapCorrect == Spec => []BitmapMatchesDisk
<1>1. FileInv => BitmapMatchesDisk
  BY DEF FileInv
<1> QED BY <1>1, FileInvariant, PTL

(***************************************************************************)
(* The sessions implement the upload service: every path through the two   *)
(* handlers is a step of UploadService or none.                            *)
(***************************************************************************)
(* The stored file of an id is read off its final path.                     *)
LEMMA StoredFile ==
  /\ FileOf(NoFile) = NoFile
  /\ \A f \in File : FileOf(Whole(f)) = f
<1>1. FileOf(NoFile) = NoFile
  BY DEF FileOf
<1>2. ASSUME NEW f \in File PROVE FileOf(Whole(f)) = f
  <2>1. 0 \in Index /\ \A g \in File : 0 < Total[g]
    BY FileTransferAssumption DEF FileTransferAssumption, Index
  <2>2. \A g \in File : Whole(g)[0] = g
    BY <2>1 DEF Whole
  <2>3. \A g \in File : Whole(f) = Whole(g) => g = f
    BY <2>2
  <2>4. Whole(f) # NoFile
    BY Contents
  <2> QED BY <2>3, <2>4 DEF FileOf
<1> QED BY <1>1, <1>2

(* Every step is a step of UploadService, or changes nothing it sees.       *)
LEMMA ServiceStep ==
  ASSUME FileInv, [Next]_vars
  PROVE  [Service!UNext]_(Service!uvars)
<1> USE DEF Service!uvars
<1>0. /\ g_states \in [Id -> Session \cup {NoState}] /\ NoState.file = NoFile /\ NoState.bitmap = {}
      /\ \A id \in Id : Live(id) => /\ g_states[id] \in Session /\ g_states[id].file \in File
                                    /\ Faithful(g_states[id], temp[id]) /\ temp[id] \in Content
      /\ \A id \in Id : ~ Live(id) => g_states[id] = NoState
      /\ NoFile \notin File /\ published \in [Id -> Content \cup {NoFile}]
  BY SessionTypes, FileTransferAssumption
     DEF FileInv, TypeOK, BitmapMatchesDisk, Faithful, Session, NoState, FileTransferAssumption
<1>1. ASSUME UNCHANGED published,
             \A id \in Id : g_states'[id].file = g_states[id].file
             /\ g_states'[id].bitmap = g_states[id].bitmap
      PROVE  UNCHANGED Service!uvars
  BY <1>1
<1>2. ASSUME NEW ids \in SUBSET Id, UNCHANGED published,
             \A id \in Id : g_states'[id] = IF id \in ids THEN NoState ELSE g_states[id]
      PROVE  Service!UNext
  <2>1. Service!Abandon(ids)
    BY <1>0, <1>2 DEF Service!Abandon
  <2> QED BY <2>1 DEF Service!UNext
<1>3. ASSUME NEW id \in Id, NEW f \in File, StartCreates(id, f) PROVE Service!UNext
  <2>1. /\ UNCHANGED published /\ g_states[id].file # f
        /\ g_states'[id].file = f /\ g_states'[id].bitmap = {}
        /\ \A d \in Id \ {id} : g_states'[d] = g_states[d]
    BY <1>0, <1>3 DEF StartCreates, Replaces
  <2>2. Service!Begin(id, f)
    BY <1>0, <2>1 DEF Service!Begin
  <2> QED BY <2>2 DEF Service!UNext
<1>4. ASSUME NEW id \in Id, NEW i \in Index, NEW d \in Data,
             ChunkStored(id, i, d) \/ FinishReadFails(id, i, d)
      PROVE  Service!UNext
  <2>1. /\ Accepted(id, i, d) /\ UNCHANGED published
        /\ g_states' = [g_states EXCEPT ![id] = Marked(g_states[id], i)]
    BY <1>4 DEF ChunkStored, FinishReadFails
  <2>2. /\ g_states[id] \in Session /\ clock \in 0..MaxTime
        /\ g_states[id].received_count = Cardinality(g_states[id].bitmap)
        /\ i \in 0..(Total[g_states[id].file] - 1) /\ g_states[id].file \in File
    BY <1>0, <2>1, FileTransferAssumption
       DEF Accepted, Faithful, FileInv, TypeOK, Index, FileTransferAssumption
  <2>3. /\ g_states'[id].file = g_states[id].file
        /\ g_states'[id].bitmap = g_states[id].bitmap \cup {i}
        /\ \A k \in Id \ {id} : g_states'[k] = g_states[k]
    BY <1>0, <2>1, <2>2, MarkedSession
  <2>4. Service!Collect(id, i)
    BY <1>0, <2>1, <2>2, <2>3 DEF Service!Collect
  <2> QED BY <1>0, <2>2, <2>4 DEF Service!UNext
<1>5. ASSUME NEW id \in Id, NEW i \in Index, NEW d \in Data, Finish(id, i, d)
      PROVE  Service!UNext
  <2>1. PICK r \in Written(temp[id][i], d) :
          LET content == [temp[id] EXCEPT ![i] = r]
          IN /\ CrcMatches(content, Marked(g_states[id], i).file)
             /\ \/ published' = [published EXCEPT ![id] = content]
                \/ UNCHANGED published
    BY <1>5 DEF Finish
  <2>2. Accepted(id, i, d) /\ g_states' = [g_states EXCEPT ![id] = NoState]
    BY <1>5 DEF Finish
  <2>3. CASE UNCHANGED published
    <3>1. \A k \in Id : g_states'[k] = IF k \in {id} THEN NoState ELSE g_states[k]
      BY <1>0, <2>2
    <3> QED BY <1>2, <2>3, <3>1
  <2>4. CASE published' = [published EXCEPT ![id] = [temp[id] EXCEPT ![i] = r]]
    <3> DEFINE f == g_states[id].file
    <3>1. /\ g_states[id] \in Session /\ clock \in 0..MaxTime /\ f \in File
          /\ i \in 0..(Total[f] - 1) /\ temp[id] \in Content /\ Faithful(g_states[id], temp[id])
          /\ 0..(Total[f] - 1) \subseteq Index /\ f \notin {"hole", "torn"}
      BY <1>0, <2>2, FileTransferAssumption
         DEF Accepted, FileInv, TypeOK, Index, FileTransferAssumption
    <3>2. Marked(g_states[id], i).file = f
      BY <3>1, MarkedSession DEF Faithful
    <3>3. [temp[id] EXCEPT ![i] = r] = Whole(f)
      BY <2>1, <3>2 DEF CrcMatches
    <3>4. \A j \in Index \ {i} : temp[id][j] = IF j < Total[f] THEN f ELSE "hole"
      BY <3>1, <3>3 DEF Whole, Content
    <3>5. g_states[id].bitmap \cup {i} = 0..(Total[f] - 1)
      <4>1. g_states[id].bitmap \subseteq Index
        BY <3>1 DEF Session
      <4>2. \A j \in Index \ {i} : j \in g_states[id].bitmap <=> j < Total[f]
        BY <3>1, <3>4 DEF Faithful
      <4>3. \A j \in Index : j < Total[f] <=> j \in 0..(Total[f] - 1)
        BY <3>1, FileTransferAssumption DEF Index, FileTransferAssumption
      <4> QED BY <3>1, <4>1, <4>2, <4>3
    <3>6. /\ g_states'[id] = NoState
          /\ \A k \in Id \ {id} : g_states'[k] = g_states[k]
      BY <1>0, <2>2
    <3>7. /\ FileOf(published'[id]) = f
          /\ \A k \in Id \ {id} : published'[k] = published[k]
      BY <1>0, <2>4, <3>1, <3>3, StoredFile
    <3>8. Service!Store(id)
      BY <1>0, <3>1, <3>5, <3>6, <3>7 DEF Service!Store
    <3> QED BY <3>8 DEF Service!UNext
  <2> QED BY <2>1, <2>3, <2>4
<1>6. ASSUME NEW id \in Id, NEW f \in File, FileStart(id, f) PROVE [Service!UNext]_(Service!uvars)
  <2>1. CASE StartResumes(id, f)
    <3>1. UNCHANGED published /\ \A k \in Id : g_states'[k].file = g_states[k].file
                               /\ g_states'[k].bitmap = g_states[k].bitmap
      BY <1>0, <2>1 DEF StartResumes, Session
    <3> QED BY <1>1, <3>1
  <2>2. CASE StartOpenFails(id, f) \/ StartTruncateFails(id, f) \/ StartNoMemory(id, f)
    <3>1. UNCHANGED published /\ g_states' = [g_states EXCEPT ![id] = NoState]
      BY <2>2 DEF StartOpenFails, StartTruncateFails, StartNoMemory
    <3>2. \A k \in Id : g_states'[k] = IF k \in {id} THEN NoState ELSE g_states[k]
      BY <1>0, <3>1
    <3> QED BY <1>2, <3>1, <3>2
  <2> QED BY <1>3, <1>6, <2>1, <2>2 DEF FileStart
<1>7. ASSUME NEW id \in Id, Query(id) PROVE [Service!UNext]_(Service!uvars)
  <2>1. UNCHANGED published /\ \A k \in Id : g_states'[k].file = g_states[k].file
                             /\ g_states'[k].bitmap = g_states[k].bitmap
    <3>1. CASE Live(id)
      BY <1>0, <1>7, <3>1 DEF Query, Session
    <3>2. CASE ~ Live(id)
      BY <1>7, <3>2 DEF Query
    <3> QED BY <3>1, <3>2
  <2> QED BY <1>1, <2>1
<1>8. ASSUME NEW id \in Id, NEW i \in Index, NEW d \in Data, FileChunk(id, i, d)
      PROVE  [Service!UNext]_(Service!uvars)
  <2>1. CASE ChunkRejected(id, i, d) \/ ChunkWriteFails(id, i, d)
    BY <1>1, <2>1 DEF ChunkRejected, ChunkWriteFails
  <2>2. CASE FinishMismatch(id, i, d)
    <3>1. UNCHANGED published /\ g_states' = [g_states EXCEPT ![id] = NoState]
      BY <2>2 DEF FinishMismatch
    <3>2. \A k \in Id : g_states'[k] = IF k \in {id} THEN NoState ELSE g_states[k]
      BY <1>0, <3>1
    <3> QED BY <1>2, <3>1, <3>2
  <2> QED BY <1>4, <1>5, <1>8, <2>1, <2>2 DEF FileChunk
<1>9. ASSUME Cleanup PROVE Service!UNext
  <2>1. PICK ids \in SUBSET Id : Drop(ids) /\ UNCHANGED published
    BY <1>9 DEF Cleanup
  <2> QED BY <1>2, <2>1 DEF Drop
<1>10. ASSUME Restart PROVE Service!UNext
  <2>1. UNCHANGED published /\ \A k \in Id : g_states'[k] = IF k \in Id THEN NoState ELSE g_states[k]
    BY <1>10 DEF Restart
  <2> QED BY <1>2, <2>1
<1>11. CASE ReadClock \/ Tick \/ ClockSetBack \/ UNCHANGED vars
  BY <1>1, <1>11 DEF ReadClock, Tick, ClockSetBack, vars
<1> QED BY <1>6, <1>7, <1>8, <1>9, <1>10, <1>11 DEF Next, handleClientMessage

(* The file handlers implement UploadService: what is stored under an id is  *)
(* the file its START announced, complete and intact.                       *)
THEOREM ServiceImplemented == Spec => ImplementsUploadService
<1>1. Init => Service!UInit
  BY StoredFile DEF Init, Service!UInit, NoState
<1>2. FileInv /\ [Next]_vars => [Service!UNext]_(Service!uvars)
  BY ServiceStep
<1> QED BY <1>1, <1>2, FileInvariant, PTL DEF Spec, ImplementsUploadService, Service!USpec

(***************************************************************************)
(* Descriptors.  Only a failed allocation, between the open and the        *)
(* insertion into the map, can leave one behind.                           *)
(***************************************************************************)
(* Every step but the failed allocation keeps the descriptors matched.      *)
LEMMA DescriptorsStep ==
  ASSUME "memory" \notin Faults, FileInv, DescriptorsMatch, [Next]_vars
  PROVE  DescriptorsMatch'
<1>0. /\ g_states \in [Id -> Session \cup {NoState}] /\ NoState.fd = 0
      /\ \A id \in Id : Live(id) => g_states[id] \in Session /\ g_states[id].fd \in 1..MaxFds
                                    /\ g_states[id].received_count = Cardinality(g_states[id].bitmap)
      /\ \A id \in Id : ~ Live(id) => g_states[id] = NoState
      /\ fds \in [1..MaxFds -> Id \cup {NoFile}] /\ NoFile \notin Id
      /\ 0 \notin 1..MaxFds /\ clock \in 0..MaxTime
  BY SessionTypes, FileTransferAssumption
     DEF FileInv, TypeOK, BitmapMatchesDisk, Faithful, Session, NoState, FileTransferAssumption
<1>1. ASSUME UNCHANGED fds, \A id \in Id : g_states'[id].fd = g_states[id].fd
      PROVE  DescriptorsMatch'
  BY <1>0, <1>1 DEF DescriptorsMatch, Live
<1>2. ASSUME NEW id \in Id, fds' = Closed(id), g_states' = [g_states EXCEPT ![id] = NoState]
      PROVE  DescriptorsMatch'
  <2>1. \A n \in 1..MaxFds : fds'[n] = IF n = g_states[id].fd THEN NoFile ELSE fds[n]
    BY <1>2 DEF Closed
  <2>2. \A d \in Id : g_states'[d] = IF d = id THEN NoState ELSE g_states[d]
    BY <1>0, <1>2
  <2> QED BY <1>0, <2>1, <2>2 DEF DescriptorsMatch, Live
<1>3. ASSUME NEW id \in Id, NEW f \in File, StartCreates(id, f) PROVE DescriptorsMatch'
  <2>1. PICK n \in 1..MaxFds :
          /\ Opens(id, n) /\ fds' = [Closed(id) EXCEPT ![n] = id]
          /\ g_states' = [g_states EXCEPT ![id] =
               [file |-> f, bitmap |-> {}, received_count |-> 0, fd |-> n, last_update_ts |-> clock]]
    BY <1>3 DEF StartCreates
  <2>2. /\ g_states'[id].fd = n
        /\ \A d \in Id \ {id} : g_states'[d] = g_states[d]
    BY <1>0, <2>1
  <2>3. \A m \in 1..MaxFds : fds'[m] = IF m = n THEN id
                                      ELSE IF m = g_states[id].fd THEN NoFile ELSE fds[m]
    BY <2>1 DEF Closed
  <2>4. n = g_states[id].fd \/ fds[n] = NoFile
    BY <2>1 DEF Opens, Free, Closed
  <2> QED BY <1>0, <2>2, <2>3, <2>4 DEF DescriptorsMatch, Live
<1>4. ASSUME NEW id \in Id, NEW i \in Index, NEW d \in Data,
             ChunkStored(id, i, d) \/ FinishReadFails(id, i, d)
      PROVE  DescriptorsMatch'
  <2>1. Live(id) /\ g_states' = [g_states EXCEPT ![id] = Marked(g_states[id], i)] /\ UNCHANGED fds
    BY <1>4 DEF ChunkStored, FinishReadFails, Accepted
  <2>2. Marked(g_states[id], i).fd = g_states[id].fd
    BY <1>0, <2>1, MarkedSession
  <2> QED BY <1>0, <1>1, <2>1, <2>2
<1>5. ASSUME NEW id \in Id, NEW i \in Index, NEW d \in Data, FileChunk(id, i, d) PROVE DescriptorsMatch'
  <2>1. CASE ChunkRejected(id, i, d) \/ ChunkWriteFails(id, i, d)
    BY <1>1, <2>1 DEF ChunkRejected, ChunkWriteFails
  <2>2. CASE Finish(id, i, d) \/ FinishMismatch(id, i, d)
    BY <1>2, <2>2 DEF Finish, FinishMismatch
  <2> QED BY <1>4, <1>5, <2>1, <2>2 DEF FileChunk
<1>6. ASSUME NEW id \in Id, NEW f \in File, FileStart(id, f) PROVE DescriptorsMatch'
  <2>1. CASE StartResumes(id, f)
    <3>1. UNCHANGED fds /\ \A k \in Id : g_states'[k].fd = g_states[k].fd
      BY <1>0, <2>1 DEF StartResumes, Session
    <3> QED BY <1>1, <3>1
  <2>2. CASE StartOpenFails(id, f) \/ StartTruncateFails(id, f)
    BY <1>2, <2>2 DEF StartOpenFails, StartTruncateFails
  <2> QED BY <1>3, <1>6, <2>1, <2>2 DEF FileStart, StartNoMemory
<1>7. ASSUME NEW id \in Id, Query(id) PROVE DescriptorsMatch'
  <2>1. UNCHANGED fds /\ \A k \in Id : g_states'[k].fd = g_states[k].fd
    <3>1. CASE Live(id)
      BY <1>0, <1>7, <3>1 DEF Query, Session
    <3>2. CASE ~ Live(id)
      BY <1>7, <3>2 DEF Query
    <3> QED BY <3>1, <3>2
  <2> QED BY <1>1, <2>1
<1>8. ASSUME Cleanup PROVE DescriptorsMatch'
  <2>1. PICK ids \in SUBSET Id : Drop(ids)
    BY <1>8 DEF Cleanup
  <2>2. \A d \in Id : g_states'[d] = IF d \in ids THEN NoState ELSE g_states[d]
    BY <2>1 DEF Drop
  <2>3. \A n \in 1..MaxFds : fds'[n] = IF \E id \in ids : g_states[id].fd = n THEN NoFile ELSE fds[n]
    BY <2>1 DEF Drop
  <2> QED BY <1>0, <2>2, <2>3 DEF DescriptorsMatch, Live
<1>9. ASSUME Restart PROVE DescriptorsMatch'
  BY <1>0, <1>9 DEF Restart, DescriptorsMatch, Live
<1>10. CASE ReadClock \/ Tick \/ ClockSetBack \/ UNCHANGED vars
  BY <1>1, <1>10 DEF ReadClock, Tick, ClockSetBack, vars
<1> QED BY <1>5, <1>6, <1>7, <1>8, <1>9, <1>10 DEF Next, handleClientMessage

(* Unless an allocation fails, no path through the handlers leaks, shares    *)
(* or prematurely closes a descriptor.                                      *)
THEOREM DescriptorsCorrect ==
  ASSUME "memory" \notin Faults
  PROVE  Spec => []DescriptorsMatch
<1>1. Init => DescriptorsMatch
  BY DEF Init, DescriptorsMatch, Live, NoState
<1>2. FileInv /\ DescriptorsMatch /\ [Next]_vars => DescriptorsMatch'
  BY DescriptorsStep
<1> QED BY <1>1, <1>2, FileInvariant, PTL DEF Spec

(***************************************************************************)
(* What a step may never do to a session: forget its progress, leave it    *)
(* full in silence, or, the timer's, end it while it is fresh and needed   *)
(* for no limit.                                                           *)
(***************************************************************************)
(* What a session is after a step: new and empty, for other parameters than *)
(* before; or the one it was, with the chunks it had and perhaps one more,  *)
(* and if full then as it was, or, reading having failed, with an error for *)
(* its client.                                                              *)
LEMMA SessionChange ==
  ASSUME FileInv, [Next]_vars, NEW k \in Id, Live(k)'
  PROVE  \/ /\ ~ (Live(k) /\ g_states[k].file = g_states'[k].file)
            /\ g_states'[k].file \in File /\ g_states'[k].received_count = 0
         \/ /\ Live(k) /\ g_states'[k].file = g_states[k].file
            /\ g_states[k].bitmap \subseteq g_states'[k].bitmap
            /\ \/ ~ Full(g_states'[k])
               \/ g_states'[k].received_count = g_states[k].received_count
               \/ /\ "read" \in Faults
                  /\ \E n \in 1..Len(replies') : replies'[n] = Reply("ERROR", k, FALSE)
<1> DEFINE Fresh == /\ ~ (Live(k) /\ g_states[k].file = g_states'[k].file)
                    /\ g_states'[k].file \in File /\ g_states'[k].received_count = 0
           Grown == /\ Live(k) /\ g_states'[k].file = g_states[k].file
                    /\ g_states[k].bitmap \subseteq g_states'[k].bitmap
                    /\ \/ ~ Full(g_states'[k])
                       \/ g_states'[k].received_count = g_states[k].received_count
                       \/ /\ "read" \in Faults
                          /\ \E n \in 1..Len(replies') : replies'[n] = Reply("ERROR", k, FALSE)
<1> SUFFICES Fresh \/ Grown
  OBVIOUS
<1>0. /\ g_states \in [Id -> Session \cup {NoState}] /\ NoState.fd = 0
      /\ \A id \in Id : Live(id) => g_states[id] \in Session /\ g_states[id].bitmap \subseteq Index
                                    /\ g_states[id].received_count = Cardinality(g_states[id].bitmap)
      /\ clock \in 0..MaxTime
  BY SessionTypes DEF FileInv, TypeOK, BitmapMatchesDisk, Faithful, Session, NoState
<1>1. ASSUME g_states'[k].fd = g_states[k].fd, g_states'[k].file = g_states[k].file,
             g_states'[k].bitmap = g_states[k].bitmap,
             g_states'[k].received_count = g_states[k].received_count
      PROVE  Grown
  BY <1>1 DEF Live
<1>2. ASSUME g_states'[k] = NoState PROVE FALSE
  BY <1>0, <1>2 DEF Live
<1> HIDE DEF Fresh, Grown
<1>3. ASSUME NEW id \in Id, NEW f \in File, FileStart(id, f) PROVE Fresh \/ Grown
  <2>1. CASE StartResumes(id, f)
    BY <1>0, <1>1, <2>1 DEF StartResumes, Session, NoState
  <2>2. CASE StartOpenFails(id, f) \/ StartTruncateFails(id, f) \/ StartNoMemory(id, f)
    <3>1. g_states' = [g_states EXCEPT ![id] = NoState]
      BY <2>2 DEF StartOpenFails, StartTruncateFails, StartNoMemory
    <3> QED BY <1>0, <1>1, <1>2, <3>1
  <2>3. CASE StartCreates(id, f)
    <3>1. PICK n \in 1..MaxFds : g_states' = [g_states EXCEPT ![id] =
             [file |-> f, bitmap |-> {}, received_count |-> 0, fd |-> n, last_update_ts |-> clock]]
      BY <2>3 DEF StartCreates
    <3>2. CASE id = k
      BY <1>0, <2>3, <3>1, <3>2 DEF Fresh, StartCreates, Replaces
    <3>3. CASE id # k
      BY <1>0, <1>1, <3>1, <3>3
    <3> QED BY <3>2, <3>3
  <2> QED BY <1>3, <2>1, <2>2, <2>3 DEF FileStart
<1>4. ASSUME NEW id \in Id, Query(id) PROVE Fresh \/ Grown
  <2>1. CASE Live(id)
    <3>1. g_states' = [g_states EXCEPT ![id].last_update_ts = clock] /\ g_states[id] \in Session
      BY <1>0, <1>4, <2>1 DEF Query
    <3> QED BY <1>0, <1>1, <3>1 DEF Session
  <2>2. CASE ~ Live(id)
    BY <1>1, <1>4, <2>2 DEF Query
  <2> QED BY <2>1, <2>2
<1>5. ASSUME NEW id \in Id, NEW i \in Index, NEW d \in Data, FileChunk(id, i, d) PROVE Fresh \/ Grown
  <2>1. CASE ChunkRejected(id, i, d) \/ ChunkWriteFails(id, i, d)
    BY <1>1, <2>1 DEF ChunkRejected, ChunkWriteFails
  <2>2. CASE Finish(id, i, d) \/ FinishMismatch(id, i, d)
    <3>1. g_states' = [g_states EXCEPT ![id] = NoState]
      BY <2>2 DEF Finish, FinishMismatch
    <3> QED BY <1>0, <1>1, <1>2, <3>1
  <2>3. CASE ChunkStored(id, i, d) \/ FinishReadFails(id, i, d)
    <3>1. /\ Live(id) /\ g_states' = [g_states EXCEPT ![id] = Marked(g_states[id], i)]
          /\ \/ ~ Full(Marked(g_states[id], i))
             \/ "read" \in Faults /\ replies' = <<Ack(id, i), Reply("ERROR", id, FALSE)>>
      BY <2>3 DEF ChunkStored, FinishReadFails, Accepted
    <3>2. CASE id # k
      BY <1>0, <1>1, <3>1, <3>2
    <3>3. CASE id = k
      <4>1. /\ Marked(g_states[k], i).bitmap = g_states[k].bitmap \cup {i}
            /\ Marked(g_states[k], i).file = g_states[k].file
        BY <1>0, <3>1, <3>3, MarkedSession
      <4>2. g_states'[k] = Marked(g_states[k], i)
        BY <1>0, <3>1, <3>3
      <4>3. \/ ~ Full(g_states'[k])
            \/ /\ "read" \in Faults
               /\ \E n \in 1..Len(replies') : replies'[n] = Reply("ERROR", k, FALSE)
        <5>1. CASE ~ Full(Marked(g_states[id], i))
          BY <3>3, <4>2, <5>1
        <5>2. CASE "read" \in Faults /\ replies' = <<Ack(id, i), Reply("ERROR", id, FALSE)>>
          <6>1. Len(replies') = 2 /\ replies'[2] = Reply("ERROR", k, FALSE) /\ 2 \in 1..2
            BY <3>3, <5>2
          <6> QED BY <5>2, <6>1
        <5> QED BY <3>1, <5>1, <5>2
      <4> QED BY <3>1, <3>3, <4>1, <4>2, <4>3 DEF Grown
    <3> QED BY <3>2, <3>3
  <2> QED BY <1>5, <2>1, <2>2, <2>3 DEF FileChunk
<1>6. ASSUME Cleanup PROVE Fresh \/ Grown
  <2>1. PICK ids \in SUBSET Id : Drop(ids)
    BY <1>6 DEF Cleanup
  <2>2. g_states'[k] = IF k \in ids THEN NoState ELSE g_states[k]
    BY <2>1 DEF Drop
  <2> QED BY <1>1, <1>2, <2>2
<1>7. ASSUME Restart PROVE Fresh \/ Grown
  BY <1>2, <1>7 DEF Restart
<1>8. CASE ReadClock \/ Tick \/ ClockSetBack \/ UNCHANGED vars
  BY <1>1, <1>8 DEF ReadClock, Tick, ClockSetBack, vars
<1> QED BY <1>3, <1>4, <1>5, <1>6, <1>7, <1>8 DEF Next, handleClientMessage

(* No step clears a chunk of an upload that goes on.                        *)
THEOREM ProgressCorrect == Spec => ProgressKept
<1>1. ASSUME FileInv, [Next]_vars
      PROVE  \A id \in Id : Live(id) /\ Live(id)' /\ g_states'[id].file = g_states[id].file
               => g_states[id].bitmap \subseteq g_states'[id].bitmap
  BY <1>1, SessionChange
<1> QED BY <1>1, FileInvariant, PTL DEF Spec, ProgressKept

(* A session that becomes full and stays does not do so in silence.         *)
THEOREM FullCorrect == Spec => FullMeansReadError
<1>1. ASSUME FileInv, [Next]_vars
      PROVE  \A id \in Id : Live(id)' /\ Full(g_states'[id]) /\ ~ (Live(id) /\ Full(g_states[id]))
               => \E n \in 1..Len(replies') : replies'[n] = Reply("ERROR", id, FALSE)
  <2>1. \A f \in File : Total[f] # 0
    BY FileTransferAssumption DEF FileTransferAssumption
  <2> QED BY <1>1, <2>1, SessionChange DEF Full
<1> QED BY <1>1, FileInvariant, PTL DEF Spec, FullMeansReadError

(* There are never more than finitely many sessions, however many ids.      *)
LiveIds == {id \in Id : Live(id)}

LEMMA SessionsFinite == Spec => []IsFiniteSet(LiveIds)
<1>1. Init => IsFiniteSet(LiveIds)
  <2>1. Init => LiveIds = {}
    BY DEF Init, LiveIds, Live, NoState
  <2> QED BY <2>1, FS_EmptySet
<1>2. ASSUME FileInv, IsFiniteSet(LiveIds), [Next]_vars PROVE IsFiniteSet(LiveIds')
  <2>0. \A id : IsFiniteSet(LiveIds \cup {id})
    BY <1>2, FS_AddElement
  <2>1. ASSUME NEW id, LiveIds' \subseteq LiveIds \cup {id} PROVE IsFiniteSet(LiveIds')
    BY <2>0, <2>1, FS_Subset
  <2>2. ASSUME NEW id \in Id, \A k \in Id \ {id} : Live(k)' => Live(k) PROVE IsFiniteSet(LiveIds')
    <3>1. LiveIds' \subseteq LiveIds \cup {id}
      BY <2>2 DEF LiveIds
    <3> QED BY <2>1, <3>1
  <2>3. ASSUME \A k \in Id : Live(k)' => Live(k) PROVE IsFiniteSet(LiveIds')
    <3>1. LiveIds' \subseteq LiveIds
      BY <2>3 DEF LiveIds
    <3> QED BY <1>2, <3>1, FS_Subset
  <2>4. g_states \in [Id -> Session \cup {NoState}] /\ NoState.fd = 0
    BY <1>2 DEF FileInv, TypeOK, NoState
  <2>5. ASSUME NEW id \in Id, NEW st, g_states' = [g_states EXCEPT ![id] = st]
        PROVE  IsFiniteSet(LiveIds')
    <3>1. \A k \in Id \ {id} : Live(k)' => Live(k)
      BY <2>4, <2>5 DEF Live
    <3> QED BY <2>2, <3>1
  <2>6. ASSUME UNCHANGED g_states PROVE IsFiniteSet(LiveIds')
    BY <2>3, <2>6 DEF Live
  <2>7. ASSUME NEW id \in Id, NEW f \in File, FileStart(id, f) PROVE IsFiniteSet(LiveIds')
    <3>1. \E st : g_states' = [g_states EXCEPT ![id] = st]
      BY <2>7
      DEF FileStart, StartResumes, StartCreates, StartOpenFails, StartTruncateFails, StartNoMemory
    <3> QED BY <2>5, <3>1
  <2>8. ASSUME NEW id \in Id, Query(id) PROVE IsFiniteSet(LiveIds')
    BY <2>5, <2>6, <2>8 DEF Query
  <2>9. ASSUME NEW id \in Id, NEW i \in Index, NEW d \in Data, FileChunk(id, i, d)
        PROVE  IsFiniteSet(LiveIds')
    <3>1. UNCHANGED g_states \/ \E st : g_states' = [g_states EXCEPT ![id] = st]
      BY <2>9 DEF FileChunk, ChunkRejected, ChunkWriteFails, ChunkStored, FinishReadFails, Finish,
                  FinishMismatch
    <3> QED BY <2>5, <2>6, <3>1
  <2>10. ASSUME Cleanup \/ Restart PROVE IsFiniteSet(LiveIds')
    <3>1. \A k \in Id : g_states'[k] = NoState \/ g_states'[k] = g_states[k]
      BY <2>10 DEF Cleanup, Drop, Restart
    <3> QED BY <2>3, <2>4, <3>1 DEF Live
  <2>11. CASE ReadClock \/ Tick \/ ClockSetBack \/ UNCHANGED vars
    BY <2>6, <2>11 DEF ReadClock, Tick, ClockSetBack, vars
  <2> QED BY <1>2, <2>7, <2>8, <2>9, <2>10, <2>11 DEF Next, handleClientMessage
<1>3. FileInv /\ IsFiniteSet(LiveIds) /\ [Next]_vars => IsFiniteSet(LiveIds)'
  BY <1>2
<1> QED BY <1>1, <1>3, FileInvariant, PTL DEF Spec

(* The timer leaves at most max_sessions, and ends a session that is not    *)
(* older than its reading of the clock only to come down to that number.    *)
THEOREM CleanupCorrect == Spec => CleanupSparesFresh
<1>1. ASSUME FileInv, IsFiniteSet(LiveIds), Cleanup
      PROVE  /\ Cardinality({id \in Id : Live(id)'}) <= MaxSessions
             /\ \A id \in Id : Live(id) /\ ~ Live(id)' /\ g_states[id].last_update_ts >= sampled
                  => Cardinality({k \in Id : Live(k)'}) = MaxSessions
  <2> DEFINE expired == {id \in Id : Expired(id)}
             rest == LiveIds \ expired
             excess == Cardinality(rest) - MaxSessions
  <2>1. PICK evicted \in SUBSET rest :
          /\ Cardinality(evicted) = IF excess > 0 THEN excess ELSE 0
          /\ Drop(expired \cup evicted)
    BY <1>1 DEF Cleanup, LiveIds
  <2>2. NoState.fd = 0 /\ MaxSessions \in Nat
    BY FileTransferAssumption DEF NoState, FileTransferAssumption
  <2>3. \A id \in Id : Live(id)' <=> Live(id) /\ id \notin expired \cup evicted
    BY <2>1, <2>2 DEF Drop, Live
  <2>4. {id \in Id : Live(id)'} = rest \ evicted
    BY <2>3 DEF LiveIds
  <2>5. IsFiniteSet(rest) /\ IsFiniteSet(evicted) /\ IsFiniteSet(rest \ evicted)
    BY <1>1, FS_Subset
  <2>6. Cardinality(rest) \in Nat /\ Cardinality(evicted) \in Nat /\ Cardinality(rest \ evicted) \in Nat
    BY <2>5, FS_CardinalityType
  <2>7. Cardinality(rest) = Cardinality(rest \ evicted) + Cardinality(evicted)
    <3>1. (rest \ evicted) \cup evicted = rest /\ (rest \ evicted) \cap evicted = {}
      OBVIOUS
    <3>2. Cardinality(rest) = Cardinality(rest \ evicted) + Cardinality(evicted) - Cardinality({})
      BY <2>5, <3>1, FS_Union
    <3> QED BY <2>6, <3>2, FS_EmptySet
  <2>8. /\ Cardinality(rest \ evicted) <= MaxSessions
        /\ Cardinality(evicted) # 0 => Cardinality(rest \ evicted) = MaxSessions
    BY <2>1, <2>2, <2>6, <2>7
  <2>9. ASSUME NEW id \in Id, Live(id), ~ Live(id)', g_states[id].last_update_ts >= sampled
        PROVE  Cardinality(evicted) # 0
    <3>1. id \notin expired
      <4>1. g_states[id].last_update_ts \in Int /\ sampled \in Int
        BY <1>1, <2>9, SessionTypes, FileTransferAssumption
           DEF FileInv, TypeOK, Session, FileTransferAssumption
      <4> QED BY <2>9, <4>1 DEF Expired
    <3>2. id \in evicted
      BY <2>3, <2>9, <3>1
    <3> QED BY <2>5, <3>2, FS_EmptySet
  <2> QED BY <2>4, <2>8, <2>9
<1> QED BY <1>1, FileInvariant, SessionsFinite, PTL DEF Spec, CleanupSparesFresh
=============================================================================
