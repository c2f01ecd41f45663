---------------------------- MODULE FileTransfer ----------------------------
(***************************************************************************)
(* The upload sessions of FileTransferManager: the map g_states, the       *)
(* temporary and final files on disk and the descriptors open on them      *)
(* (src/src/file/FileTransferManager.cpp).                                 *)
(*                                                                         *)
(* handleClientMessage and cleanupSessions hold one mutex from end to end, *)
(* so each path through them is one step; what interleaves is the order in *)
(* which the pool's workers and the timer get that mutex, and the clock    *)
(* that the timer reads before it asks for it.  Messages come from any     *)
(* number of clients in any order (a session is not tied to a connection). *)
(* Contents are abstracted to which file a chunk's bytes come from; CRC32  *)
(* is taken to tell contents apart.  `Faults` names the system calls that  *)
(* may fail.  Allocation failures other than the bitmap's are left out.    *)
(***************************************************************************)
EXTENDS Integers, FiniteSets, Sequences

CONSTANTS
  Id,           \* file_id values
  File,         \* what START announces: size, chunk size, chunk count and CRC32
  NoFile,       \* no such path on disk; no session
  Total,        \* total_chunks of each file
  MaxChunks,    \* the largest of them
  TTL,          \* ttl_seconds
  MaxSessions,  \* max_sessions
  MaxFds,       \* descriptors the process may have open on temporary files
  Wrap,         \* 2^64 for the code's uint64_t timestamps
  Faults,       \* subset of {"open", "ftruncate", "memory", "pwrite", "read", "rename"}
  MaxTime       \* bound of the clock

ASSUME FileTransferAssumption ==
  /\ MaxChunks \in Nat \ {0} /\ Total \in [File -> 1..MaxChunks]
  /\ NoFile \notin File /\ File \cap {"hole", "torn", "odd", "corrupt"} = {}
  /\ TTL \in Nat /\ MaxSessions \in Nat /\ MaxFds \in Nat /\ MaxTime \in Nat
  /\ Wrap \in Nat /\ Wrap > MaxTime
  /\ NoFile \notin Id

VARIABLES
  g_states,   \* the sessions; NoState where an id has none
  temp,       \* content of uploads/tmp_<id>.bin, or NoFile
  published,  \* content of the final file of an id, or NoFile
  fds,        \* descriptor table: the temporary file a descriptor is open on
  clock,      \* system_clock, in seconds
  sampled,    \* the timer's now_seconds, read before cleanupSessions locks; or -1
  replies     \* the replies to the message handled last

vars == <<g_states, temp, published, fds, clock, sampled, replies>>

-----------------------------------------------------------------------------
Index == 0..(MaxChunks - 1)
Region == File \cup {"hole", "torn", "odd"}
Content == [Index -> Region]
ASSUME ContentAssumption == NoFile \notin Content

Empty == [i \in Index |-> "hole"]
Whole(f) == [i \in Index |-> IF i < Total[f] THEN f ELSE "hole"]

Session == [file : File, bitmap : SUBSET Index, received_count : 0..MaxChunks,
            fd : 1..MaxFds, last_update_ts : 0..MaxTime]
NoState == [file |-> NoFile, bitmap |-> {}, received_count |-> 0, fd |-> 0, last_update_ts |-> 0]

Live(id) == g_states[id].fd # 0                \* g_states.find(id) != end()

Reply(type, id, ok) == [type |-> type, id |-> id, ok |-> ok]
Error(id) == <<Reply("ERROR", id, FALSE)>>

TypeOK ==
  /\ g_states \in [Id -> Session \cup {NoState}]
  /\ temp \in [Id -> Content \cup {NoFile}]
  /\ published \in [Id -> Content \cup {NoFile}]
  /\ fds \in [1..MaxFds -> Id \cup {NoFile}]
  /\ clock \in 0..MaxTime
  /\ sampled \in -1..MaxTime
  /\ replies \in Seq([type : {"QUERY_RESPONSE", "CHUNK_ACK", "FINISH_ACK", "ERROR"},
                      id : Id, ok : BOOLEAN])

Init ==
  /\ g_states = [id \in Id |-> NoState]
  /\ temp = [id \in Id |-> NoFile]
  /\ published = [id \in Id |-> NoFile]
  /\ fds = [n \in 1..MaxFds |-> NoFile]
  /\ clock = 0 /\ sampled = -1 /\ replies = <<>>

-----------------------------------------------------------------------------
(* Variant that restarts from an empty bitmap on every START.               *)
StartResumesNever(id, f) ==
  /\ Live(id) /\ g_states[id].file = f
  /\ g_states' = [g_states EXCEPT ![id].bitmap = {}, ![id].received_count = 0]
  /\ temp' = [temp EXCEPT ![id] = Empty]
  /\ replies' = <<Reply("QUERY_RESPONSE", id, TRUE)>>
  /\ UNCHANGED <<published, fds, clock, sampled>>

(* Variant that keeps the bitmap for a file with other parameters. *)
StartResumesAny(id, f) ==
  /\ Live(id)
  /\ g_states' = [g_states EXCEPT ![id].file = f, ![id].last_update_ts = clock]
  /\ replies' = <<Reply("QUERY_RESPONSE", id, TRUE)>>
  /\ UNCHANGED <<temp, published, fds, clock, sampled>>

(* FILE_START.  A session with the same parameters is resumed; any other    *)
(* session of the id is closed and erased, its temporary file left behind   *)
(* for the open with O_TRUNC that follows.                                  *)
StartResumes(id, f) ==
  /\ Live(id) /\ g_states[id].file = f
  /\ g_states' = [g_states EXCEPT ![id].last_update_ts = clock]
  /\ replies' = <<Reply("QUERY_RESPONSE", id, TRUE)>>
  /\ UNCHANGED <<temp, published, fds, clock, sampled>>

Replaces(id, f) == ~ (Live(id) /\ g_states[id].file = f)

Closed(id) == [n \in 1..MaxFds |-> IF n = g_states[id].fd THEN NoFile ELSE fds[n]]
Free(id) == {n \in 1..MaxFds : Closed(id)[n] = NoFile}
Opens(id, n) == n \in Free(id) /\ \A m \in Free(id) : n <= m

StartOpenFails(id, f) ==
  /\ Replaces(id, f)
  /\ "open" \in Faults \/ Free(id) = {}
  /\ g_states' = [g_states EXCEPT ![id] = NoState]
  /\ fds' = Closed(id)
  /\ replies' = Error(id)
  /\ UNCHANGED <<temp, published, clock, sampled>>

StartTruncateFails(id, f) ==
  /\ Replaces(id, f) /\ "ftruncate" \in Faults
  /\ Free(id) # {}
  /\ g_states' = [g_states EXCEPT ![id] = NoState]
  /\ temp' = [temp EXCEPT ![id] = Empty]
  /\ fds' = Closed(id)
  /\ replies' = Error(id)
  /\ UNCHANGED <<published, clock, sampled>>

(* bitmap.assign throws: the handler's catch answers, nobody closes fd.     *)
StartNoMemory(id, f) ==
  /\ Replaces(id, f) /\ "memory" \in Faults
  /\ \E n \in 1..MaxFds : Opens(id, n) /\ fds' = [Closed(id) EXCEPT ![n] = id]
  /\ g_states' = [g_states EXCEPT ![id] = NoState]
  /\ temp' = [temp EXCEPT ![id] = Empty]
  /\ replies' = Error(id)
  /\ UNCHANGED <<published, clock, sampled>>

(* Variant of StartCreates that opens the temporary file without O_TRUNC. *)
StartCreatesNoTruncate(id, f) ==
  /\ Replaces(id, f)
  /\ \E n \in 1..MaxFds :
       /\ Opens(id, n)
       /\ fds' = [Closed(id) EXCEPT ![n] = id]
       /\ g_states' = [g_states EXCEPT ![id] =
            [file |-> f, bitmap |-> {}, received_count |-> 0, fd |-> n, last_update_ts |-> clock]]
  /\ temp' = [temp EXCEPT ![id] = IF @ = NoFile THEN Empty ELSE @]
  /\ replies' = <<Reply("QUERY_RESPONSE", id, TRUE)>>
  /\ UNCHANGED <<published, clock, sampled>>

StartCreates(id, f) ==
  /\ Replaces(id, f)
  /\ \E n \in 1..MaxFds :
       /\ Opens(id, n)
       /\ fds' = [Closed(id) EXCEPT ![n] = id]
       /\ g_states' = [g_states EXCEPT ![id] =
            [file |-> f, bitmap |-> {}, received_count |-> 0, fd |-> n, last_update_ts |-> clock]]
  /\ temp' = [temp EXCEPT ![id] = Empty]
  /\ replies' = <<Reply("QUERY_RESPONSE", id, TRUE)>>
  /\ UNCHANGED <<published, clock, sampled>>

-----------------------------------------------------------------------------
(* FILE_QUERY. *)
Query(id) ==
  /\ IF Live(id)
     THEN /\ g_states' = [g_states EXCEPT ![id].last_update_ts = clock]
          /\ replies' = <<Reply("QUERY_RESPONSE", id, TRUE)>>
     ELSE UNCHANGED g_states /\ replies' = Error(id)
  /\ UNCHANGED <<temp, published, fds, clock, sampled>>

-----------------------------------------------------------------------------
(* FILE_CHUNK.  d is what the bytes are: the chunk of some file at index i,  *)
(* "odd" when their number is not chunk_size, "bad" when they do not match   *)
(* the message's own CRC.                                                   *)
Data == File \cup {"odd", "bad"}

(* Only the last chunk may be shorter, or longer, than chunk_size.          *)
Accepted(id, i, d) ==
  /\ Live(id) /\ i < Total[g_states[id].file] /\ d # "bad"
  /\ d = "odd" => i + 1 = Total[g_states[id].file]

ChunkRejected(id, i, d) ==
  /\ ~ Accepted(id, i, d)
  /\ replies' = IF d = "bad" /\ Live(id) /\ i < Total[g_states[id].file]
                THEN Append(Error(id), Reply("CHUNK_ACK", id, FALSE)) ELSE Error(id)
  /\ UNCHANGED <<g_states, temp, published, fds, clock, sampled>>

(* pwrite fails or is short; the bytes it did write stay.                   *)
ChunkWriteFails(id, i, d) ==
  /\ Accepted(id, i, d) /\ "pwrite" \in Faults
  /\ \E r \in {temp[id][i], IF temp[id][i] = "odd" THEN "odd" ELSE "torn"} :
       temp' = [temp EXCEPT ![id][i] = r]
  /\ replies' = Error(id)
  /\ UNCHANGED <<g_states, published, fds, clock, sampled>>

(* The region after pwrite: an odd chunk that was too long sticks out of it. *)
Written(old, d) == IF old = "odd" THEN {d, "odd"} ELSE {d}

(* Variant of Marked that counts duplicates as well. *)
MarkedAgain(st, i) ==
  [st EXCEPT !.bitmap = @ \cup {i},
             !.received_count = @ + 1, !.last_update_ts = clock]

(* The bitmap and the counter after chunk i: a duplicate changes neither,   *)
(* nor last_update_ts, although its bytes have been written.                *)
Marked(st, i) ==
  IF i \in st.bitmap THEN st
  ELSE [st EXCEPT !.bitmap = @ \cup {i}, !.received_count = @ + 1, !.last_update_ts = clock]

Ack(id, i) == Reply("CHUNK_ACK", id, i \notin g_states[id].bitmap)
Full(st) == st.received_count = Total[st.file]

ChunkStored(id, i, d) ==
  LET st == Marked(g_states[id], i)
  IN /\ Accepted(id, i, d) /\ ~ Full(st)
     /\ \E r \in Written(temp[id][i], d) : temp' = [temp EXCEPT ![id][i] = r]
     /\ g_states' = [g_states EXCEPT ![id] = st]
     /\ replies' = <<Ack(id, i)>>
     /\ UNCHANGED <<published, fds, clock, sampled>>

(* The last chunk is in, but the file cannot be read back: computeFdCrc32   *)
(* throws and the session stays, full.                                      *)
FinishReadFails(id, i, d) ==
  LET st == Marked(g_states[id], i)
  IN /\ Accepted(id, i, d) /\ Full(st) /\ "read" \in Faults
     /\ \E r \in Written(temp[id][i], d) : temp' = [temp EXCEPT ![id][i] = r]
     /\ g_states' = [g_states EXCEPT ![id] = st]
     /\ replies' = <<Ack(id, i), Reply("ERROR", id, FALSE)>>
     /\ UNCHANGED <<published, fds, clock, sampled>>

CrcMatches(content, f) == content = Whole(f)

(* The CRC of the whole file matches: close, rename, which may fail unseen. *)
Finish(id, i, d) ==
  LET st == Marked(g_states[id], i)
  IN /\ Accepted(id, i, d) /\ Full(st)
     /\ \E r \in Written(temp[id][i], d) :
          LET content == [temp[id] EXCEPT ![i] = r]
          IN /\ CrcMatches(content, st.file)
             /\ \/ /\ published' = [published EXCEPT ![id] = content]
                   /\ temp' = [temp EXCEPT ![id] = NoFile]
                \/ /\ "rename" \in Faults
                   /\ temp' = [temp EXCEPT ![id] = content]
                   /\ UNCHANGED published
     /\ g_states' = [g_states EXCEPT ![id] = NoState]
     /\ fds' = Closed(id)
     /\ replies' = <<Ack(id, i), Reply("FINISH_ACK", id, TRUE)>>
     /\ UNCHANGED <<clock, sampled>>

(* Variant of FinishMismatch that leaves the session in the map. *)
FinishMismatchKeeps(id, i, d) ==
  LET st == Marked(g_states[id], i)
  IN /\ Accepted(id, i, d) /\ Full(st)
     /\ \E r \in Written(temp[id][i], d) : temp' = [temp EXCEPT ![id][i] = r]
     /\ g_states' = [g_states EXCEPT ![id] = st]
     /\ replies' = <<Ack(id, i), Reply("FINISH_ACK", id, FALSE)>>
     /\ UNCHANGED <<published, fds, clock, sampled>>

(* It does not match: close, unlink, and the upload starts all over.        *)
FinishMismatch(id, i, d) ==
  LET st == Marked(g_states[id], i)
  IN /\ Accepted(id, i, d) /\ Full(st)
     /\ \E r \in Written(temp[id][i], d) : ~ CrcMatches([temp[id] EXCEPT ![i] = r], st.file)
     /\ temp' = [temp EXCEPT ![id] = NoFile]
     /\ g_states' = [g_states EXCEPT ![id] = NoState]
     /\ fds' = Closed(id)
     /\ replies' = <<Ack(id, i), Reply("FINISH_ACK", id, FALSE)>>
     /\ UNCHANGED <<published, clock, sampled>>

-----------------------------------------------------------------------------
(* The timer: it reads the clock, then waits for the mutex. *)
ReadClock ==
  /\ sampled = -1
  /\ sampled' = clock /\ replies' = <<>>
  /\ UNCHANGED <<g_states, temp, published, fds, clock>>

Elapsed(now, ts) == (now - ts) % Wrap            \* uint64_t subtraction

(* Variant of Expired without the comparison that keeps the subtraction positive. *)
ExpiredUnguarded(id) == Live(id) /\ Elapsed(sampled, g_states[id].last_update_ts) > TTL

Expired(id) ==
  /\ Live(id) /\ sampled > g_states[id].last_update_ts
  /\ Elapsed(sampled, g_states[id].last_update_ts) > TTL

(* Variant that forgets the descriptors of the sessions it drops. *)
DropForgetsFds(ids) ==
  /\ g_states' = [id \in Id |-> IF id \in ids THEN NoState ELSE g_states[id]]
  /\ temp' = [id \in Id |-> IF id \in ids THEN NoFile ELSE temp[id]]
  /\ UNCHANGED fds

(* close, unlink, erase. *)
Drop(ids) ==
  /\ g_states' = [id \in Id |-> IF id \in ids THEN NoState ELSE g_states[id]]
  /\ temp' = [id \in Id |-> IF id \in ids THEN NoFile ELSE temp[id]]
  /\ fds' = [n \in 1..MaxFds |-> IF \E id \in ids : g_states[id].fd = n THEN NoFile ELSE fds[n]]

(* Expired sessions, then the least recently updated ones over the limit.   *)
Cleanup ==
  /\ sampled # -1
  /\ LET expired == {id \in Id : Expired(id)}
         rest == {id \in Id : Live(id)} \ expired
         excess == Cardinality(rest) - MaxSessions
     IN \E evicted \in SUBSET rest :
          /\ Cardinality(evicted) = IF excess > 0 THEN excess ELSE 0
          /\ \A e \in evicted : \A k \in rest \ evicted :
               g_states[e].last_update_ts <= g_states[k].last_update_ts
          /\ Drop(expired \cup evicted)
  /\ sampled' = -1 /\ replies' = <<>>
  /\ UNCHANGED <<published, clock>>

-----------------------------------------------------------------------------
(* The system clock runs, and may be set back; the server is restarted: its *)
(* memory and descriptors are gone, the disk is not.                        *)
Tick ==
  /\ clock < MaxTime
  /\ clock' = clock + 1 /\ replies' = <<>>
  /\ UNCHANGED <<g_states, temp, published, fds, sampled>>

ClockSetBack ==
  /\ clock > 0
  /\ clock' = clock - 1 /\ replies' = <<>>
  /\ UNCHANGED <<g_states, temp, published, fds, sampled>>

Restart ==
  /\ g_states' = [id \in Id |-> NoState]
  /\ fds' = [n \in 1..MaxFds |-> NoFile]
  /\ sampled' = -1 /\ replies' = <<>>
  /\ UNCHANGED <<temp, published, clock>>

-----------------------------------------------------------------------------
FileStart(id, f) ==
  \/ StartResumes(id, f) \/ StartCreates(id, f)
  \/ StartOpenFails(id, f) \/ StartTruncateFails(id, f) \/ StartNoMemory(id, f)

FileChunk(id, i, d) ==
  \/ ChunkRejected(id, i, d) \/ ChunkWriteFails(id, i, d) \/ ChunkStored(id, i, d)
  \/ FinishReadFails(id, i, d) \/ Finish(id, i, d) \/ FinishMismatch(id, i, d)

handleClientMessage ==
  \E id \in Id :
    \/ \E f \in File : FileStart(id, f)
    \/ Query(id)
    \/ \E i \in Index, d \in Data : FileChunk(id, i, d)

Next == handleClientMessage \/ ReadClock \/ Cleanup \/ Tick \/ ClockSetBack \/ Restart

Spec == Init /\ [][Next]_vars

-----------------------------------------------------------------------------
(* What a session says of its temporary file is true of the disk, whatever  *)
(* was there before: a chunk marked received has been written, one not      *)
(* marked holds nothing but the remains of a failed write, and the counter  *)
(* that decides when the file is complete counts the marked chunks.         *)
Faithful(st, content) ==
  /\ st.received_count = Cardinality(st.bitmap)
  /\ content # NoFile
  /\ \A i \in Index : IF i \in st.bitmap THEN content[i] # "hole"
                                         ELSE content[i] \in {"hole", "torn"}

BitmapMatchesDisk == \A id \in Id : Live(id) => Faithful(g_states[id], temp[id])

(* Every session owns one descriptor, open on its own temporary file, and   *)
(* no other descriptor is open: none leaks and none is shared, whichever of *)
(* START, FINISH, the timer or a failed call ends a session.                *)
DescriptorsMatch ==
  /\ \A id \in Id : Live(id) => fds[g_states[id].fd] = id
  /\ \A n \in 1..MaxFds : fds[n] # NoFile => g_states[fds[n]].fd = n

(* Progress is never lost while a session lives: no START, duplicate or     *)
(* failed write clears a chunk of a file that is still being uploaded.      *)
ProgressKept ==
  [][\A id \in Id : Live(id) /\ Live(id)' /\ g_states'[id].file = g_states[id].file
       => g_states[id].bitmap \subseteq g_states'[id].bitmap]_vars

(* The timer ends a session updated at or after its clock reading only if   *)
(* there are too many, and it leaves at most max_sessions: neither a worker *)
(* that got the mutex first nor a clock set back makes a session look old.  *)
CleanupSparesFresh ==
  [][Cleanup =>
       /\ Cardinality({id \in Id : Live(id)'}) <= MaxSessions
       /\ \A id \in Id : Live(id) /\ ~ Live(id)' /\ g_states[id].last_update_ts >= sampled
            => Cardinality({k \in Id : Live(k)'}) = MaxSessions]_vars

(* A session is full only if the attempt to finish it could not read the     *)
(* file back, and it told its client so.                                    *)
FullMeansReadError ==
  [][\A id \in Id : Live(id)' /\ Full(g_states'[id]) /\ ~ (Live(id) /\ Full(g_states[id]))
       => \E n \in 1..Len(replies') : replies'[n] = Reply("ERROR", id, FALSE)]_vars

(* The sessions implement the upload service: whatever the faults, what is   *)
(* stored under an id is the file its START announced.                      *)
FileOf(content) ==
  IF content = NoFile THEN NoFile
  ELSE IF \E f \in File : content = Whole(f) THEN CHOOSE f \in File : content = Whole(f)
  ELSE "corrupt"

Service == INSTANCE UploadService WITH
  Chunks <- [f \in File |-> 0..(Total[f] - 1)],
  upload <- [id \in Id |-> g_states[id].file],
  got <- [id \in Id |-> g_states[id].bitmap],
  stored <- [id \in Id |-> FileOf(published[id])]

ImplementsUploadService == Service!USpec
=============================================================================
