--------------------------- MODULE UploadService ---------------------------
(***************************************************************************)
(* What the file server promises its clients, without descriptors, clocks, *)
(* temporary files or faults: an upload collects the chunks of one file, a *)
(* renewed start of the same file keeps what has been collected, and a     *)
(* file is stored only when it is complete and intact.                     *)
(***************************************************************************)
EXTENDS Naturals

CONSTANTS
  Id,       \* file_id values
  File,     \* the files clients upload
  NoFile,   \* no upload, nothing stored
  Chunks    \* the chunk indices of each file

VARIABLES
  upload,   \* the file being uploaded under an id, or NoFile
  got,      \* its chunks already received
  stored    \* the file stored under an id, or NoFile

uvars == <<upload, got, stored>>

UInit ==
  /\ upload = [id \in Id |-> NoFile]
  /\ got = [id \in Id |-> {}]
  /\ stored = [id \in Id |-> NoFile]

(* A start of another file, or of an unknown one, begins from nothing.      *)
Begin(id, f) ==
  /\ upload[id] # f
  /\ upload' = [upload EXCEPT ![id] = f]
  /\ got' = [got EXCEPT ![id] = {}]
  /\ UNCHANGED stored

Collect(id, i) ==
  /\ upload[id] # NoFile /\ i \in Chunks[upload[id]]
  /\ got' = [got EXCEPT ![id] = @ \cup {i}]
  /\ UNCHANGED <<upload, stored>>

(* The last chunk is in, or was in already: the upload is over and its file  *)
(* is what the id now stores.                                               *)
Store(id) ==
  /\ upload[id] # NoFile
  /\ \E i \in Chunks[upload[id]] : got[id] \cup {i} = Chunks[upload[id]]
  /\ stored' = [stored EXCEPT ![id] = upload[id]]
  /\ upload' = [upload EXCEPT ![id] = NoFile]
  /\ got' = [got EXCEPT ![id] = {}]

(* Uploads given up: a failed check or disk, idle too long, too many of     *)
(* them, or a restart of the server.  Nothing stored is touched.            *)
Abandon(ids) ==
  /\ upload' = [id \in Id |-> IF id \in ids THEN NoFile ELSE upload[id]]
  /\ got' = [id \in Id |-> IF id \in ids THEN {} ELSE got[id]]
  /\ UNCHANGED stored

UNext ==
  \/ \E id \in Id : (\E f \in File : Begin(id, f)) \/ Store(id)
  \/ \E id \in Id : upload[id] # NoFile /\ \E i \in Chunks[upload[id]] : Collect(id, i)
  \/ \E ids \in SUBSET Id : Abandon(ids)

USpec == UInit /\ [][UNext]_uvars
=============================================================================
