--------------------------- MODULE MCUploadClient ---------------------------
(* UploadClient for TLC: one client, one path, hence one file_id; two files *)
(* of two chunks that the path may hold.                                    *)
EXTENDS UploadClient

CONSTANTS Old, New

MCFiles == {Old, New}
MCTotal == [f \in MCFiles |-> 2]
MCFileId == [c \in Client |-> CHOOSE id \in Id : TRUE]
OneVersion == [c \in Client |-> {New}]
AnyVersion == [c \in Client |-> MCFiles]
=============================================================================
