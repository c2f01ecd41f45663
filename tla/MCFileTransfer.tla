--------------------------- MODULE MCFileTransfer ---------------------------
(* FileTransfer for TLC: two files that share an id, one of them longer.    *)
EXTENDS FileTransfer, TLC

CONSTANTS Long, Short

MCFiles == {Long, Short}
MCTotal == [f \in MCFiles |-> IF f = Long THEN 2 ELSE 1]
OneFile == {Long}
OneTotal == [f \in OneFile |-> 2]

IdSymmetry == Permutations(Id)
=============================================================================
