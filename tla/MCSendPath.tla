----------------------------- MODULE MCSendPath -----------------------------
(* Instances of SendPath for TLC: workers are interchangeable. *)
EXTENDS SendPath, TLC

WorkerSymmetry == Permutations(Worker)
=============================================================================
