----------------------------- MODULE MCWsParser -----------------------------
(* WsParser for TLC: one shape for every branch of feed. *)
EXTENDS WsParser

Shape(op, fin, len) == [opcode |-> op, fin |-> fin, rsv |-> FALSE, masked |-> TRUE, ext |-> 0, len |-> len]

MCFrameShape ==
  {Shape(1, TRUE, 0), Shape(1, FALSE, 1), Shape(2, FALSE, 0), Shape(0, FALSE, 1), Shape(0, TRUE, 0),
   Shape(9, TRUE, 1), Shape(8, TRUE, 1), Shape(9, FALSE, 0), Shape(3, TRUE, 0),
   [Shape(2, TRUE, 1) EXCEPT !.masked = FALSE], [Shape(2, TRUE, 0) EXCEPT !.rsv = TRUE],
   [Shape(2, TRUE, 1) EXCEPT !.ext = 2], [Shape(2, TRUE, 3) EXCEPT !.ext = 8]}
=============================================================================
