---------------------------- MODULE MCLoopControl ----------------------------
(* LoopControl with one loop and a looper that changes three times. *)
EXTENDS LoopControl

MCReports == ({0} \X {0, 2}) \union ({Eighth} \X {32, 64})
MCWords == <<"w1", "w2", "w3">>
=============================================================================
