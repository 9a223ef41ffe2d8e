------------------------------ MODULE MCConsole ------------------------------
(* Console with one producer, a controller that is the consumer, one chain and two callers. *)
EXTENDS Console
=============================================================================
