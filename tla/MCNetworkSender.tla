--------------------------- MODULE MCNetworkSender ---------------------------
(* NetworkSender with a queue of two and four messages: the queue overflows. *)
EXTENDS NetworkSender
=============================================================================
