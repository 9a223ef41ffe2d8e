--------------------------- MODULE MCRememberedPorts ---------------------------
(* RememberedPorts with ports of every kind of family; some belong to two. *)
EXTENDS RememberedPorts

Port(side, families) == [side |-> side, families |-> families]

SomePorts ==
  {Port("out", {"from_sl"}), Port("in", {"from_sl"}), Port("in", {"osc"}), Port("out", {"osc"}),
   Port("out", {"clock"}), Port("out", {"hapax"}), Port("in", {"hapax", "clock"}), Port("in", {"clock"}),
   Port("out", {"group_a"}), Port("in", {"group_a", "group_b"})}
=============================================================================
