----------------------------- MODULE MCConnections -----------------------------
(* Connections with a few of the ports that come and go, for each run. *)
EXTENDS Connections

\* A channel with an output in each layer, two pieces of hardware and two loopers.
OneChannel ==
  {<<"input", 1>>, <<"output", 1>>, <<"output", 33>>, <<"device", 1>>, <<"device", 2>>,
   <<"loop_in", 0, 1>>, <<"loop_in", 4, 1>>}

LooperAndOutput == {<<"output", 1>>, <<"loop_in", 0, 1>>}

LooperAndGroup == {<<"loop_out", 0, 1>>, <<"group_in", "A", 1>>}
=============================================================================
