---------------------------- MODULE MCControlPath ----------------------------
(* ControlPath over every control change, bank and selected strip that the   *)
(* router itself can reach; one control value; cycles of up to two reports   *)
(* of the Z1 in which none, one or any two of its controls moved.            *)
EXTENDS ControlPath, FiniteSets

MCControlChanges == 0 .. 127
MCBaseChannels == {0, 8}
MCSelectedChannels == 1 .. 16
MCControlValues == {<<65535, 65535>>}
MCReports == {report \in SUBSET (1 .. 14) : Cardinality(report) <= 2}
MCZ1Cycles == {<<report>> : report \in MCReports} \union (MCReports \X MCReports)

(* For the interpolation: one control, the ends of the range and 127. *)
MCOneControl == {1}
MCOneBase == {0}
MCOneSelected == {1}
MCOneCycle == {<<{1}>>}
MCEndValues == {<<0, 0>>, <<0, 127>>, <<65535, 65535>>}
=============================================================================
