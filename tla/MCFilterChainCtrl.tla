--------------------------- MODULE MCFilterChainCtrl ---------------------------
(* Instances of FilterChainCtrl for TLC. *)
EXTENDS FilterChainCtrl, TLC

CONSTANTS n1, n2, n3, v1

Path(type, layer, id) ==
  [channel_type |-> type, layer |-> layer, channel_id |-> id, parameter |-> "Equalizer:Low"]

\* One id for the chain of group A, its re-creation and the chain of group B: they
\* inherit it from each other in any order, requests outlive the node they are meant
\* for, and the other chain has a control of the same name.
MCIdOf == n1 :> 1 @@ n2 :> 1 @@ n3 :> 1
MCRoleOf == n1 :> "groupChannelsA" @@ n2 :> "groupChannelsB" @@ n3 :> "groupChannelsA"
MCPaths == {Path("group", "A", 1), Path("group", "B", 1)}
=============================================================================
