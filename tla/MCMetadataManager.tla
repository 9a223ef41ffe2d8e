-------------------------- MODULE MCMetadataManager --------------------------
(* One channel, two ports and two groups; the port and the group are two keys *)
(* of one file, so that a write for the one touches the other.                *)
EXTENDS MetadataManager

MCPortKeys == {"channel_port_1"}
MCGroupKeys == {"channel_group_1"}
MCGroups == {1, 2}
=============================================================================
