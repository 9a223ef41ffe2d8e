----------------------------- MODULE MCMidiRouter -----------------------------
(* An instance of MidiRouter for TLC: one key of the select row. *)
EXTENDS MidiRouter
=============================================================================
