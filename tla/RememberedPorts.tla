---------------------------- MODULE RememberedPorts ----------------------------
(***************************************************************************)
(* The scripts that remember ports to link them to ports that come later:  *)
(* pmx_connect_osc_ports.lua, pmx_connect_controllers.lua,                 *)
(* pmx_midi_routing_matrix.lua and pmx_connect_group_to_layer.lua (whose   *)
(* ports are nodes).                                                       *)
(*                                                                         *)
(* They keep, for each family of connections, the ports of either side     *)
(* they have seen.  None of them learns when a port goes.                  *)
(***************************************************************************)
EXTENDS Integers, Sequences, SequencesExt

CONSTANTS Names,        \* records: a side ("out" or "in") and the families of a port
          MaxChanges    \* bound: how often a port comes or goes

Lists == {"osc", "from_sl", "to_sl"}                       \* both sides are lists
Matrix == {"hapax", "clock"}                               \* one source, a list of targets
Singles == {"fader_fox", "b_cmd", "group_a", "group_b"}    \* one port on either side
Families == Lists \union Matrix \union Singles

ASSUME PortsAssumption ==
  /\ \A name \in Names : name.side \in {"out", "in"} /\ name.families \subseteq Families
  /\ MaxChanges \in Nat

VARIABLES
  ports,        \* those that are there: records of an id and a name; ids count up
  links,        \* pairs of ids
  nextId,
  appeared,     \* those whose port-added event is not yet handled
  outs, ins,    \* for each family, the ports remembered, in order
  new_input_port,   \* the last input of a list that was seen: one or none
  changes       \* counts towards MaxChanges

surroundings == <<ports, nextId, changes>>
vars == <<surroundings, links, appeared, outs, ins, new_input_port>>

-----------------------------------------------------------------------------
(***************************************************************************)
(* The ports of a list that its loop reaches and can link.  A port that is *)
(* gone has no id: depending on WirePlumber it yields no link, or an error *)
(* that ends the hook ("raises").                                          *)
(***************************************************************************)
Reached(s, raises) ==
  {s[i] : i \in {i \in DOMAIN s : /\ s[i] \in ports
                                  /\ raises => \A j \in 1 .. i - 1 : s[j] \in ports}}

\* Mutant: a source is linked to the last target only.
LinkLast(f, p, raises) ==
  LET os == IF p.name.side = "out" THEN {p} ELSE Reached(outs[f], raises)
      is == IF p.name.side = "in" THEN {p}
            ELSE IF ins[f] = << >> THEN {} ELSE Reached(<<Last(ins[f])>>, raises)
  IN  {<<o.id, i.id>> : o \in os, i \in is}

\* A new target of the matrix links all the targets again, in order.
Made(f, p, raises) ==
  LET os == IF p.name.side = "out" THEN {p} ELSE Reached(outs[f], raises)
      is == IF p.name.side = "out" THEN Reached(ins[f], raises)
            ELSE IF f \in Matrix THEN Reached(Append(ins[f], p), raises) ELSE {p}
  IN  {<<o.id, i.id>> : o \in os, i \in is}

Replaces(f, side) == f \in Singles \/ (f \in Matrix /\ side = "out")

\* Mutant: no port is ever replaced.
Collect(f, s, p) == Append(s, p)

Remember(f, s, p) == IF Replaces(f, p.name.side) THEN <<p>> ELSE Append(s, p)

\* Mutant: the hook for pmx-osc outputs prints it too.
FailsAnywhere(f, p, raises) ==
  f \in Lists /\ p.name.side = "out" /\ new_input_port = << >>

(***************************************************************************)
(* The hooks for pmx-from-sl-osc and pmx-to-sl-osc outputs print the alias *)
(* of new_input_port, a global that the hooks for inputs set, before they  *)
(* remember the port: without one they end in an error.                    *)
(***************************************************************************)
Fails(f, p, raises) ==
  /\ f \in {"from_sl", "to_sl"} /\ p.name.side = "out"
  /\ \/ new_input_port = << >>
     \/ raises /\ new_input_port[1] \notin ports

\* The events are handled in the order in which the ports came.
PortAdded(p, raises) ==
  /\ \A q \in appeared : p.id <= q.id
  /\ LET side == p.name.side
         families == {f \in p.name.families : ~ Fails(f, p, raises)}
     IN  /\ links' = links \union UNION {Made(f, p, raises) : f \in families}
         /\ outs' = [f \in Families |-> IF f \in families /\ side = "out"
                                          THEN Remember(f, outs[f], p) ELSE outs[f]]
         /\ ins' = [f \in Families |-> IF f \in families /\ side = "in"
                                         THEN Remember(f, ins[f], p) ELSE ins[f]]
         /\ new_input_port' = IF side = "in" /\ p.name.families \intersect Lists # {}
                                THEN <<p>> ELSE new_input_port
  /\ appeared' = appeared \ {p}
  /\ UNCHANGED surroundings

PortAppears(name) ==
  /\ changes < MaxChanges
  /\ \A p \in ports : p.name # name
  /\ LET p == [id |-> nextId, name |-> name]
     IN  ports' = ports \union {p} /\ appeared' = appeared \union {p}
  /\ nextId' = nextId + 1
  /\ changes' = changes + 1
  /\ UNCHANGED <<links, outs, ins, new_input_port>>

\* Its links go with it, and its event is cancelled.
PortDisappears(p) ==
  /\ changes < MaxChanges
  /\ ports' = ports \ {p}
  /\ links' = {l \in links : p.id \notin {l[1], l[2]}}
  /\ appeared' = appeared \ {p}
  /\ changes' = changes + 1
  /\ UNCHANGED <<nextId, outs, ins, new_input_port>>

Init ==
  /\ ports = {} /\ links = {} /\ nextId = 0 /\ appeared = {} /\ changes = 0
  /\ outs = [f \in Families |-> << >>] /\ ins = [f \in Families |-> << >>]
  /\ new_input_port = << >>

Next ==
  \/ \E p \in appeared, raises \in BOOLEAN : PortAdded(p, raises)
  \/ \E name \in Names : PortAppears(name)
  \/ \E p \in ports : PortDisappears(p)

Spec == Init /\ [][Next]_vars

-----------------------------------------------------------------------------
TypeOK ==
  /\ \A p \in ports : p.name \in Names /\ p.id \in 0 .. nextId - 1
  /\ appeared \subseteq ports
  /\ \A f \in Families :
       /\ \A p \in ToSet(outs[f]) : p.name.side = "out" /\ f \in p.name.families
       /\ \A p \in ToSet(ins[f]) : p.name.side = "in" /\ f \in p.name.families
       /\ Replaces(f, "out") => Len(outs[f]) <= 1
       /\ Replaces(f, "in") => Len(ins[f]) <= 1
  /\ \A l \in links : \E o, i \in ports :
       /\ l = <<o.id, i.id>>
       /\ o.name.side = "out" /\ i.name.side = "in"
       /\ o.name.families \intersect i.name.families # {}

\* A port that is gone stands before p in a list.
Obstructed(p, s) ==
  \E i, j \in DOMAIN s : j < i /\ s[i] = p /\ s[j] \notin ports

(***************************************************************************)
(* Two ports of a family that are remembered are linked, whichever came    *)
(* first and however often each was replaced; only a port of their lists   *)
(* that went, and stands before one of them, can have prevented it.        *)
(***************************************************************************)
LinkedUnlessObstructed ==
  \A f \in Families :
    \A o \in ToSet(outs[f]) \intersect ports, i \in ToSet(ins[f]) \intersect ports :
      <<o.id, i.id>> \in links \/ Obstructed(o, outs[f]) \/ Obstructed(i, ins[f])

\* The inputs of the lists that were seen before p.
InputsBefore(p) == {q \in UNION {ToSet(ins[f]) : f \in Lists} : q.id < p.id}

(***************************************************************************)
(* A port that was seen is forgotten only if a newer one has taken its     *)
(* place, or if it is an output towards or from the looper that appeared   *)
(* before any input of pmx_connect_osc_ports.lua, or after the last one    *)
(* had gone.                                                               *)
(***************************************************************************)
ForgottenOnlyIfEarly ==
  \A p \in ports \ appeared : \A f \in p.name.families :
    LET seen == ToSet(IF p.name.side = "out" THEN outs[f] ELSE ins[f])
    IN  \/ p \in seen
        \/ Replaces(f, p.name.side) /\ \E q \in seen : q.id > p.id
        \/ /\ f \in {"from_sl", "to_sl"} /\ p.name.side = "out"
           /\ \A q \in InputsBefore(p) : q \in ports => \E r \in InputsBefore(p) : r.id > q.id
=============================================================================
