------------------------------ MODULE Connections ------------------------------
(***************************************************************************)
(* The script wireplumber/pmx_manage_connections.lua.                      *)
(*                                                                         *)
(* Its hooks link hardware ports to the inputs of the input channels, as   *)
(* the metadata channel_port_n say, and the outputs of the input channels  *)
(* to the loopers of their groups, as the metadata channel_group_n say.    *)
(* They run when a port appears and when the metadata changes, and look    *)
(* ports and links up in the script's object manager.  That is a copy: the *)
(* PipeWire server makes and destroys links later, in the order in which   *)
(* it was asked, and the copy learns of it later still.                    *)
(***************************************************************************)
EXTENDS Integers, Sequences, SequencesExt

CONSTANTS Names,         \* the aliases of the ports that come and go
          Channels,      \* the numbers of input channels whose metadata change
          Groups,        \* the groups they are assigned to: among 1 .. 4
          Unset,         \* the value of a key that is not set
          MaxChanges     \* bound: how often a port comes or goes or a key is set

(***************************************************************************)
(* An alias is a tuple: <<"device", d>>, <<"input", n>>, <<"output", m>>,  *)
(* <<"loop_in", k, s>>, <<"loop_out", k, s>>, <<"group_in", layer, i>>.    *)
(***************************************************************************)
Kind(name) == name[1]
Out(name) == Kind(name) \in {"device", "output", "loop_out"}

Devices == {name \in Names : Kind(name) = "device"}
Keys == {"channel_port", "channel_group"} \X Channels
ValuesOf(key) == IF key[1] = "channel_port" THEN Devices \union {Unset} ELSE Groups

ASSUME ConnectionsAssumption ==
  /\ Channels \subseteq 1 .. 32
  /\ Groups \subseteq 1 .. 4
  /\ MaxChanges \in Nat

\* Strips have 32 inputs and 64 outputs; a key without a value names no port.
ASSUME NamesAssumption ==
  /\ \A name \in Names : Kind(name) = "input" => \E n \in 1 .. 32 : name = <<"input", n>>
  /\ \A name \in Names : Kind(name) = "output" => \E n \in 1 .. 64 : name = <<"output", n>>
  /\ Unset \notin Names /\ Unset \notin Groups

VARIABLES
  metadata,
  \* the server
  ports,        \* records of an id and a name
  links,        \* records of an id and the ids of two ports, out and in
  nextId,
  requests,     \* what the script asked for and is not yet done, in order
  \* WirePlumber
  knownPorts, knownLinks,   \* the object manager's copies
  appeared,     \* port-added events not yet handled
  changed,      \* metadata-changed events not yet handled, in order
  \* history
  changes,      \* counts towards MaxChanges
  asked,        \* pairs of ids of ports: the links last asked for
  overtaken     \* ids of the ports whose last change of metadata came while a
                \* link was under way that the copy did not show

server == <<ports, links, nextId>>
copies == <<knownPorts, knownLinks>>
events == <<appeared, changed>>
history == <<asked, overtaken>>
vars == <<metadata, server, requests, copies, events, changes, history>>

-----------------------------------------------------------------------------
(* What the hooks look up *)

lookup(name) == {p \in knownPorts : p.name = name}

\* The port that an output of an input channel is linked to, for a group.
group_target(source_input_id, group_id) ==
  LET target_port_id == (group_id - 1) * 2 + (1 - (source_input_id % 2)) + 1
      loop == target_port_id \div 2 + (IF source_input_id > 32 THEN 3 ELSE -1)
  IN  <<"loop_in", loop, target_port_id % 2>>

\* The number of the channel an output belongs to, in either layer.
channel_of(output) == IF output > 32 THEN output - 32 ELSE output

looper_out_port(layer, input_id) ==
  <<"loop_out", (input_id - 1) \div 2 + (IF layer = "A" THEN 0 ELSE 4), 2 - (input_id % 2)>>

Pairs(outs, ins) == {<<o.id, i.id>> : o \in outs, i \in ins}

connect_initial_fc_inputs(p) ==
  IF Kind(p.name) = "input" /\ p.name[2] \in Channels
    THEN Pairs(lookup(metadata[<<"channel_port", p.name[2]>>]), {p})
    ELSE {}

connect_initial_ports(p) ==
  IF Out(p.name)
    THEN Pairs({p}, UNION {lookup(<<"input", n>>) :
                             n \in {n \in Channels : metadata[<<"channel_port", n>>] = p.name}})
    ELSE {}

\* Both hooks, for group a and for group b.
connect_looper_to_group(p) ==
  IF Out(p.name) /\ Kind(p.name) = "group_in"
    THEN Pairs(lookup(looper_out_port(p.name[2], p.name[3])), {p})
    ELSE {}

connect_initial_group_inputs(p) ==
  IF Kind(p.name) = "output" /\ channel_of(p.name[2]) \in Channels
    THEN LET group == metadata[<<"channel_group", channel_of(p.name[2])>>]
         IN  IF group = Unset THEN {} ELSE Pairs({p}, lookup(group_target(p.name[2], group)))
    ELSE {}

create(pairs) == SetToSeq({<<"create", pair[1], pair[2]>> : pair \in pairs})
\* Mutant: the links that are there stay.
destroy_nothing(ls) == << >>

request_destroy(ls) == SetToSeq({<<"destroy", l.id>> : l \in ls})

\* The links of a port that are under way: asked for or made, but not in the copy.
UnderWay(p) ==
  {<<l.out, l.in>> : l \in {l \in links \ knownLinks : p.id \in {l.out, l.in}}}
  \union {<<r[2], r[3]>> : r \in {r \in ToSet(requests) : r[1] = "create" /\ p.id \in {r[2], r[3]}}}

-----------------------------------------------------------------------------
(* The hooks *)

PortAdded(p) ==
  LET pairs == connect_initial_fc_inputs(p) \union connect_initial_ports(p)
               \union connect_looper_to_group(p) \union connect_initial_group_inputs(p)
  IN  /\ p \in appeared
      /\ appeared' = appeared \ {p}
      /\ requests' = requests \o create(pairs)
      /\ asked' = asked \union pairs
      /\ UNCHANGED <<metadata, server, copies, changed, changes, overtaken>>

\* The ports whose links a key governs: one input, or an output of each layer.
Governed(key) ==
  IF key[1] = "channel_port" THEN {<<"input", key[2]>>}
  ELSE {<<"output", key[2]>>, <<"output", key[2] + 32>>}

\* Mutant: the ends of a link in the wrong order.
SwappedPairs(p, value) ==
  IF Kind(p.name) = "input" THEN Pairs(lookup(value), {p})
  ELSE Pairs(lookup(group_target(p.name[2], value)), {p})

\* The links that a value gives a port.
NewPairs(p, value) ==
  IF Kind(p.name) = "input" THEN Pairs(lookup(value), {p})
  ELSE Pairs({p}, lookup(group_target(p.name[2], value)))

\* Mutant: the new link is asked for before the old ones are removed.
CreateFirst(name, value) ==
  IF lookup(name) = {} THEN << >>
  ELSE LET p == CHOOSE p \in lookup(name) : TRUE
       IN  create(NewPairs(p, value)) \o request_destroy({l \in knownLinks : p.id \in {l.out, l.in}})

\* What a hook asks for a port, if it finds it: its links go, then the new one comes.
Relink(name, value) ==
  IF lookup(name) = {} THEN << >>
  ELSE LET p == CHOOSE p \in lookup(name) : TRUE
       IN  request_destroy({l \in knownLinks : p.id \in {l.out, l.in}}) \o create(NewPairs(p, value))

\* The hook of channel_port_n; or the one of channel_group_n, group a's output first.
Relinks(key, value) ==
  IF key[1] = "channel_port" THEN Relink(<<"input", key[2]>>, value)
  ELSE Relink(<<"output", key[2]>>, value) \o Relink(<<"output", key[2] + 32>>, value)

MetadataChanged ==
  /\ changed # << >>
  /\ LET key == Head(changed)[1]
         value == Head(changed)[2]
         ps == UNION {lookup(name) : name \in Governed(key)}
     IN  /\ requests' = requests \o Relinks(key, value)
         /\ asked' = {a \in asked : \A p \in ps : p.id \notin {a[1], a[2]}}
                     \union UNION {NewPairs(p, value) : p \in ps}
         /\ overtaken' = (overtaken \ {p.id : p \in ps})
                         \union {p.id : p \in {p \in ps : UnderWay(p) \ NewPairs(p, value) # {}}}
  /\ changed' = Tail(changed)
  /\ UNCHANGED <<metadata, server, copies, appeared, changes>>

-----------------------------------------------------------------------------
(* The server *)

(***************************************************************************)
(* A link between ports that are there and not linked yet.  Which is out   *)
(* and which is in the server would check too: TypeOK says it need not.    *)
(***************************************************************************)
Create ==
  /\ requests # << >> /\ Head(requests)[1] = "create"
  /\ LET o == Head(requests)[2]
         i == Head(requests)[3]
         ids == {p.id : p \in ports}
     IN  IF {o, i} \subseteq ids /\ ~ \E l \in links : l.out = o /\ l.in = i
           THEN links' = links \union {[id |-> nextId, out |-> o, in |-> i]} /\ nextId' = nextId + 1
           ELSE UNCHANGED <<links, nextId>>
  /\ requests' = Tail(requests)
  /\ UNCHANGED <<metadata, ports, copies, events, changes, history>>

\* A link that is gone already is no error.
Destroy ==
  /\ requests # << >> /\ Head(requests)[1] = "destroy"
  /\ links' = {l \in links : l.id # Head(requests)[2]}
  /\ requests' = Tail(requests)
  /\ UNCHANGED <<metadata, ports, nextId, copies, events, changes, history>>

PortAppears(name) ==
  /\ changes < MaxChanges
  /\ \A p \in ports : p.name # name
  /\ ports' = ports \union {[id |-> nextId, name |-> name]}
  /\ nextId' = nextId + 1
  /\ changes' = changes + 1
  /\ UNCHANGED <<metadata, links, requests, copies, events, history>>

\* The links of a port go with it.
PortDisappears(p) ==
  /\ changes < MaxChanges
  /\ ports' = ports \ {p}
  /\ links' = {l \in links : p.id \notin {l.out, l.in}}
  /\ changes' = changes + 1
  /\ UNCHANGED <<metadata, nextId, requests, copies, events, history>>

-----------------------------------------------------------------------------
(* What WirePlumber learns *)

\* The end of an object is announced before another one of its name.
LearnPort(p) ==
  /\ lookup(p.name) = {}
  /\ knownPorts' = knownPorts \union {p}
  /\ appeared' = appeared \union {p}
  /\ UNCHANGED <<metadata, server, requests, knownLinks, changed, changes, history>>

\* The event of a port that is gone is cancelled.
ForgetPort(p) ==
  /\ knownPorts' = knownPorts \ {p}
  /\ appeared' = appeared \ {p}
  /\ asked' = {a \in asked : p.id \notin {a[1], a[2]}}
  /\ overtaken' = overtaken \ {p.id}
  /\ UNCHANGED <<metadata, server, requests, knownLinks, changed, changes>>

LearnLink(l) ==
  /\ knownLinks' = knownLinks \union {l}
  /\ UNCHANGED <<metadata, server, requests, knownPorts, events, changes, history>>

ForgetLink(l) ==
  /\ knownLinks' = knownLinks \ {l}
  /\ UNCHANGED <<metadata, server, requests, knownPorts, events, changes, history>>

\* The metadata are WirePlumber's own; a key that gets another value is an event.
SetMetadata(key, value) ==
  /\ changes < MaxChanges
  /\ metadata[key] # value
  /\ metadata' = [metadata EXCEPT ![key] = value]
  /\ changed' = Append(changed, <<key, value>>)
  /\ changes' = changes + 1
  /\ UNCHANGED <<server, requests, copies, appeared, history>>

-----------------------------------------------------------------------------
Init ==
  /\ metadata = [key \in Keys |-> Unset]
  /\ ports = {} /\ links = {} /\ nextId = 0 /\ requests = << >>
  /\ knownPorts = {} /\ knownLinks = {} /\ appeared = {} /\ changed = << >>
  /\ changes = 0 /\ asked = {} /\ overtaken = {}

Hooks == (\E p \in appeared : PortAdded(p)) \/ MetadataChanged

Server == Create \/ Destroy

Copy ==
  \/ \E p \in ports \ knownPorts : LearnPort(p)
  \/ \E p \in knownPorts \ ports : ForgetPort(p)
  \/ \E l \in links \ knownLinks : LearnLink(l)
  \/ \E l \in knownLinks \ links : ForgetLink(l)

Surroundings ==
  \/ \E name \in Names : PortAppears(name)
  \/ \E p \in ports : PortDisappears(p)
  \/ \E key \in Keys : \E value \in ValuesOf(key) : SetMetadata(key, value)

Next == Hooks \/ Server \/ Copy \/ Surroundings

Spec == Init /\ [][Next]_vars

-----------------------------------------------------------------------------
(* Nothing is under way: no event, no request, and the copy is up to date. *)
Settled ==
  /\ appeared = {} /\ changed = << >> /\ requests = << >>
  /\ knownPorts = ports /\ knownLinks = links

\* The names a port is linked to, and those the script links it to by the metadata.
Linked(p) ==
  {q.name : q \in {q \in ports : \E l \in links : {l.out, l.in} = {p.id, q.id}}}

Wanted(p) ==
  CASE Kind(p.name) = "input" -> {metadata[<<"channel_port", p.name[2]>>]}
    [] Kind(p.name) = "output" ->
         LET group == metadata[<<"channel_group", channel_of(p.name[2])>>]
         IN  IF group = Unset THEN {} ELSE {group_target(p.name[2], group)}

Managed == {p \in ports : \E key \in Keys : p.name \in Governed(key)}

TypeOK ==
  /\ \A key \in Keys : metadata[key] \in ValuesOf(key) \union {Unset}
  /\ \A p \in ports \union knownPorts : p.name \in Names /\ p.id \in 0 .. nextId - 1
  /\ \A p, q \in knownPorts : p.name = q.name => p = q
  /\ \A l \in links : \E p, q \in ports :
       l.out = p.id /\ l.in = q.id /\ Out(p.name) /\ ~ Out(q.name)
  /\ appeared \subseteq knownPorts
  /\ \A c \in ToSet(changed) : c[1] \in Keys /\ c[2] \in ValuesOf(c[1])
  /\ changes \in 0 .. MaxChanges

(***************************************************************************)
(* Once everything is done, a channel's input is linked to the port that   *)
(* the metadata name, if there is one: whichever of the two ports and the  *)
(* metadata came last, and however often they changed.  And every link     *)
(* that a hook asked for last is there: no request to destroy a link, be   *)
(* it late or sent twice, has hit another one.                             *)
(***************************************************************************)
NothingMissing ==
  Settled =>
    /\ \A p \in Managed : Kind(p.name) = "input" =>
         \A q \in ports : q.name \in Wanted(p) => q.name \in Linked(p)
    /\ \A a \in asked : \E l \in links : a = <<l.out, l.in>>

(***************************************************************************)
(* Once everything is done, a channel has a link that the metadata do not  *)
(* give it only if its metadata last changed while an older link was under *)
(* way: the hook destroys the links it sees and cannot see that one.       *)
(***************************************************************************)
StrayOnlyIfOvertaken ==
  Settled => \A p \in Managed : p.id \notin overtaken => Linked(p) \subseteq Wanted(p)

-----------------------------------------------------------------------------
(* What the comments of the script say *)

(***************************************************************************)
(* "we'll create the initial connections to the group sooperloopers here": *)
(* an output that appears after the loopers, in a group, is linked to the  *)
(* looper of that group of its layer, left to its first and right to its   *)
(* second input.                                                           *)
(***************************************************************************)
GroupLooper(output, group) ==
  <<"loop_in", group - 1 + (IF output > 32 THEN 4 ELSE 0), 2 - (output % 2)>>

ReachesItsGroup ==
  Settled => \A p \in Managed : Kind(p.name) = "output" =>
    LET group == metadata[<<"channel_group", channel_of(p.name[2])>>]
    IN  \A q \in ports : (q.id < p.id /\ group # Unset /\ q.name = GroupLooper(p.name[2], group))
                           => q.name \in Linked(p)

(***************************************************************************)
(* "Creates the links from sooperlooper ports to group a ports", when the  *)
(* port of the group appears after those of the looper.                    *)
(***************************************************************************)
LoopersFeedGroups ==
  Settled => \A p \in ports : Kind(p.name) = "group_in" =>
    \A q \in ports : (q.id < p.id /\ q.name = looper_out_port(p.name[2], p.name[3]))
                       => q.name \in Linked(p)
=============================================================================
