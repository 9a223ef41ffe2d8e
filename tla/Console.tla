--------------------------------- MODULE Console ---------------------------------
(***************************************************************************)
(* The application pmx-console: one thread reads commands.                 *)
(*                                                                         *)
(* send hands an OSC message to the signal processor of the console's      *)
(* filter and waits for its answer; two atomics say whose turn it is.      *)
(* status and setup look objects up in lists to which a second thread      *)
(* appends what is announced and from which nothing is ever removed.       *)
(* meta and pmx call wpcpp::Metadata; further callers are threads of the   *)
(* gRPC API, which shares the class.                                       *)
(*                                                                         *)
(* A node, its port pmx-osc and its links are announced one by one, in any *)
(* order and to each thread apart.  Nodes are numbered as they come; the   *)
(* number stands for the port too.  Ids of nodes are used again, those of  *)
(* ports not.                                                              *)
(***************************************************************************)
EXTENDS MetadataCalls, FiniteSets

CONSTANTS Terminal,       \* the thread that reads the commands, one of the callers
          Producers, Consumers,  \* pmx_osc_producer_node_names, ..._consumer_node_names
          Ctrl,           \* pmx-filter-chain-ctrl
          Chains,         \* names of the filter chains' inputs
          Ids,            \* of nodes
          MaxNodes,       \* bound: nodes that ever were
          MaxObjects,     \* bound: nodes and links that come and go
          MaxCalls,       \* bound: messages sent, calls of Metadata
          MaxBoth         \* bound: the product of the two

ASSUME ConsoleAssumption ==
  /\ Terminal \in Callers /\ {MaxNodes, MaxObjects, MaxCalls, MaxBoth} \subseteq Nat
  /\ Ctrl \notin Chains /\ Producers \cap Consumers = {}

VARIABLES
  prompt,         \* what the terminal's thread does
  has_request, has_response,
  request,        \* number of the message in request.data
  response,       \* response.message
  processor,      \* where the signal processor stands
  proxies,        \* ProxyCollection: what was announced, <<"node", k>> or <<"port", k>>
  watched,        \* the watcher's proxies: the nodes announced to it
  links,          \* LinkCollection: the links announced, as pairs of nodes
  snapshot,       \* the length of the list when a command copied it
  \* PipeWire
  nodes,          \* all nodes that ever were, with name and id
  living,         \* the number of the node of each name, 0 when there is none
  made, linked,   \* all links that ever were, the links that are
  events,
  \* history
  emitted,        \* messages put into a buffer
  printed,        \* the answer to each message
  unlinked        \* pairs of names that lost a link

hand_over == <<has_request, has_response, request, response, processor, emitted, printed>>
collections == <<proxies, watched, links, nodes, living, made, linked, unlinked>>
vars == <<calls, prompt, hand_over, collections, snapshot, events>>

Names == Producers \union Consumers \union {Ctrl} \union Chains

Bounded(e) ==
  e.objects <= MaxObjects /\ e.calls <= MaxCalls /\ e.objects * e.calls <= MaxBoth

Another(event) == events' = [events EXCEPT ![event] = @ + 1] /\ Bounded(events')

-----------------------------------------------------------------------------
(* send *)

\* send_command fills request.data only when the line is complete.
Send ==
  /\ prompt = "reading" /\ Another("calls")
  /\ request' = request + 1 /\ has_request' = TRUE
  /\ prompt' = "awaiting"
  /\ UNCHANGED <<calls, has_response, response, processor, emitted, printed, collections,
                 snapshot>>

Await ==
  /\ prompt = "awaiting" /\ has_response
  /\ has_response' = FALSE
  /\ prompt' = "printing"
  /\ UNCHANGED <<calls, has_request, request, response, processor, emitted, printed,
                 collections, snapshot, events>>

PrintResponse ==
  /\ prompt = "printing"
  /\ printed' = Append(printed, response)
  /\ prompt' = "reading"
  /\ UNCHANGED <<calls, has_request, has_response, request, response, processor, emitted,
                 collections, snapshot, events>>

-----------------------------------------------------------------------------
(* The signal processor: its writes are seen one after the other *)

\* A cycle with a request; without an out buffer the message is lost.
Cycle(out) ==
  /\ processor = "idle" /\ has_request
  /\ emitted' = IF out THEN Append(emitted, request) ELSE emitted
  /\ processor' = IF out THEN "clear" ELSE "no buffer"
  /\ UNCHANGED <<calls, prompt, has_request, has_response, request, response, printed,
                 collections, snapshot, events>>

\* The message of the error comes before has_request is cleared.
NoBuffer ==
  /\ processor = "no buffer"
  /\ response' = "No buffer" /\ has_request' = FALSE
  /\ processor' = "respond"
  /\ UNCHANGED <<calls, prompt, has_response, request, emitted, printed, collections,
                 snapshot, events>>

\* Mutant: the answer is announced before it is written.
AnnounceFirst ==
  /\ processor = "clear"
  /\ has_request' = FALSE /\ has_response' = TRUE
  /\ processor' = "message"
  /\ UNCHANGED <<calls, prompt, request, response, emitted, printed, collections, snapshot,
                 events>>

ClearRequest ==
  /\ processor = "clear"
  /\ has_request' = FALSE
  /\ processor' = "message"
  /\ UNCHANGED <<calls, prompt, has_response, request, response, emitted, printed,
                 collections, snapshot, events>>

SetMessage ==
  /\ processor = "message"
  /\ response' = "OK"
  /\ processor' = "respond"
  /\ UNCHANGED <<calls, prompt, has_request, has_response, request, emitted, printed,
                 collections, snapshot, events>>

Respond ==
  /\ processor = "respond"
  /\ has_response' = TRUE
  /\ processor' = "idle"
  /\ UNCHANGED <<calls, prompt, has_request, request, response, emitted, printed,
                 collections, snapshot, events>>

-----------------------------------------------------------------------------
(* PipeWire, and the lists that follow it *)

IdsInUse == {nodes[living[n]].id : n \in {m \in Names : living[m] # 0}}

NodeAdded(n, id) ==
  /\ Another("objects") /\ Len(nodes) < MaxNodes /\ living[n] = 0 /\ id \notin IdsInUse
  /\ nodes' = Append(nodes, [name |-> n, id |-> id])
  /\ living' = [living EXCEPT ![n] = Len(nodes) + 1]
  /\ UNCHANGED <<calls, prompt, hand_over, proxies, watched, links, made, linked, unlinked,
                 snapshot>>

\* A node goes with its links; there is no callback for it.
NodeRemoved(n) ==
  /\ Another("objects") /\ living[n] # 0
  /\ living' = [living EXCEPT ![n] = 0]
  /\ linked' = {l \in linked : living[n] \notin {l[1], l[2]}}
  /\ UNCHANGED <<calls, prompt, hand_over, proxies, watched, links, nodes, made, unlinked,
                 snapshot>>

LinkAdded(p, c) ==
  LET l == <<living[p], living[c]>> IN
  /\ Another("objects") /\ 0 \notin {l[1], l[2]} /\ l \notin linked
  /\ linked' = linked \union {l} /\ made' = made \union {l}
  /\ UNCHANGED <<calls, prompt, hand_over, proxies, watched, links, nodes, living, unlinked,
                 snapshot>>

LinkRemoved(p, c) ==
  LET l == <<living[p], living[c]>> IN
  /\ Another("objects") /\ l \in linked
  /\ linked' = linked \ {l}
  /\ unlinked' = unlinked \union {{p, c}}
  /\ UNCHANGED <<calls, prompt, hand_over, proxies, watched, links, nodes, living, made,
                 snapshot>>

\* An announcement may come when its object has gone.
proxy_added_callback(kind, k) ==
  /\ \A i \in 1 .. Len(proxies) : proxies[i] # <<kind, k>>
  /\ proxies' = Append(proxies, <<kind, k>>)
  /\ UNCHANGED <<calls, prompt, hand_over, watched, links, nodes, living, made, linked,
                 unlinked, snapshot, events>>

process_registry_event(k) ==
  /\ \A i \in 1 .. Len(watched) : watched[i] # k
  /\ watched' = Append(watched, k)
  /\ UNCHANGED <<calls, prompt, hand_over, proxies, links, nodes, living, made, linked,
                 unlinked, snapshot, events>>

link_added_callback(l) ==
  /\ l \notin links
  /\ links' = links \union {l}
  /\ UNCHANGED <<calls, prompt, hand_over, proxies, watched, nodes, living, made, linked,
                 unlinked, snapshot, events>>

-----------------------------------------------------------------------------
(* status and setup *)

\* get_proxies copies the list under its mutex: as the list only grows the copy is its first
\* part.
GetProxies(command) ==
  /\ prompt = "reading"
  /\ snapshot' = Len(proxies)
  /\ prompt' = command
  /\ UNCHANGED <<calls, hand_over, collections, events>>

Copied == 1 .. snapshot

Node(i) == proxies[i][2]
IdOf(i) == nodes[Node(i)].id

\* The nodes of a name.
Places(n) == {i \in Copied : proxies[i][1] = "node" /\ nodes[Node(i)].name = n}

\* The ports of a node: those that bear its id.
PortsOf(i) == {j \in Copied : proxies[j][1] = "port" /\ IdOf(j) = IdOf(i)}

\* std::find_if
First(S) == CHOOSE i \in S : \A j \in S : i <= j

Port(i) == Node(First(PortsOf(i)))

\* Mutant: the ends of the link are mixed up.
MixedUp(i, j) == <<Port(j), Port(i)>> \in links

\* get_links copies the list when the command has looked the nodes up.
LinkFound(i, j) == <<Port(i), Port(j)>> \in links

\* The line about a producer and a consumer of which both ports were found.
Complains(p, c) ==
  \E i \in Places(p), j \in Places(c) :
    PortsOf(i) # {} /\ PortsOf(j) # {} /\ ~LinkFound(i, j)

\* "couldn't find producer", "couldn't find consumer"
WrongNodes == {n \in Producers \union Consumers : (Places(n) = {}) <=> living[n] # 0}

\* "couldn't find output port", and only where there is one "couldn't find input port"
MissingOutput(p, c) == \E i \in Places(p) : PortsOf(i) = {} /\ Places(c) # {}

MissingInput(p, c) ==
  \E j \in Places(c) : PortsOf(j) = {} /\ \E i \in Places(p) : PortsOf(i) # {}

WrongPorts ==
  {p \in Producers : living[p] # 0 /\ \E c \in Consumers : MissingOutput(p, c)}
    \union {c \in Consumers : living[c] # 0 /\ \E p \in Producers : MissingInput(p, c)}

\* "couldn't find link", or no line about them
WrongLinks ==
  {pc \in Producers \X Consumers :
     /\ living[pc[1]] # 0 /\ living[pc[2]] # 0
     /\ Complains(pc[1], pc[2]) <=> <<living[pc[1]], living[pc[2]]>> \in linked}

\* What was announced of the node of a name.
Announced(kind, n) == \E i \in Copied : proxies[i] = <<kind, living[n]>>

UnheardNodes(kinds) ==
  {n \in Names : living[n] # 0 /\ \E kind \in kinds : ~Announced(kind, n)}

UnheardLinks ==
  {pc \in Producers \X Consumers : <<living[pc[1]], living[pc[2]]>> \in linked \ links}

\* The lines are a function of the state; nothing changes but the prompt.
check_osc_connections ==
  /\ prompt = "status"
  /\ prompt' = "reading" /\ snapshot' = 0
  /\ UNCHANGED <<calls, hand_over, collections, events>>

\* get_proxy: the watcher's proxies of an id, the first one counts.
Proxies(id) == {i \in 1 .. Len(watched) : nodes[watched[i]].id = id}

\* The id of the first node of that name, 0 (nothing) if there is none.
IdFor(n) == IF Places(n) = {} THEN 0 ELSE IdOf(First(Places(n)))

LivingId(n) == IF living[n] = 0 THEN 0 ELSE nodes[living[n]].id

\* "couldn't find filter chain ctrl", "couldn't find filter chain ctrl pw proxy"
NoTarget == Places(Ctrl) = {} \/ Proxies(IdFor(Ctrl)) = {}

\* The node whose parameters are set.
Target == watched[First(Proxies(IdFor(Ctrl)))]

\* On whom setup is wrong: it does not find its target, or sets a wrong id or target.
WrongSetUp ==
  IF NoTarget THEN {n \in {Ctrl} : living[n] # 0}
  ELSE {n \in {Ctrl} : Target # living[n]} \union {n \in Chains : IdFor(n) # LivingId(n)}

UnheardByWatcher ==
  {n \in {Ctrl} : living[n] # 0 /\ \A i \in 1 .. Len(watched) : watched[i] # living[n]}

\* Where the target has a client, its parameters are set, which no list shows.
setup_command ==
  /\ prompt = "setup"
  /\ prompt' = "reading" /\ snapshot' = 0
  /\ UNCHANGED <<calls, hand_over, collections, events>>

-----------------------------------------------------------------------------
(* meta and pmx, and the callers of the gRPC API *)

BeginCall(c) ==
  /\ c = Terminal => prompt = "reading"
  /\ Another("calls") /\ Enter(c)
  /\ prompt' = IF c = Terminal THEN "calling" ELSE prompt
  /\ UNCHANGED <<hand_over, collections, snapshot>>

Calling(c) ==
  /\ InCall(c)
  /\ prompt' = IF c = Terminal /\ at'[c] = "outside" THEN "reading" ELSE prompt
  /\ UNCHANGED <<hand_over, collections, snapshot, events>>

WirePlumber == MainLoop /\ UNCHANGED <<prompt, hand_over, collections, snapshot, events>>

-----------------------------------------------------------------------------
Init ==
  /\ CallsInit
  /\ prompt = "reading" /\ has_request = FALSE /\ has_response = FALSE
  /\ request = 0 /\ response = "" /\ processor = "idle"
  /\ proxies = << >> /\ watched = << >> /\ links = {} /\ snapshot = 0
  /\ nodes = << >> /\ living = [n \in Names |-> 0] /\ made = {} /\ linked = {} /\ events = [objects |-> 0, calls |-> 0]
  /\ emitted = << >> /\ printed = << >> /\ unlinked = {}

SignalProcessor ==
  (\E out \in BOOLEAN : Cycle(out)) \/ NoBuffer \/ ClearRequest \/ SetMessage \/ Respond

Terminals ==
  \/ Send \/ Await \/ PrintResponse
  \/ (\E command \in {"status", "setup"} : GetProxies(command))
  \/ check_osc_connections \/ setup_command

PipeWire ==
  \/ \E n \in Names : NodeRemoved(n) \/ \E id \in Ids : NodeAdded(n, id)
  \/ \E p \in Producers, c \in Consumers : LinkAdded(p, c) \/ LinkRemoved(p, c)

Announcements ==
  \/ \E k \in 1 .. Len(nodes) :
       process_registry_event(k) \/ \E kind \in {"node", "port"} : proxy_added_callback(kind, k)
  \/ \E l \in made : link_added_callback(l)

Next ==
  \/ Terminals \/ SignalProcessor \/ PipeWire \/ Announcements
  \/ \E c \in Callers : BeginCall(c) \/ Calling(c)
  \/ WirePlumber

Spec == Init /\ [][Next]_vars

-----------------------------------------------------------------------------
(***************************************************************************)
(* Each answer that is printed is the one to its message: OK if and only   *)
(* if that message was put into a buffer, and no message is put into two.  *)
(***************************************************************************)
AnswersItsMessage ==
  /\ \A k \in DOMAIN printed : printed[k] = "OK" <=> \E i \in DOMAIN emitted : emitted[i] = k
  /\ \A i, j \in DOMAIN emitted : emitted[i] = emitted[j] => i = j

\* Another node bore the name, or bears or bore the id.
Ambiguous(n) ==
  \E k \in 1 .. Len(nodes) :
    k # living[n] /\ (nodes[k].name = n \/ (living[n] # 0 /\ nodes[k].id = LivingId(n)))

\* w, a name or a pair of names, is one on which the lists may mislead.
Excused(w, unheard) ==
  unheard \intersect SUBSET w # {} \/ w \in unlinked \/ \E n \in w : Ambiguous(n)

(***************************************************************************)
(* What status prints, and what setup reports or sends, is right when the  *)
(* command ends, although it looks the nodes up in one list, their links   *)
(* or the target in others, each as it was at another time.  Exceptions:   *)
(* it is about a node, a port or a link that had not been announced in the *)
(* list that was read; about a name or an id that another node bore; or    *)
(* about a link that was removed, as nothing ever leaves the lists.        *)
(***************************************************************************)
WrongOnlyIfOutdated ==
  /\ prompt = "status" =>
       LET unheard == {{n} : n \in UnheardNodes({"node", "port"})}
                        \union {{pc[1], pc[2]} : pc \in UnheardLinks} IN
       /\ \A n \in WrongNodes \union WrongPorts : Excused({n}, unheard)
       /\ \A pc \in WrongLinks : Excused({pc[1], pc[2]}, unheard)
  /\ prompt = "setup" =>
       LET unheard == {{n} : n \in UnheardNodes({"node"}) \union UnheardByWatcher} IN
       \A n \in WrongSetUp : Excused({n}, unheard)
=============================================================================
