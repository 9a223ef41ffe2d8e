---------------------------- MODULE FilterChainCtrl ----------------------------
(***************************************************************************)
(* The application pmx-filter-chain-ctrl.                                  *)
(*                                                                         *)
(* The signal processor (the PipeWire data thread) turns every OSC packet  *)
(* of a cycle into a request for the filter chain whose node id a filter   *)
(* parameter holds, pushes it to a bounded lock-free queue, and at the end *)
(* of the cycle notifies a condition variable WITHOUT holding its mutex.   *)
(* The controller thread drains the queue, looks the node up in the proxy  *)
(* watcher's list and writes the control on the main loop; with the queue  *)
(* empty it waits for the condition.  The main loop adds proxies to the    *)
(* list (it never removes one) and changes the parameters.                 *)
(*                                                                         *)
(* The controller thread pops with "queue.pop(&message)".  Given a pointer *)
(* spsc_queue::pop takes it for an output iterator and writes EVERYTHING   *)
(* that is queued from there on, though `message` is a single local: with  *)
(* more than one request in the queue that is undefined behaviour.  Of its *)
(* outcomes two are modelled: the surplus is lost and the thread goes on   *)
(* (Pop), or the process dies and systemd restarts it (Restart).           *)
(***************************************************************************)
EXTENDS Integers, Sequences

CONSTANTS Nodes,      \* node incarnations, a re-created node is a new one
          IdOf,       \* IdOf[n]: object id; PipeWire reuses the ids
          RoleOf,     \* RoleOf[n]: the filter chain n is, or "other"
          Paths,      \* the parsed OSC paths that may arrive
          Values,     \* the values a packet carries
          Capacity,   \* of the queue: 128
          Packets,    \* OSC packets parsed per cycle at most: 16
          Unset,      \* a control that was never written, a parameter not set
          NoNode      \* get_proxy found nothing

Chains == {"inputChannels", "groupChannelsA", "groupChannelsB", "layerChannels"}

Ids == {IdOf[n] : n \in Nodes}

PathType == [channel_type : {"input", "group", "layer"}, layer : {"A", "B"},
             channel_id : 0 .. 99, parameter : STRING]

ASSUME NodesAssumption ==
  /\ IdOf \in [Nodes -> Nat]
  /\ RoleOf \in [Nodes -> Chains \union {"other"}]
  /\ NoNode \notin Nodes
  /\ Unset \notin Nat /\ Unset \notin Values

ASSUME SizesAssumption ==
  /\ Paths \subseteq PathType
  /\ Capacity \in Nat \ {0}
  /\ Packets \in Nat \ {0}

VARIABLES
  \* PipeWire's graph and the main loop of the application
  live,             \* the nodes that exist now
  globals,          \* node globals in the order the registry announces them
  past,             \* those already gone when the application started: not announced
  known,            \* how far in globals the proxy watcher has come
  parameters,       \* parameters[c]: id of filter chain c, or Unset
  \* the signal processor
  left,             \* packets it may still process in this cycle, -1: no cycle
  wakeup_consumer,
  \* shared by the two threads
  queue,
  \* the controller thread
  controller,       \* where it is, see ControllerStates
  message,          \* the requests it has popped and not finished: one or none
  target,           \* the node get_proxy found
  \* the effect on the graph
  control,          \* control[n][c]: the value of control c of node n
  \* history
  missed            \* a notification found nobody in the wait set

graph == <<live, globals, past, known>>
processor == <<left, wakeup_consumer>>
thread == <<message, target>>
vars == <<live, globals, past, known, parameters, left, wakeup_consumer, queue,
          controller, message, target, control, missed>>

(***************************************************************************)
(* "drain": at the inner loop's test.  "lookup": has popped a message.     *)
(* "apply": is about to write to the node it found.  "lock": at the wait's *)
(* predicate.  "blocking": found it false, not yet in the wait set.        *)
(* "waiting": in the wait set.  "notified": taken out of it.               *)
(***************************************************************************)
ControllerStates ==
  {"drain", "lookup", "apply", "lock", "blocking", "waiting", "notified"}

-----------------------------------------------------------------------------
(* The signal processor *)

\* The filter parameter that holds the id of the chain a path is meant for.
NodeParameter(path) ==
  CASE path.channel_type = "input" -> "inputChannels"
    [] path.channel_type = "group" /\ path.layer = "A" -> "groupChannelsA"
    [] path.channel_type = "group" /\ path.layer # "A" -> "groupChannelsB"
    [] path.channel_type = "layer" -> "layerChannels"

\* The control's name inside its filter graph.
ParameterName(path) ==
  [parameter |-> path.parameter,
   unit |-> IF path.channel_type = "layer" THEN path.layer ELSE path.channel_type,
   number |-> CASE path.channel_type = "input" /\ path.layer # "A" -> 16 + path.channel_id
                [] path.channel_type = "layer" -> 0
                [] OTHER -> path.channel_id]

Controls == {ParameterName(p) : p \in Paths}

Request(path, id, value) == [path |-> path, filter_chain_id |-> id, value |-> value]

Requests == {Request(p, i, v) : p \in Paths, i \in Ids, v \in Values}

\* Mutant: a queue that grows.
PushUnbounded(r) == queue' = Append(queue, r)

\* spsc_queue::push: a full queue refuses the element, nobody looks at the result.
Push(r) == queue' = IF Len(queue) < Capacity THEN Append(queue, r) ELSE queue

BeginCycle ==
  /\ left = -1
  /\ left' = Packets
  /\ wakeup_consumer' = FALSE
  /\ UNCHANGED <<graph, parameters, queue, controller, thread, control, missed>>

\* get_filter_chain_id_and_add_to_queue: without an id only a warning.
ProcessPacket(path, value) ==
  LET id == parameters[NodeParameter(path)] IN
  /\ left > 0
  /\ left' = left - 1
  /\ IF id = Unset
       THEN UNCHANGED <<queue, wakeup_consumer>>
       ELSE /\ Push(Request(path, id, value))
            /\ wakeup_consumer' = TRUE
  /\ UNCHANGED <<graph, parameters, controller, thread, control, missed>>

\* Mutant: the wake-up is forgotten.
notify_nobody == UNCHANGED <<controller, missed>>

\* Only a thread that is already in the wait set is woken.
notify_all ==
  /\ controller' = IF controller = "waiting" THEN "notified" ELSE controller
  /\ missed' = (controller = "blocking")

\* The cycle ends with notify_all if any packet was accepted.
EndCycle ==
  /\ left >= 0
  /\ left' = -1
  /\ IF wakeup_consumer
       THEN notify_all
       ELSE UNCHANGED <<controller, missed>>
  /\ UNCHANGED <<graph, parameters, wakeup_consumer, queue, thread, control>>

-----------------------------------------------------------------------------
(* The controller thread *)

\* Mutant: the request is read but stays in the queue.
Peek ==
  /\ controller = "drain"
  /\ queue # << >>
  /\ message' = <<Head(queue)>>
  /\ controller' = "lookup"
  /\ UNCHANGED <<graph, parameters, processor, queue, target, control, missed>>

\* pop(&message): the oldest request arrives, whatever is queued behind it is lost.
Pop ==
  /\ controller = "drain"
  /\ queue # << >>
  /\ message' = <<Head(queue)>>
  /\ queue' = << >>
  /\ controller' = "lookup"
  /\ UNCHANGED <<graph, parameters, processor, target, control, missed>>

\* The position i of globals is one of the watcher's proxies, with that id.
IsProxy(i, id) == IdOf[globals[i]] = id /\ globals[i] \notin past

HasProxy(id) == \E i \in 1 .. known : IsProxy(i, id)

\* Mutant: the newest proxy wins.
get_newest_proxy(id, i) ==
  /\ IsProxy(i, id)
  /\ \A j \in 1 .. known : IsProxy(j, id) => j <= i

\* get_proxy: the first proxy of the list that bears the id.
get_proxy(id, i) ==
  /\ IsProxy(i, id)
  /\ \A j \in 1 .. known : IsProxy(j, id) => i <= j

Lookup ==
  /\ controller = "lookup"
  /\ \E i \in 1 .. known :
        /\ get_proxy(message[1].filter_chain_id, i)
        /\ target' = globals[i]
  /\ controller' = "apply"
  /\ UNCHANGED <<graph, parameters, processor, queue, message, control, missed>>

NoProxy ==
  /\ controller = "lookup"
  /\ ~ HasProxy(message[1].filter_chain_id)
  /\ message' = << >>
  /\ controller' = "drain"
  /\ UNCHANGED <<graph, parameters, processor, queue, target, control, missed>>

\* set_props_param, a blocking call on the main loop.  The client was bound to
\* the node its proxy was made for: once that node is gone nothing happens.
SetProps ==
  /\ controller = "apply"
  /\ control' = IF target \in live
                  THEN [control EXCEPT ![target][ParameterName(message[1].path)]
                                         = message[1].value]
                  ELSE control
  /\ message' = << >>
  /\ target' = NoNode
  /\ controller' = "drain"
  /\ UNCHANGED <<graph, parameters, processor, queue, missed>>

FoundEmpty ==
  /\ controller = "drain"
  /\ queue = << >>
  /\ controller' = "lock"
  /\ UNCHANGED <<graph, parameters, processor, queue, thread, control, missed>>

\* Mutant: wait(lock) without a predicate.
AlwaysWait == FALSE

WaitPredicate == queue # << >>

\* wait() tests its predicate: true leaves the wait, false goes on to block.
TestPredicate ==
  /\ controller = "lock"
  /\ controller' = IF WaitPredicate THEN "drain" ELSE "blocking"
  /\ missed' = FALSE
  /\ UNCHANGED <<graph, parameters, processor, queue, thread, control>>

Block ==
  /\ controller = "blocking"
  /\ controller' = "waiting"
  /\ UNCHANGED <<graph, parameters, processor, queue, thread, control, missed>>

WakeUp ==
  /\ controller = "notified"
  /\ controller' = "lock"
  /\ UNCHANGED <<graph, parameters, processor, queue, thread, control, missed>>

\* A condition variable may wake a waiter that nobody notified.
SpuriousWakeUp ==
  /\ controller = "waiting"
  /\ controller' = "lock"
  /\ UNCHANGED <<graph, parameters, processor, queue, thread, control, missed>>

-----------------------------------------------------------------------------
(* The main loop and the graph *)

Created == {globals[i] : i \in 1 .. Len(globals)}

\* A node appears.  Its id is free: no living node bears it.
NodeAdded(n) ==
  /\ n \notin Created
  /\ \A m \in live : IdOf[m] # IdOf[n]
  /\ live' = live \union {n}
  /\ globals' = Append(globals, n)
  /\ UNCHANGED <<past, known, parameters, processor, queue, controller, thread, control,
                 missed>>

\* The registry has no global_remove handler: the proxy stays in the list.
NodeRemoved(n) ==
  /\ n \in live
  /\ live' = live \ {n}
  /\ UNCHANGED <<globals, past, known, parameters, processor, queue, controller, thread,
                 control, missed>>

ProcessRegistryEvent ==
  /\ known < Len(globals)
  /\ known' = known + 1
  /\ UNCHANGED <<live, globals, past, parameters, processor, queue, controller, thread,
                 control, missed>>

\* The session manager sends the id of a chain it has seen, which may be gone when
\* the parameter arrives.  It does not read the id of a chain known to be gone.
SetParam(n) ==
  /\ n \in Created \ past
  /\ RoleOf[n] # "other"
  /\ parameters' = [parameters EXCEPT ![RoleOf[n]] = IdOf[n]]
  /\ UNCHANGED <<graph, processor, queue, controller, thread, control, missed>>

\* The ids are sent together.  One that is still nil drops out of the list of names
\* and ids, its name pairs with the next name: that parameter then holds no id.
SetParamNil(c) ==
  /\ parameters' = [parameters EXCEPT ![c] = Unset]
  /\ UNCHANGED <<graph, processor, queue, controller, thread, control, missed>>

\* The process ends, at any point, and systemd starts it again: it has no proxies
\* and no ids, and the registry announces to it the nodes that exist now.
Restart ==
  /\ past' = Created \ live
  /\ known' = 0
  /\ parameters' = [c \in Chains |-> Unset]
  /\ left' = -1 /\ wakeup_consumer' = FALSE
  /\ queue' = << >>
  /\ controller' = "drain" /\ message' = << >> /\ target' = NoNode
  /\ missed' = FALSE
  /\ UNCHANGED <<live, globals, control>>

-----------------------------------------------------------------------------
Init ==
  /\ live = {}
  /\ globals = << >>
  /\ past = {}
  /\ known = 0
  /\ parameters = [c \in Chains |-> Unset]
  /\ left = -1
  /\ wakeup_consumer = FALSE
  /\ queue = << >>
  /\ controller = "drain"
  /\ message = << >>
  /\ target = NoNode
  /\ control = [n \in Nodes |-> [c \in Controls |-> Unset]]
  /\ missed = FALSE

Processor == BeginCycle \/ (\E p \in Paths, v \in Values : ProcessPacket(p, v)) \/ EndCycle

Controller ==
  \/ Pop \/ Lookup \/ NoProxy \/ SetProps
  \/ FoundEmpty \/ TestPredicate \/ Block \/ WakeUp

MainLoop ==
  \/ \E n \in Nodes : NodeAdded(n) \/ NodeRemoved(n) \/ SetParam(n)
  \/ \E c \in Chains : SetParamNil(c)
  \/ ProcessRegistryEvent

Next == Processor \/ Controller \/ SpuriousWakeUp \/ MainLoop \/ Restart

Spec == Init /\ [][Next]_vars

(***************************************************************************)
(* The controller thread keeps running, and so does a cycle that has       *)
(* begun.  A waiter need never wake up spuriously, and nothing forces      *)
(* traffic or a restart.                                                   *)
(***************************************************************************)
FairSpec == Spec /\ WF_vars(Controller) /\ WF_vars(EndCycle)

-----------------------------------------------------------------------------
TypeOK ==
  /\ live \subseteq Nodes
  /\ globals \in Seq(Nodes)
  /\ past \subseteq Nodes
  /\ known \in 0 .. Len(globals)
  /\ parameters \in [Chains -> Ids \union {Unset}]
  /\ left \in -1 .. Packets
  /\ wakeup_consumer \in BOOLEAN
  /\ queue \in Seq(Requests) /\ Len(queue) <= Capacity
  /\ controller \in ControllerStates
  /\ message = << >> \/ \E r \in Requests : message = <<r>>
  /\ (message = << >>) <=> (controller \notin {"lookup", "apply"})
  /\ target \in Nodes \union {NoNode}
  /\ (target # NoNode) <=> (controller = "apply")
  /\ control \in [Nodes -> [Controls -> Values \union {Unset}]]
  /\ missed \in BOOLEAN

(***************************************************************************)
(* A thread that sleeps, or has taken its last look at the queue, while    *)
(* the queue is not empty is about to be notified by the cycle that filled *)
(* it, unless a notification fell between its test of the predicate and    *)
(* its entry into the wait set: notify_all is called without wait_mutex,   *)
(* and that window is the only way a request can be left lying there.      *)
(***************************************************************************)
Notifies == left >= 0 /\ wakeup_consumer

StuckOnlyByMissedNotify ==
  (controller \in {"blocking", "waiting"} /\ queue # << >>) => (missed \/ Notifies)

(***************************************************************************)
(* A step changes only the control its own request names, on a node that   *)
(* is the filter chain that request's path is meant for, though a request  *)
(* carries nothing but an id, ids are reused, and the chains of group A    *)
(* and B have controls of the same names: a request that outlives its node *)
(* never reaches the node that inherits the id.                            *)
(***************************************************************************)
MeantFor(n, c) ==
  /\ message # << >>
  /\ NodeParameter(message[1].path) = RoleOf[n]
  /\ ParameterName(message[1].path) = c

OwnControlsStep ==
  \A n \in Nodes, c \in Controls : control'[n][c] # control[n][c] => MeantFor(n, c)

OnlyOwnControls == [][OwnControlsStep]_vars

(***************************************************************************)
(* Every behaviour is one of ParameterDelivery: accepted requests are      *)
(* handled in order, each at most once, on a node with the id they carry;  *)
(* what is lost is lost behind the oldest one, or all at once.             *)
(***************************************************************************)
AbstractRequest(r) ==
  [chain |-> NodeParameter(r.path), control |-> ParameterName(r.path),
   filter_chain_id |-> r.filter_chain_id, value |-> r.value]

AbstractRequests ==
  [chain : Chains, control : Controls, filter_chain_id : Ids, value : Values]

Abstracted(s) == [i \in 1 .. Len(s) |-> AbstractRequest(s[i])]

accepted == message \o queue

Delivery == INSTANCE ParameterDelivery WITH
  Requests <- AbstractRequests,
  pending <- Abstracted(accepted)

DeliverySpec == Delivery!Spec

(***************************************************************************)
(* As long as cycles with accepted packets keep coming, a missed           *)
(* notification only delays: whatever is in the queue leaves it.           *)
(***************************************************************************)
TrafficDrains ==
  []<>Notifies => [](queue # << >> => <>(queue = << >>))
=============================================================================
