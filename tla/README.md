# A verification project for pmx

pmx (Performance Mixer) is a mixer made of small applications around PipeWire
and WirePlumber. Controllers send MIDI or HID reports; routers translate them
into OSC messages; one application receives the OSC messages and writes the
controls of the filter chains that do the signal processing; Lua scripts inside
WirePlumber build those chains and connect everything; a daemon keeps the
assignment of ports to channels in a file. This directory holds TLA+ models of
that code, TLC configurations that check them on small instances, and TLAPS
proofs of the properties that matter most for instances of every size.

Paths below are relative to the repository.

## 1. Inventory

### The parts and how they interact

```
 controllers ─MIDI─> midi_router ─┐                    ┌─ Lua: filter_builder,
 Traktor Z1 ──HID──> traktor_z1_router ─OSC─> filter_chain_ctrl     set_up_filter_chain,
 network ──UDP──> osc_network_receiver ─┘   │ set_param ▼ filter chains  manage_connections …
 looper <─UDP── osc_network_sender <─OSC─ slp_ctrl      ▲ links           ▲
 gRPC clients ──> grpc_api ──> metadata "performance-mixer" ──> Lua hooks │
                                 ▲│                                       │
                    metadata_manager ── config.yaml      console ─────────┘
```

| part | state | operations | what is hard about it |
| --- | --- | --- | --- |
| **filter_chain_ctrl** (`src/applications/filter_chain_ctrl.cpp`, `include/filter_chain_control`, `src/pipewire_tools.cpp`) | four filter parameters (ids of the chains), a lock-free queue of 128, a condition variable, the thread's current request | real-time cycle: parse packets, look up the id, push, notify; thread: pop, look the proxy up, set the control, wait | notification without the mutex; `queue.pop(&message)` on a single local; requests carry an id that PipeWire may have given to another node since |
| **proxy watcher** (`src/proxy_watcher.cpp`) | vector of proxies with cached clients, parameters per proxy | registry event appends; `get_proxy` takes the first with the id | nothing is ever removed; searched without the lock |
| **midi_router** (`src/applications/midi_router.cpp`, `include/midi/router`) | the parameters activeLayer, baseChannelId, selectedChannelId; a queue of two | cycle: read the three parameters, process the three ports in order, push the new triple; thread: drain, write the three parameters one by one, publish | the triple read may be old; lost updates; order of the ports |
| **parameter tables and OSC paths** (`src/parameters.cpp`, `include/parameters`, `src/processing.cpp`, `src/parse_osc_path.cpp`, `src/interpolation.cpp`, `wireplumber/pmx_filter_builder.lua`) | tables | MIDI control → OSC path → control name → control of a filter graph | four tables that have to agree, numbers of one or two digits at fixed offsets |
| **traktor_z1_router** | previous report, queue of 128 | report → changes → OSC | paths the parser rejects, dropped reports |
| **metadata_manager** (`src/applications/metadata_manager.cpp`, `src/metadata_watcher.cpp`, `src/config.cpp`) | config.yaml, a copy of the configuration, a queue of changes | restore at start; callback queues a change; thread applies and writes | truncate, then write; changes before the signal is connected; stale copy |
| **grpc_api, wpcpp::Metadata** (`include/grpc`, `include/wpcpp/metadata.h`) | the metadata object, two mutexes | set, clear and read keys from a thread that is not the GLib loop's, executed on the loop | wait without predicate on a stack variable; two calls for one request |
| **osc_network_sender** | queue of 128, `running` | cycle: push, notify; thread: pop, send, wait; main: stop and join | lost notification at the end |
| **osc_network_receiver** | queue of 128, `is_running` | thread: blocking receive, push; cycle: drain; main: stop and join | join behind a blocking receive; reports dropped at the socket and at the queue |
| **lp_mini_init** | queue of three tasks, the words of the answer not yet seen, time of the last request | handshake, session mode, initial state | answers over several cycles, lost or from another device; retry after 5 s; a device that is plugged in again |
| **slp_ctrl** | states of eight loops, clock count, the known eighths per cycle | reports in, pads and mixer key, clock; hits and `/set` out, lights and mixer layout out | a report comes once; a command is repeated until a report confirms it; the layout is cut into messages by hand |
| **filter chain set-up** (`wireplumber/pmx_set_up_filter_chain.lua`) | cached nodes | node appears → send all ids known | cached nodes are never cleared, gaps in the list |
| **connections** (`wireplumber/pmx_manage_connections.lua`) | object manager's copies of ports and links | port appears, metadata changes → destroy and make links | links are destroyed and made asynchronously |
| **remembered ports** (`wireplumber/pmx_connect_*.lua`, `pmx_midi_routing_matrix.lua`) | lists of ports seen | port appears → link it to those remembered | ports that are gone stay in the lists |
| **console** (`src/applications/console.cpp`, `src/commands`) | one request, one response and two atomics; lists of proxies and links; the metadata | send, status, setup, meta and pmx, start, watch, list, describe | hand-over of the request to the signal processor; lists that only grow and are copied at different times |
| others | | params_watcher, ctrl_pipe, logging, D-Bus units, vendored CLI libraries; Lua scripts the profile does not load | |

### What makes each part correct

* filter_chain_ctrl: an accepted request is applied unaltered, in order, at
  most once, to a node with the id it carries; a control changes only for a request
  whose path is meant for it and for that chain, group A and group B told apart though
  their controls have the same names; the thread does not sleep on work except through
  the one race there is, and then only until the next packet.
* midi_router: between cycles, with nothing under way, the parameters are what
  the keys asked for; which keys do not count is stated exactly. The layer
  selector acts on the controls of its own cycle. The last key takes effect.
* tables and paths: what the parser lets through exists; a control reaches the
  strip it was moved for; only unmapped controls are dropped, and of the Z1 what moves
  together with another control.
* metadata_manager: the file, the session and what clients set agree whenever
  the manager is idle, over crashes and new sessions, with the losses that the
  code permits stated exactly; it does become idle.
* connections: once everything is done a channel is linked to what its metadata
  name, in whatever order ports and metadata came; a link beside it is left only
  by the one race there is.
* remembered ports: two ports that belong together are linked whichever came first;
  what a port that went prevents, and which port is forgotten, is stated exactly.
* osc_network_sender: what is accepted leaves it once, in order, and is sent, or
  dropped for an unknown protocol, or lost with the process; it sleeps on
  work, or does not stop, only through a missed notification.
* osc_network_receiver, slp_ctrl: a pad shows the state of its loop unless the
  newest report of the loop was lost at one of the places named, or lp_mini_init has
  written to the first pad since; the looper gets
  its eighth_per_cycle back; each fader sends what the code compares. The receiver
  ends with the next datagram.
* lp_mini_init: only the expected device is switched over, it is switched over
  whatever becomes of its answers, and stays so unless it is unplugged.
* wpcpp::Metadata: no caller sleeps for ever or returns early, no idle source uses
  the variables of a call that has returned, but for spurious wake-ups.
* console: an answer is the one to its message and no message is sent twice; what
  status prints and setup sends is wrong only about what had not been announced in the
  list that was read, about names and ids that another node bore, and about links that
  were removed.

## 2. Modules

| module | models | proofs |
| --- | --- | --- |
| `ParameterDelivery` | what filter_chain_ctrl promises: a sequence of accepted requests, handled from its head | |
| `FilterChainCtrl` | the application and the part of PipeWire it sees; implements `ParameterDelivery` | `FilterChainCtrl_proofs` |
| `MidiRouter` | the two threads of midi_router and the parameters | `MidiRouter_proofs` |
| `ControlPath` | a control from the key to the filter graph | `MidiRouter_proofs` |
| `MetadataManager` | metadata_manager, the session's metadata, the file | `MetadataManager_proofs` |
| `Connections` | pmx_manage_connections.lua, the server's links and WirePlumber's copies | `Connections_proofs` |
| `RememberedPorts` | the scripts that remember ports | `RememberedPorts_proofs` |
| `NetworkSender` | osc_network_sender | `NetworkSender_proofs` |
| `NetworkReceiver` | osc_network_receiver: socket, thread, queue, end | |
| `LpMiniInit` | lp_mini_init and the Launchpad it asks | |
| `SlpCtrl` | the functions of slp_ctrl's signal processor | |
| `LoopControl` | the three together with the looper and the Launchpad | `LoopControl_proofs` |
| `MetadataCalls` | wpcpp::Metadata: calling threads and the GLib main loop | |
| `Console` | console.cpp, send, status and setup, with `MetadataCalls` | `Console_proofs` |

`MC*` modules give the constants for TLC. Operators marked "Mutant" are plausible
errors; each is put in the place of the definition that follows it to see that
the property it is meant for notices.

### FilterChainCtrl

* `left`, `wakeup_consumer`: a cycle of the signal processor; `ProcessPacket` is
  `get_filter_chain_id_and_add_to_queue`. Invalid paths and packets have no
  effect on the state and are left out.
* `queue`, `message`, `target`, `controller`: the controller thread, one step per
  access to shared state. `TestPredicate`, `Block`, `WakeUp` and `SpuriousWakeUp`
  are `condition_variable::wait` with a predicate; the mutex is not modelled
  because nobody else ever takes it, which is the point.
* `globals`, `known`, `past`, `live`: nodes in the order in which the registry
  announces them, how far the watcher has come, which were gone before the
  process started, which exist. A node is an incarnation: a re-created node is
  another one, with an id that may have been used before. The vector of proxies
  is `globals[1 .. known]` without `past`.
* `queue.pop(&message)` resolves to `pop(OutputIterator)` of boost's
  `spsc_queue`, which writes every element of the queue from `&message` on. With
  more than one that is undefined behaviour. Modelled are the outcomes that
  leave a program: the surplus is overwritten and lost (`Pop`), or the process
  dies (`Restart`, which is enabled in every state, because the unit restarts it
  after any failure).
* `SetParam`, `SetParamNil`: `set_params` of `pmx_set_up_filter_chain.lua`. The
  script sends the four ids together; the model sends them one by one, which
  includes the joint update. An id that is nil leaves no place in the Lua table,
  so that a name is paired with the next name; that parameter then holds a
  string and `get_from_collection` finds no id. A node that WirePlumber knows to
  be gone has no properties to read the id from; one that goes while the
  parameter is on its way is covered.

### MidiRouter

* A cycle reads the three parameters in three steps (`BeginCycle`, `ReadBase`,
  `ReadSelected`), processes any number of messages on the ports in the order
  group, mix, input (`NextPort`, the array `Ports`), and pushes the triple if it changed.
  A cycle without an out buffer returns before it reads a port: its keys are lost
  (`midi_router.cpp:61`), and as nothing comes of them it is no step of the model.
* `wanted`, `stale`, `sent`, `chosen` and `missed` are history: they are never read by an
  action of the code.
* Keys of the mix port outside 1 to 8, and what a message contains, are in
  `ControlPath`.

### ControlPath

* One control at a time: `Send` or `SendZ1`, `Parse`, `Name`, `Finish`. With a control of
  the Z1 come the reports of its cycle, as sets of places in the array of changes: the
  router opens one control for all changes of a report (`traktor_z1_router.cpp:165`), so
  that none but the first is seen, and what follows it in the sequence, later reports
  included, is read as no control either (`Eclipsed`).
* The short strings for which the parser's arithmetic leaves the string
  (`parse_osc_path.cpp:29`, `:34`) are undefined behaviour; no router sends one.
  The sixteen packets of a cycle and the losses of the queue are in `FilterChainCtrl`.
  Numbers are sequences of decimal digits in a path, because the parser looks at
  fixed offsets. The names of units in the filter graphs are those the Lua
  script builds.
* `interpolate` keeps the value as a fraction in two 16 bit halves: TLC has no
  32 bit unsigned numbers.

### MetadataManager

* `metadata` is the session's object, `onTheWay` what it has announced and not
  delivered, `updates` the watcher's queue, `batch`, `config`, `changed` the
  writer's locals. `OpenFile` truncates, `WriteFile` writes. `Crash` is possible
  everywhere, `Reboot` gives a new session with empty metadata.
* `wish` and `lost` are history: the last value asked for, and the keys for which
  it came in vain by the rules stated at `Client` and `Crash`.
* Clients change ports and groups and clear ports; no code of the repository
  clears a group.

### Connections

* `PortAdded` is one run of the hooks on port-added, `MetadataChanged` of those on
  metadata-changed; the operators `connect_*` are the hooks' bodies. Conditions on
  direction and alias are kept, so that a hook that can never match
  (`connect_looper_to_group`) is one that yields no link.
* `Relinks` is what a change of a key asks for: for each port the key governs
  (`Governed`) first the destruction of its links in the copy, then the new link; group
  a's output before group b's. The hooks look for the links at one end of the port only;
  `Relink` takes both ends, which is the same, because no link ends at an output or
  begins at an input (`TypeOK`).
* `ports`, `links` are the server's, `requests` what the script sent and the server
  has not done, in order. `knownPorts`, `knownLinks` are the object manager's; they
  follow in any order, except that the end of a port is learned before another
  port of that name. Ids are never reused: the server refuses to destroy an object
  that is younger than what the client has seen.
* `asked` and `overtaken` are history. A link that exists is not made again, a port
  that is gone cannot be linked, and takes its links along.
* Links a user makes by hand are not modelled; the hooks would destroy them.

### RememberedPorts

* One module for four scripts, because they do the same: a family of connections has
  remembered outputs `outs[f]` and inputs `ins[f]`. `Lists` are the two lists of a
  pair of hooks in `pmx_connect_osc_ports.lua`, `Matrix` the source and the targets
  of `pmx_midi_routing_matrix.lua`, `Singles` the globals of the other two scripts
  (`pmx_connect_group_to_layer.lua` remembers nodes, and its two links of a pair are
  one). A port can belong to several families.
* Reading the id of a port that is gone either gives none or raises an error, which
  depends on the version of WirePlumber: `raises`.
* Links are made at once: nothing here destroys any.
* `appeared` are the ports whose event is not yet handled; events are handled in the
  order of the ports' ids, and the event of a port that goes is cancelled. What is said
  of links and of forgotten ports holds while events are waiting, too.

### NetworkSender

* `Process` and `Notify` are one message of the signal processor, `Test`, `Pop`,
  `Send`, `Drop`, `FoundEmpty`, `Wait` the loop of the thread, `Quit`, `NotifyStop`,
  `Join` the end of `main`.
* `Drop` is the branch "Unknown protocol": `SetProtocol` may change the parameter while
  the thread runs. `Fail` is an exception of `send_to`, which ends the process; the unit
  starts it again with its default protocol, and the model continues with that one.
* `left` and `fate` are history: each message that has left the queue for good, and whether
  it was sent, dropped or lost.

### NetworkReceiver, LpMiniInit, SlpCtrl, LoopControl

* `LoopControl` extends the three components and composes them: a report
  `<<key, value>>` goes from `looper` to `socket`, to `queue`, to `states` in a
  `GraphCycle` and to `lights`. PipeWire runs the receiver's signal processor before
  the one of slp_ctrl, which follows it in the graph; both are one step. Which
  buffers a cycle has is chosen freely.
* `HandShake`, `EnableSessionMode`, `SetupInitialSessionState` are the branches of
  lp_mini_init's signal processor, whole: reading the packets, the request, the pop.
  `sent` is `last_send_time`: "never", "recently" or "long ago" (`Elapse`). A cycle
  reads the first `n` packets of the device; with no buffer they are lost.
* `Seen` compares both words of a packet, one after the other, each with the word
  that is expected then, as the code does.
* slp_ctrl keeps nothing of a pad beyond its cycle: hits without an output buffer
  are lost. The mixer's key is in the same cycle as the pads.
* `create_8_byte_message` fills up with zeros and gives the number of bytes;
  `FaderSetup` is the list of the seven messages as the source has it. What the
  device makes of them is `Joined`, `FaderControl`, `FaderWord`.
* `missed`, `shown` and `replugged` are history. The looper and the device are
  external: the first reports each change once (`pmx-register-sooper-looper-updates.fish`),
  the second forgets its mode and its lights when it is unplugged.
* The rest of an answer that comes after its last expected word is left out: no
  branch reads it.

### MetadataCalls, Console

* The three calls of `wpcpp::Metadata` have one shape: `Enter`, `Lock`
  (`_no_parallel_calls_mutex`), `AddSource` (`_wait_for_completion_mutex` is taken, the
  idle source added), `Wait`, `Return`. `RunSource` takes the same mutex, so that it
  cannot run before its caller waits. After a spurious wake-up the caller may return
  with its source still queued; the source is then `NoCaller`'s.
  `set_metadata_value_async` waits for nothing and is an action of `MetadataManager`.
* `Console` extends it: the terminal's thread is one caller, a thread of the gRPC API
  (an application of its own, with a `Metadata` of its own in the program) stands for
  any second caller.
* The hand-over of send is one step per write of the signal processor (`Cycle`,
  `ClearRequest`, `SetMessage`, `Respond`, `NoBuffer`); a request is its number.
* A node, its port `pmx-osc` and its links are announced one by one, in any order, to the
  ProxyCollection (`proxies`, `proxy_added_callback`), to the watcher (`watched`,
  `process_registry_event`) and to the LinkCollection (`links`, `link_added_callback`),
  possibly when they have gone. `snapshot` is the length at which a command copied the
  list of proxies; links and the watcher are read when the command ends.
* `check_osc_connections` and `setup_command` change none of this, so that what they say
  or send is written as a function of the state: `WrongNodes` ("couldn't find producer"),
  `WrongPorts` ("couldn't find output port"), `WrongLinks` ("couldn't find link", or no
  line where there should be one), `WrongSetUp` ("couldn't find filter chain ctrl", "pw
  proxy", or a wrong target or id).
* `nodes`, `made` are all nodes and links that ever were, `living`, `linked` those that
  are, `unlinked` is history. Ids of nodes are used again, those of ports are not.
* The metadata object is the one the call has taken at its start (`captured`). The branch
  of `set_metadata_value` for the thread that owns the main loop calls at once and is left
  out: no caller here is that thread.

## 3. Runs

| run | instance | why it is enough |
| --- | --- | --- |
| filter_chain_ctrl | three nodes with one id, chains of group A and of group B, a path of each with the same control, queue of 2, cycles of 2 packets, restarts | the id goes back and forth between the groups; the queue is full, refuses and loses; the proofs cover the rest |
| midi_router | both layers, both banks, one key, queue of 2 (the real size) | two cycles can push while the thread applies a third triple |
| metadata_manager | one channel: a port (2 values) and a group (2 values), two changes under way | a write for one key while the other changed; crash at every step |
| control_path | every CC 0 to 127 on every port, both banks, all strips; every control of the Z1, in every cycle of one or two reports of at most two changes | exhaustive for what the hardware sends with the bank the router sets; of more changes in a report only the first matters, too |
| interpolation | one control with the values 0, 127 and the largest | a single value refutes the expectation |
| connections | one channel (its input and an output in each layer), two devices, two looper inputs, five changes | set, unset or set again while a link is under way; every port comes, goes and comes again |
| remembered_ports | ten ports of all kinds, six changes | a port goes and comes again between the others of its family |
| group_loopers, loopers_feed_groups | two ports | the order the comments speak of |
| network_sender | queue of 2, four messages, both protocols | the queue overflows; every point of the loop meets the end, a failure and a change of the protocol |
| loop_control | one loop with two states, eighth_per_cycle with two values, three changes; a queue of 2, a socket of 1, one packet parsed per cycle; three words, five packets on their way | reports are lost at the socket, the queue, the limit of a cycle and for want of a buffer, and two reports of one key overtake nothing; an answer and most of a second are on their way together; loops do not touch each other |
| console | two callers, one producer, a consumer that is the controller, one chain; two ids, two nodes, four objects that come and go, four messages and calls, at most two of both together | each announcement is early, late or missing in each list; an id and a name are borne by two nodes in turn; a link goes; two calls, one of them woken early, and two messages; for more nodes there is the proof |

Bounds that are not in the code: `MaxEvents` (metadata_manager: clients wait
while two changes are under way), `MaxMessages` (network_sender: four messages
arrive), `MaxChanges` (connections, remembered_ports, loop_control), `MaxAnswers`
(loop_control: the device answers when there is room for the whole answer),
`MaxNodes`, `MaxObjects`, `MaxCalls`, `MaxBoth` (console: nodes that ever were, objects
that come and go, messages sent and calls begun, the product of the last two), `Prepared`
(loop_control: loops are played after the device was prepared once),
`ReceiverQuits` (loop_control: the receiver is told to end after the last change
and with no command on its way), the capacities and the number of packets of a cycle (parameters of the
code, smaller here). Nothing else is bounded. No state constraint is used.

`interpolation` is expected to fail: `test/unit/test_interpolation.cpp` expects
`interpolate(parameter, 127)` to be the maximum 5.6, `src/interpolation.cpp`
divides by the maximum of `std::uint32_t`. The test was written for 7 bit values.

`group_loopers` and `loopers_feed_groups` are expected to fail: two comments of
`pmx_manage_connections.lua` promise links between channels, loopers and groups.
The alias computed for a channel's output names the looper before the group's
for odd channels (for group 1 there is none in layer A, and in layer B it is layer
A's last) and an input 0 for even ones; the hooks for the inputs of the groups ask
for direction `out`.

### Fairness

Threads of a process that has not ended keep running: weak fairness of the
controller thread, of the thread that updates parameters, of the writer and of
the sender. A cycle of PipeWire's data thread that has begun ends. The session
and the main loop deliver what they hold. No fairness is assumed of packets,
keys, clients, restarts, spurious wake-ups (which may never happen) or crashes.
`TrafficDrains` therefore assumes that cycles with accepted packets keep coming,
`CatchesUp` that the manager stays up and the metadata is left alone, and
`ArrivesUnlessMissed` that the keys are left alone.

In loop_control the receiver's threads go on (weak fairness: the join returns, a
datagram in the socket is read), the graph runs cycles with all buffers again and
again, five seconds pass, and the device answers. Strong fairness says of what may be
taken away again that it happens at some time: a command reaches the looper
although others are lost (`TakeSet`), and the packets of a whole answer are read in
one cycle although in others they are lost (`ReadAnswer`). Nothing is assumed of
datagrams, pads, plugs, crashes or the end.

## 4. Proofs

All theorems hold for every value of the constants that satisfies the named
assumptions of the module (`NodesAssumption`, `SizesAssumption`,
`RouterAssumption`, `ControlPathAssumption`, `ControlValuesAssumption`,
`NothingAssumption`, `ReceiverAssumption`, `WordsAssumption`, `PacketsAssumption`,
`LoopControlAssumption`, `CallersAssumption`, `ConsoleAssumption`, `KeysAssumption`,
`FileAssumption`, `PortsAssumption`, `ConnectionsAssumption`, `NamesAssumption`), which
TLC evaluates on the instances. `MidiRouter_proofs` holds the theorems about both
`MidiRouter` and `ControlPath`.

* `FilterChainCtrl_proofs!TypeCorrect`, `MidiRouter_proofs!TypeCorrect`,
  `NetworkSender_proofs!TypeCorrect`: the types are inductive as they stand;
  `FilterChainCtrl_proofs!StuckOnlyByRace` is inductive with them.
* `FilterChainCtrl_proofs!RightNode`: `OnlyOwnControls` is not inductive. `OwnInv`
  adds that a later node has an id only if the earlier ones that bore it are dead
  (`GraphInv`); that every id in a parameter, in the queue and in the thread's
  request was given for a node of the right role announced to this process, and
  whoever bore it before is dead (`NamesInv`, `Named`); and that the node about to
  be written to is dead or of that role (`TargetInv`). Then the first proxy with
  the id, which `get_proxy` returns, is that node or a dead one (`FirstIsMeant`). The role
  is that of the layer the path names (`MeantFor`), not of a control's name.
* `FilterChainCtrl_proofs!ImplementsDelivery`: step simulation. The abstract
  queue is the request in the thread's hands followed by the queue, abstracted
  element by element; `TargetId` says that the target bears the request's id.
* `MidiRouter_proofs!KeysArrive`: the invariant follows the triple: `Effective`
  is the parameters with what is under way applied, `Partial` relates the three
  parameters to the triple while it is written, `Undisturbed` says that a cycle
  that began with nothing under way meets nothing until it ends.
* `MidiRouter_proofs!SleepsWhenDone`: `SleepInv` says that from the test of the predicate
  on a triple in the queue was announced in vain; together with the invariant of
  `KeysArrive` a thread that sleeps without having missed anything has written all that
  was asked for. `SelectorFirst`: the ports come in the order in which they were added, the one
  of the selector first, so that until that port is done nothing was sent and
  afterwards the triple keeps the selected layer until the cycle ends (`Selected`).
* `NetworkSender_proofs!SleepsOnlyByRace`: `SleepInv` extends the property to the
  stretch between the look at the queue and the wait, where the race is.
* `NetworkSender_proofs!HangsOnlyByRace`: `StopInv` says that after the end the signal
  processor is silent, so that the thread is either on its way to a test of the cleared
  flag or past the one it will sleep after.
* `NetworkSender_proofs!Delivered`: `InOrder` follows what was accepted through queue,
  hand and exit, with one fate for each message; `EndInv` says that after the end the thread
  holds nothing and nothing is queued.
* `MidiRouter_proofs!StripsApart`: every strip, bank and digit, by arithmetic
  (`DigitsRoundTrip`, `MappedStrip`). `ControlsExist`: a path on the way is one that a
  router sends (`Sent`), and each kind that the parser lets through is a unit of a graph
  (`StripExists`, `GroupExists`, `SideExists`). `MappedArrive` is the converse: a path
  that a table gives is of one of the parser's forms, its number has one or two digits
  and its short name is one that the parser knows (`RoutedParses`), and what is parsed
  has a control's name (`Named`).
* `Connections_proofs!ConnectionsTyped`, `NothingIsMissing`, `StraysAreOvertaken`: an id
  is given once, to a port or to a link (`PortsInv`, `LinksInv`); requests and links lead
  from an output to an input (`EndsInv`); a port that WirePlumber has not announced has no
  link and none under way (`NewPortsInv`); the last event of a key has its value
  (`KeysInv`). A link that was asked for last is there and nothing under way destroys
  it (`There`), or its request is in the sequence and no request to destroy the same link
  comes after it (`Coming`), or one of its ports is gone (`Gone`): `KeptInv`. For
  an input and a port that its key names the link was asked for, unless an event that
  will ask for it is pending (`AskedInv`). Every link that will remain is one that the
  metadata give, or its key has a pending event, or the port is overtaken
  (`Right`, `StrayInv`): that is inductive because a hook destroys what the copy
  shows and what it does not show makes the port overtaken.
* `LoopControl_proofs!SessionSafe`: `SessionInv` adds that a device that is away was asked
  nothing and answers nothing; that the task is `HandShake` exactly while words are
  expected; and that a device that is away after that task, or in its standalone mode at
  the last one, counts as replugged. What `Seen` computes of a packet does not matter,
  except that with no packet nothing is seen (`NothingRead`).
* `LoopControl_proofs!DeviceSafe`: `OtherInv` says that the packets of another device carry
  words of an answer that ends differently, and that the last expected word stays
  expected. What a cycle makes of its packets is a recursive function; it is followed from
  packet to packet with `SetInduction`, an induction that takes the set of the numbers for
  which a claim holds instead of an operator.
* `LoopControl_proofs!ReportsReachSlpCtrl`: the newest report of a loop or of
  eighth_per_cycle that was not lost is in the socket, in the queue, or heard by slp_ctrl
  (`Underway`, `ReportsInv`); a queue hands on what it took in order, a cycle hears the
  newest of what it reads (`HeardAtLast`, by `SetInduction`). `LightsSafe` adds that the
  lights are those of the states heard since they were sent (`ShownInv`); the message with
  which lp_mini_init sets up its initial state is for note 81, the pad of loop 0, and
  ends that.
* `LoopControl_proofs!LoopControlTyped`: the words expected are always the last ones of
  the device's answer (`Remaining`), which a cycle that sees some of them keeps, again by
  `SetInduction`; a device in the mixer's layout was given the layout of the faders.
  `FadersAreKnown` follows that layout through the joining of its seven messages
  byte by byte (`Flattens`, `FaderControls`).
* `MetadataManager_proofs!TypeCorrect`: the types with the queues of events, which clear no
  group. `WishesKept`: `Promises` follows the value of a key that is not lost through the
  file, the configuration and the requests of a start. `FileFollows`: of all events that
  are pending, in the thread's batch, in the queue or on the way, the last one of a key
  has the metadata's value (`InOrder`), a key without one has been reached, and the file
  has the configuration except while the thread applies or writes (`Stored`).
* `RememberedPorts_proofs!TypeCorrect`: ids are unique and only grow, and what is
  remembered is older than what is not yet handled (`Ages`); so a port that went is never
  taken for another. `LinkedSafe`: the property is inductive with that; a new port is
  linked to what its loop reaches, and what it does not reach stands behind a port that
  went (`ReachedOrObstructed`). `ForgottenSafe`: `Newest` says that the global of the
  hooks names the newest input of the lists, which is what their error depends on.
* `Console_proofs!CallsSafe`: `CallsInv` adds that only the holder of the parallel mutex
  is between `Lock` and `Return`, that it has at most one source, and that without a
  spurious wake-up it has one exactly from `AddSource` until that runs.
* `Console_proofs!SendSafe`: `SendInv` follows the number of the request through the two
  atomics: which of terminal and signal processor is to move, what was emitted,
  and what the response stands for.
* `Console_proofs!CommandsSafe`: `ListInv` says that the lists have only what once was, each
  once, that a living node bears its name, and that a link that is no more was removed or
  lost an end. Of a name that no other node bears, with an id that none bears, the lists
  therefore have at most the entries of its node (`OnlyItsOwn`), and have them if they were
  announced (`Found`); each line of status (`StatusRight`) and each parameter of setup
  (`SetUpRight`) follows.

Every invariant and every action property of the passing runs is proved. Only
model-checked are the seven properties under fairness (`TrafficDrains`,
`ArrivesUnlessMissed`, `CatchesUp`, `StopsUnlessMissed`, `EighthRestored`,
`EndsWithNextDatagram`, `PreparedAtLast`): they rest on `ENABLED`, for which the prover
has no rules. Their safety halves are theorems, where they have one worth stating: a
process comes to rest in a state it should not rest in only by the race or the
loss that the property excepts (`StuckOnlyByRace`, `SleepsWhenDone`, `FileFollows`,
`HangsOnlyByRace`, `ReportsReachSlpCtrl`, `SessionSafe`). That it does not go round
for ever is what TLC adds. The three runs that refute a comment or a test refute it on
their instance.

## 5. What is not modelled

* Data races on a vector (`get_proxy` against `push_back`) and on a string
  (`activeLayer`): the models take each access as one step.
* Reads and arithmetic beyond the data: `lp_mini_init.cpp:166` gives a length of 16 with 8
  bytes; `parse_osc_path.cpp:29`, `:34` step over the end of short paths;
  `osc_network_receiver.cpp:82` adds the number of the port to a text for the log;
  `osc_network_sender.cpp:74` copies messages of any length into 4096 bytes; an out buffer may be too small for all messages of a cycle.
* PipeWire, WirePlumber, boost and pwcpp are modelled from how the code uses
  them. Metadata that already exists is announced to a listener that binds; that
  only repeats values and is left out.
* The console's `start` (units are started one after the other over D-Bus), the states of
  units, `watch`, `list` and `describe`, which print; its end, where two threads that
  still run are destroyed.
* slp_ctrl's eight lights that follow the MIDI clock: a counter that one message resets
  and another advances.
* The way of the reports of the Traktor Z1: a thread blocks in `read` and pushes each report to a
  queue of 128; the signal processor compares it with the last one it popped.
* `pmx_set_up_filter_chain.lua` beyond the ids it sends, and the wiring of the filter
  graphs.
* The code that is not in the table of modules, for the reasons in
  `PROJECT.json` (`components`).

## 6. Plan

1. **TraktorZ1**: reports, their queue and the comparison, in front of `ControlPath`.
2. **FilterChainSetup**: `pmx_set_up_filter_chain.lua` and the filter manager with
   `FilterChainCtrl`: the joint update, restarts of WirePlumber, re-created chains.
3. Abstract specifications for further components, as `ParameterDelivery` is one for
   filter_chain_ctrl: a register per key that `MetadataManager` implements between losses.
