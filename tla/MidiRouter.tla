------------------------------ MODULE MidiRouter ------------------------------
(***************************************************************************)
(* The application pmx-midi-router.                                        *)
(*                                                                         *)
(* The signal processor maps the MIDI messages of a cycle to OSC messages, *)
(* with the layer, the bank and the selected channel it reads from the     *)
(* filter's parameters when the cycle starts.  Messages that change one of *)
(* the three take effect at once for the rest of the cycle; for later      *)
(* cycles they make a detour: the whole triple is pushed to a queue of     *)
(* two, a second thread pops it and updates the three parameters one by    *)
(* one.  A cycle that starts before that is done reads the old ones.       *)
(*                                                                         *)
(* The thread pops with "queue.pop(&message)".  Given a pointer            *)
(* spsc_queue::pop takes it for an output iterator and writes EVERYTHING   *)
(* that is queued from there on, though `message` is a single local: with  *)
(* two triples in the queue that is undefined behaviour.  Of its outcomes  *)
(* two are modelled: the second triple is lost (Pop), or the process dies  *)
(* and systemd restarts it (Restart).                                      *)
(***************************************************************************)
EXTENDS Integers, Sequences

CONSTANTS Keys,       \* the keys of the select row in use: 1 .. 8 in the code
          Capacity,   \* of the queue: 2
          None        \* no message

LayerNames == {"A", "B"}

State == [activeLayer : LayerNames, baseChannelId : {0, 8}, selectedChannelId : 1 .. 16]

ASSUME RouterAssumption ==
  /\ Keys \subseteq 1 .. 8
  /\ Capacity \in Nat \ {0}
  /\ None \notin State \union LayerNames

InitialState == [activeLayer |-> "A", baseChannelId |-> 0, selectedChannelId |-> 1]

\* Mutant: the ports in the order in which they were added.
PortsAsAdded == <<"input", "group", "mix">>

\* The order in which a cycle takes the ports up.
Ports == <<"group", "mix", "input">>

VARIABLES
  parameters,       \* the parameters of the filter
  published,        \* the rest of the graph was told the current parameters
  \* the signal processor
  cycle,            \* "idle", the next parameter to read, or the port it is at
  read,             \* the triple read when the cycle started
  local,            \* the triple as changed in this cycle
  \* shared
  queue,
  \* the thread that updates the parameters
  updater,
  latest,           \* the last triple it popped, None once it is applied
  \* history
  sent,             \* the layers named by what was sent to strips in this cycle
  chosen,           \* the last layer selected in this cycle, or None
  stale,            \* this cycle read the parameters while a change was under way
  wanted,           \* the triple the keys ask for, see SettledIsWanted
  missed            \* a notification found nobody in the wait set

keys == <<cycle, read, local, sent, chosen, stale>>
processor == <<keys, wanted>>
thread == <<updater, latest, missed>>
vars == <<parameters, published, cycle, read, local, sent, queue, updater, latest,
          wanted, chosen, stale, missed>>

\* A change was pushed and is not in the parameters yet.
UnderWay == queue # << >> \/ latest # None

-----------------------------------------------------------------------------
(* The signal processor *)

\* A cycle without an out buffer returns before it reads anything: its keys are
\* lost before anybody has seen them, and nothing changes.
BeginCycle ==
  /\ cycle = "idle"
  /\ read' = [read EXCEPT !.activeLayer = parameters.activeLayer]
  /\ stale' = UnderWay
  /\ cycle' = "readBase"
  /\ UNCHANGED <<parameters, published, local, sent, queue, thread, chosen, wanted>>

ReadBase ==
  /\ cycle = "readBase"
  /\ read' = [read EXCEPT !.baseChannelId = parameters.baseChannelId]
  /\ cycle' = "readSelected"
  /\ UNCHANGED <<parameters, published, local, sent, queue, thread, wanted, chosen, stale>>

ReadSelected ==
  /\ cycle = "readSelected"
  /\ read' = [read EXCEPT !.selectedChannelId = parameters.selectedChannelId]
  /\ local' = read'
  /\ cycle' = Ports[1]
  /\ UNCHANGED <<parameters, published, sent, queue, thread, wanted, chosen, stale>>

\* A message is sent for the layer as it stands in this cycle.
CurrentLayer == local.activeLayer

\* A message of the port that changes the triple by f.
Press(f(_)) ==
  /\ local' = f(local)
  /\ wanted' = IF stale THEN wanted ELSE f(wanted)
  /\ UNCHANGED <<parameters, published, cycle, read, sent, queue, thread, stale>>

\* An OSC message "/I/<layer>/...", for a strip of that layer.
Control ==
  /\ sent' = sent \union {CurrentLayer}
  /\ UNCHANGED <<parameters, published, cycle, read, local, queue, thread, wanted, chosen, stale>>

\* process_group_channels_port: CC 64 selects the layer.  The controls of the groups
\* that the port sends besides change nothing here (see ControlPath).
SelectLayer(l) ==
  /\ cycle = "group"
  /\ chosen' = l
  /\ Press(LAMBDA s : [s EXCEPT !.activeLayer = l])

\* process_input_channels_mix_port: an unmapped CC is sent too.
SelectBank(b) ==
  /\ cycle = "mix"
  /\ Press(LAMBDA s : [s EXCEPT !.baseChannelId = b])
  /\ UNCHANGED chosen

SelectChannel(k) ==
  /\ cycle = "mix"
  /\ Press(LAMBDA s : [s EXCEPT !.selectedChannelId = s.baseChannelId + k])
  /\ UNCHANGED chosen

MixControl == cycle = "mix" /\ Control

\* process_input_channels_port: every CC goes to the selected channel.
InputControl == cycle = "input" /\ Control

NextPort ==
  /\ \E i \in 1 .. 2 : cycle = Ports[i] /\ cycle' = Ports[i + 1]
  /\ UNCHANGED <<parameters, published, read, local, sent, queue, thread, wanted, chosen, stale>>

\* Mutant: the wake-up is forgotten.
notify_nobody == UNCHANGED <<updater, missed>>

notify_all ==
  /\ updater' = IF updater = "waiting" THEN "notified" ELSE updater
  /\ missed' = (updater = "blocking")

\* Mutant: a queue that grows.
PushUnbounded == queue' = Append(queue, local)

\* spsc_queue::push: a full queue refuses the triple, nobody looks at the result.
Push == queue' = IF Len(queue) < Capacity THEN Append(queue, local) ELSE queue

Changed == local # read

EndCycle ==
  /\ cycle = Ports[3]
  /\ IF Changed
       THEN /\ Push
            /\ notify_all
            /\ wanted' = IF stale /\ queue' # queue THEN local ELSE wanted
       ELSE UNCHANGED <<queue, updater, missed, wanted>>
  /\ cycle' = "idle"
  /\ sent' = {} /\ chosen' = None /\ stale' = FALSE
  /\ read' = InitialState /\ local' = InitialState
  /\ UNCHANGED <<parameters, published, latest>>

-----------------------------------------------------------------------------
(* The thread that updates the parameters *)

\* Mutant: the first of several triples is kept.
KeepFirst == latest' = IF latest = None THEN Head(queue) ELSE latest

\* Of several triples popped one after the other only the last one counts.
KeepLast == latest' = Head(queue)

\* pop(&message): the oldest triple arrives, the one queued behind it is lost.
Pop ==
  /\ updater = "drain"
  /\ queue # << >>
  /\ KeepLast
  /\ queue' = << >>
  /\ wanted' = IF Len(queue) > 1 THEN Head(queue) ELSE wanted
  /\ UNCHANGED <<parameters, published, keys, updater, missed>>

Drained ==
  /\ updater = "drain"
  /\ queue = << >>
  /\ updater' = IF latest = None THEN "lock" ELSE "setLayer"
  /\ UNCHANGED <<parameters, published, processor, queue, latest, missed>>

SetLayer ==
  /\ updater = "setLayer"
  /\ parameters' = [parameters EXCEPT !.activeLayer = latest.activeLayer]
  /\ published' = FALSE
  /\ updater' = "setBase"
  /\ UNCHANGED <<processor, queue, latest, missed>>

SetBase ==
  /\ updater = "setBase"
  /\ parameters' = [parameters EXCEPT !.baseChannelId = latest.baseChannelId]
  /\ published' = FALSE
  /\ updater' = "setSelected"
  /\ UNCHANGED <<processor, queue, latest, missed>>

SetSelected ==
  /\ updater = "setSelected"
  /\ parameters' = [parameters EXCEPT !.selectedChannelId = latest.selectedChannelId]
  /\ published' = FALSE
  /\ latest' = None
  /\ updater' = "publish"
  /\ UNCHANGED <<processor, queue, missed>>

\* pw_filter_update_params on the main loop.
Publish ==
  /\ updater = "publish"
  /\ published' = TRUE
  /\ updater' = "lock"
  /\ UNCHANGED <<parameters, processor, queue, latest, missed>>

TestPredicate ==
  /\ updater = "lock"
  /\ updater' = IF queue # << >> THEN "drain" ELSE "blocking"
  /\ missed' = FALSE
  /\ UNCHANGED <<parameters, published, processor, queue, latest>>

Block ==
  /\ updater = "blocking"
  /\ updater' = "waiting"
  /\ UNCHANGED <<parameters, published, processor, queue, latest, missed>>

WakeUp ==
  /\ updater = "notified"
  /\ updater' = "lock"
  /\ UNCHANGED <<parameters, published, processor, queue, latest, missed>>

SpuriousWakeUp ==
  /\ updater = "waiting"
  /\ updater' = "lock"
  /\ UNCHANGED <<parameters, published, processor, queue, latest, missed>>

-----------------------------------------------------------------------------
\* The process ends, at any point, and systemd starts it again: as in Init.
Restart ==
  /\ parameters' = InitialState /\ published' = TRUE
  /\ cycle' = "idle" /\ read' = InitialState /\ local' = InitialState /\ sent' = {}
  /\ queue' = << >>
  /\ updater' = "drain" /\ latest' = None
  /\ wanted' = InitialState /\ chosen' = None
  /\ stale' = FALSE /\ missed' = FALSE

Init ==
  /\ parameters = InitialState /\ published = TRUE
  /\ cycle = "idle" /\ read = InitialState /\ local = InitialState /\ sent = {}
  /\ queue = << >>
  /\ updater = "drain" /\ latest = None
  /\ wanted = InitialState /\ chosen = None
  /\ stale = FALSE /\ missed = FALSE

\* What a cycle does apart from the messages it finds.
CycleStep == ReadBase \/ ReadSelected \/ NextPort \/ EndCycle

Message ==
  \/ \E l \in LayerNames : SelectLayer(l)
  \/ MixControl \/ InputControl
  \/ \E b \in {0, 8} : SelectBank(b)
  \/ \E k \in Keys : SelectChannel(k)

Updater ==
  \/ Pop \/ Drained \/ SetLayer \/ SetBase \/ SetSelected \/ Publish
  \/ TestPredicate \/ Block \/ WakeUp

Next == BeginCycle \/ CycleStep \/ Message \/ Updater \/ SpuriousWakeUp \/ Restart

Spec == Init /\ [][Next]_vars

\* A cycle that has begun ends, the thread runs; nothing forces a cycle to begin.
FairSpec == Spec /\ WF_vars(CycleStep) /\ WF_vars(Updater)

-----------------------------------------------------------------------------
TypeOK ==
  /\ parameters \in State /\ published \in BOOLEAN
  /\ cycle \in {"idle", "readBase", "readSelected", "group", "mix", "input"}
  /\ read \in State /\ local \in State /\ wanted \in State
  /\ sent \subseteq LayerNames
  /\ queue \in Seq(State) /\ Len(queue) <= Capacity
  /\ updater \in {"drain", "setLayer", "setBase", "setSelected", "publish",
                  "lock", "blocking", "waiting", "notified"}
  /\ latest \in State \union {None}
  /\ chosen \in LayerNames \union {None}
  /\ stale \in BOOLEAN /\ missed \in BOOLEAN

(***************************************************************************)
(* What becomes of the keys.  A key pressed in a cycle that started with   *)
(* no change under way is added to all that was asked for before.  A cycle *)
(* that started with a change under way read parameters that were about to *)
(* be overwritten: if it changed the triple it replaces all three, so that *)
(* the change under way is lost; if the queue was full, or its triple was  *)
(* popped together with an older one, its own keys are lost instead.       *)
(* Nothing else is ever lost while the process runs: between cycles, with  *)
(* no change under way, the parameters are the triple so counted and the   *)
(* rest of the graph is told, although the two threads read and write the  *)
(* three parameters one by one.                                            *)
(***************************************************************************)
SettledIsWanted ==
  (cycle = "idle" /\ ~ UnderWay) =>
     /\ parameters = wanted
     /\ updater = "publish" \/ published

(***************************************************************************)
(* "group channels should be processed before input channels, so that the  *)
(* layer selector is processed before the other updates": in a cycle in    *)
(* which the selector was moved every control of a strip that was sent, be *)
(* it before or after, names the layer that was selected.  The selector    *)
(* comes by a port of its own, so that this is a matter of the order in    *)
(* which the ports are taken up.                                           *)
(***************************************************************************)
SelectorComesFirst ==
  chosen # None => sent \subseteq {chosen}

(***************************************************************************)
(* Once the keys are left alone the last change arrives, with no further   *)
(* message to push it on, unless its notification fell into the window     *)
(* before the wait.                                                        *)
(***************************************************************************)
ArrivesUnlessMissed == <>[](cycle = "idle") => <>[](missed \/ (~ UnderWay /\ published))
=============================================================================
