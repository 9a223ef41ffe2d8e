--------------------------- MODULE MidiRouter_proofs ---------------------------
(***************************************************************************)
(* Proofs about pmx-midi-router and what it sends.                         *)
(*                                                                         *)
(* About MidiRouter, for every set of keys and every capacity of the       *)
(* queue: type correctness, and what becomes of the keys.                  *)
(*                                                                         *)
(* About ControlPath, for all control changes, banks and strips: the       *)
(* number of a path survives the way through its decimal digits, a control *)
(* of an input strip lands on the strip it is meant for, what the parser   *)
(* lets through exists in a filter graph, and what it drops is not mapped. *)
(***************************************************************************)
EXTENDS MidiRouter, ControlPath, SequenceTheorems, TLAPS

USE DEF LayerNames, Layers, Ports

\* What the parameters will be once everything under way has arrived.
Effective ==
  IF queue # << >> THEN queue[Len(queue)]
  ELSE IF latest # None THEN latest ELSE parameters

\* The thread holds a triple while, and only while, it pops or applies it.
Holding ==
  /\ updater \in {"setLayer", "setBase", "setSelected"} => latest # None
  /\ latest # None => updater \in {"drain", "setLayer", "setBase", "setSelected"}

\* How much of the triple is in the parameters already.
Partial ==
  /\ updater \in {"setBase", "setSelected"} =>
       parameters.activeLayer = latest.activeLayer
  /\ updater = "setSelected" => parameters.baseChannelId = latest.baseChannelId

Told == published \/ updater \in {"setBase", "setSelected", "publish"}

\* Between cycles, and in a cycle whose keys do not count before they are queued.
Counted == (cycle = "idle" \/ stale) => wanted = Effective

\* A cycle that began with nothing under way: nothing moves until it ends.
Undisturbed ==
  (cycle # "idle" /\ ~ stale) =>
     /\ queue = << >> /\ latest = None
     /\ read.activeLayer = parameters.activeLayer
     /\ cycle = "readBase" => wanted = parameters
     /\ cycle = "readSelected" =>
          wanted = parameters /\ read.baseChannelId = parameters.baseChannelId
     /\ cycle \in {"group", "mix", "input"} => read = parameters /\ wanted = local

IInv == Holding /\ Partial /\ Told /\ Counted /\ Undisturbed

-----------------------------------------------------------------------------
\* The first element of a queue, and the last when one is added.
LEMMA FirstOf ==
  ASSUME NEW S, NEW s \in Seq(S), s # << >>
  PROVE  Head(s) \in S /\ Len(s) \in Nat \ {0} /\ (Len(s) = 1 => Head(s) = s[Len(s)])
BY LenProperties, HeadTailProperties, EmptySeq

LEMMA LastOfAppend ==
  ASSUME NEW S, NEW s \in Seq(S), NEW e \in S
  PROVE  /\ Append(s, e) \in Seq(S) /\ Len(Append(s, e)) = Len(s) + 1
         /\ Append(s, e) # << >> /\ Append(s, e) # s
         /\ Append(s, e)[Len(Append(s, e))] = e
<1>1. Len(s) \in Nat
  BY LenProperties
<1> QED
  BY <1>1, AppendProperties, EmptySeq

\* Pressing a key, and reading or writing one parameter, make a triple of a triple.
LEMMA StateUpdates ==
  ASSUME NEW s \in State
  PROVE  /\ \A l \in {"A", "B"} : [s EXCEPT !.activeLayer = l] \in State
         /\ \A b \in {0, 8} : [s EXCEPT !.baseChannelId = b] \in State
         /\ \A k \in Keys : [s EXCEPT !.selectedChannelId = s.baseChannelId + k] \in State
         /\ \A t \in State : /\ [s EXCEPT !.activeLayer = t.activeLayer] \in State
                             /\ [s EXCEPT !.baseChannelId = t.baseChannelId] \in State
                             /\ [s EXCEPT !.selectedChannelId = t.selectedChannelId] \in State
         /\ s.activeLayer \in {"A", "B"}
<1>1. \A k \in Keys : s.baseChannelId + k \in 1 .. 16
  BY RouterAssumption DEF State
<1> QED
  BY <1>1 DEF State

LEMMA InitialIsState == InitialState \in State
  BY DEF InitialState, State

-----------------------------------------------------------------------------
(* Type correctness *)

LEMMA TypeInit == Init => TypeOK /\ Holding
<1> SUFFICES ASSUME Init PROVE TypeOK /\ Holding
  OBVIOUS
<1>1. queue \in Seq(State) /\ Len(queue) <= Capacity
  BY EmptySeq, RouterAssumption DEF Init
<1> QED
  BY <1>1, InitialIsState DEF Init, TypeOK, Holding

LEMMA TypeMessage == TypeOK /\ Holding /\ Message => TypeOK' /\ Holding'
<1> SUFFICES ASSUME TypeOK, Holding, Message PROVE TypeOK' /\ Holding'
  OBVIOUS
<1> USE DEF TypeOK, Holding, thread
<1>1. ASSUME NEW l \in {"A", "B"}, SelectLayer(l) PROVE TypeOK' /\ Holding'
  <2>1. local' \in State /\ wanted' \in State
    BY <1>1, StateUpdates DEF SelectLayer, Press
  <2> QED
    BY <1>1, <2>1 DEF SelectLayer, Press
<1>2. ASSUME NEW b \in {0, 8}, SelectBank(b) PROVE TypeOK' /\ Holding'
  <2>1. local' \in State /\ wanted' \in State
    BY <1>2, StateUpdates DEF SelectBank, Press
  <2> QED
    BY <1>2, <2>1 DEF SelectBank, Press
<1>3. ASSUME NEW k \in Keys, SelectChannel(k) PROVE TypeOK' /\ Holding'
  <2>1. local' \in State /\ wanted' \in State
    BY <1>3, StateUpdates DEF SelectChannel, Press
  <2> QED
    BY <1>3, <2>1 DEF SelectChannel, Press
<1>4. CASE MixControl \/ InputControl
  BY <1>4, StateUpdates, ZenonT(40) DEF MixControl, InputControl, Control, CurrentLayer
<1> QED
  BY <1>1, <1>2, <1>3, <1>4 DEF Message

LEMMA TypeCycle == TypeOK /\ Holding /\ (BeginCycle \/ CycleStep) => TypeOK' /\ Holding'
<1> SUFFICES ASSUME TypeOK, Holding, BeginCycle \/ CycleStep PROVE TypeOK' /\ Holding'
  OBVIOUS
<1> USE DEF TypeOK, Holding, thread
<1>1. CASE BeginCycle
  <2>1. read' \in State
    BY <1>1, StateUpdates DEF BeginCycle
  <2> QED
    BY <1>1, <2>1 DEF BeginCycle, UnderWay
<1>2. CASE ReadBase
  <2>1. read' \in State
    BY <1>2, StateUpdates DEF ReadBase
  <2> QED
    BY <1>2, <2>1 DEF ReadBase
<1>3. CASE ReadSelected
  <2>1. read' \in State /\ local' \in State
    BY <1>3, StateUpdates DEF ReadSelected
  <2> QED
    BY <1>3, <2>1 DEF ReadSelected
<1>4. CASE NextPort
  BY <1>4 DEF NextPort
<1>5. CASE EndCycle
  <2>1. Len(queue) < Capacity =>
          Append(queue, local) \in Seq(State) /\ Len(Append(queue, local)) <= Capacity
    BY LastOfAppend, RouterAssumption, LenProperties
  <2>2. queue' \in Seq(State) /\ Len(queue') <= Capacity
    BY <1>5, <2>1 DEF EndCycle, Push
  <2>3. /\ missed' \in BOOLEAN
        /\ updater' = updater \/ (updater = "waiting" /\ updater' = "notified")
    BY <1>5 DEF EndCycle, notify_all
  <2>4. wanted' \in State
    BY <1>5 DEF EndCycle
  <2> QED
    BY <1>5, <2>2, <2>3, <2>4, InitialIsState DEF EndCycle
<1> QED
  BY <1>1, <1>2, <1>3, <1>4, <1>5 DEF CycleStep

LEMMA TypeUpdater ==
  TypeOK /\ Holding /\ (Updater \/ SpuriousWakeUp) => TypeOK' /\ Holding'
<1> SUFFICES ASSUME TypeOK, Holding, Updater \/ SpuriousWakeUp PROVE TypeOK' /\ Holding'
  OBVIOUS
<1> USE DEF TypeOK, Holding, processor, keys
<1>1. CASE Pop
  <2>1. Head(queue) \in State
    BY <1>1, FirstOf DEF Pop
  <2>2. queue' \in Seq(State) /\ Len(queue') <= Capacity
    BY <1>1, EmptySeq, RouterAssumption DEF Pop
  <2> QED
    BY <1>1, <2>1, <2>2 DEF Pop, KeepLast
<1>2. CASE Drained
  BY <1>2 DEF Drained
<1>3. CASE SetLayer \/ SetBase \/ SetSelected
  <2>1. latest \in State
    BY <1>3 DEF SetLayer, SetBase, SetSelected
  <2>2. /\ [parameters EXCEPT !.activeLayer = latest.activeLayer] \in State
        /\ [parameters EXCEPT !.baseChannelId = latest.baseChannelId] \in State
        /\ [parameters EXCEPT !.selectedChannelId = latest.selectedChannelId] \in State
    BY <2>1, StateUpdates
  <2> QED
    BY <1>3, <2>1, <2>2 DEF SetLayer, SetBase, SetSelected
<1>4. CASE Publish \/ TestPredicate \/ Block \/ WakeUp \/ SpuriousWakeUp
  BY <1>4, ZenonT(40) DEF Publish, TestPredicate, Block, WakeUp, SpuriousWakeUp
<1> QED
  BY <1>1, <1>2, <1>3, <1>4 DEF Updater

LEMMA TypeNext == TypeOK /\ Holding /\ [Next]_vars => TypeOK' /\ Holding'
<1>1. TypeOK /\ Holding /\ UNCHANGED vars => TypeOK' /\ Holding'
  BY DEF TypeOK, Holding, vars
<1>2. Restart => TypeOK' /\ Holding'
  <2> SUFFICES ASSUME Restart PROVE TypeOK' /\ Holding'
    OBVIOUS
  <2>1. queue' \in Seq(State) /\ Len(queue') <= Capacity
    BY EmptySeq, RouterAssumption DEF Restart
  <2> QED
    BY <2>1, InitialIsState DEF Restart, TypeOK, Holding
<1> QED
  BY <1>1, <1>2, TypeMessage, TypeCycle, TypeUpdater DEF Next

(***************************************************************************)
(* The state of pmx-midi-router has the types of its variables: the queue  *)
(* keeps its capacity, and what the thread writes to the parameters, one   *)
(* by one, always is a layer, a bank and a strip that exist.               *)
(***************************************************************************)
THEOREM TypeCorrect == Spec => [](TypeOK /\ Holding)
<1>1. Init => TypeOK /\ Holding
  BY TypeInit
<1>2. TypeOK /\ Holding /\ [Next]_vars => TypeOK' /\ Holding'
  BY TypeNext
<1> QED
  BY <1>1, <1>2, PTL DEF Spec

-----------------------------------------------------------------------------
(* What becomes of the keys *)

LEMMA InvInit == Init => IInv
<1> SUFFICES ASSUME Init PROVE IInv
  OBVIOUS
<1> QED
  BY DEF Init, IInv, Holding, Partial, Told, Counted, Undisturbed, Effective

\* A step of the thread changes what the parameters will be only where it loses a
\* triple, and then the keys of that triple do not count.
LEMMA UpdaterKeepsEffective ==
  ASSUME TypeOK, Holding, Partial, Updater \/ SpuriousWakeUp
  PROVE  /\ (wanted = Effective) => (wanted' = Effective')
         /\ Partial'
<1> USE DEF TypeOK, Holding, Partial, Effective, processor
<1>1. CASE Pop
  <2>1. /\ Head(queue) \in State /\ Head(queue) # None
        /\ Len(queue) \in Nat \ {0} /\ (Len(queue) = 1 => Head(queue) = queue[Len(queue)])
    BY <1>1, FirstOf, RouterAssumption DEF Pop
  <2>2. /\ queue # << >> /\ queue' = << >> /\ latest' = Head(queue)
        /\ wanted' = IF Len(queue) > 1 THEN Head(queue) ELSE wanted
        /\ updater = "drain" /\ updater' = updater
    BY <1>1 DEF Pop, KeepLast
  <2>3. Effective' = Head(queue)
    BY <2>1, <2>2
  <2>4. CASE Len(queue) > 1
    BY <2>2, <2>3, <2>4
  <2>5. CASE Len(queue) = 1
    BY <2>1, <2>2, <2>3, <2>5
  <2>6. Len(queue) > 1 \/ Len(queue) = 1
    <3>1. \A n \in Nat \ {0} : n > 1 \/ n = 1
      OBVIOUS
    <3> QED
      BY <2>1, <3>1, Zenon
  <2> QED
    BY <2>4, <2>5, <2>6, Zenon
<1>2. CASE Drained
  BY <1>2 DEF Drained
<1>3. CASE SetLayer \/ SetBase
  <2>1. latest # None /\ latest' = latest /\ queue' = queue
    BY <1>3 DEF SetLayer, SetBase
  <2> QED
    BY <1>3, <2>1 DEF SetLayer, SetBase, State
<1>4. CASE SetSelected
  <2>1. latest \in State /\ latest # None
    BY <1>4 DEF SetSelected
  <2>2. parameters' = latest
    BY <1>4, <2>1 DEF SetSelected, State
  <2> QED
    BY <1>4, <2>1, <2>2 DEF SetSelected
<1>5. CASE Publish \/ TestPredicate \/ Block \/ WakeUp \/ SpuriousWakeUp
  BY <1>5 DEF Publish, TestPredicate, Block, WakeUp, SpuriousWakeUp
<1> QED
  BY <1>1, <1>2, <1>3, <1>4, <1>5 DEF Updater

LEMMA InvUpdater ==
  TypeOK /\ IInv /\ (Updater \/ SpuriousWakeUp) => Told' /\ Counted' /\ Undisturbed' /\ Partial'
<1> SUFFICES ASSUME TypeOK, IInv, Updater \/ SpuriousWakeUp
             PROVE  Told' /\ Counted' /\ Undisturbed' /\ Partial'
  OBVIOUS
<1>1. ((wanted = Effective) => (wanted' = Effective')) /\ Partial'
  BY UpdaterKeepsEffective DEF IInv
<1>2. UNCHANGED keys
  BY DEF processor, Updater, Pop, Drained, SetLayer, SetBase, SetSelected, Publish,
         TestPredicate, Block, WakeUp, SpuriousWakeUp
<1>3. Counted'
  BY <1>1, <1>2 DEF IInv, Counted, keys
<1>4. Told'
  BY DEF IInv, Told, Updater, Pop, Drained, SetLayer, SetBase, SetSelected, Publish,
         TestPredicate, Block, WakeUp, SpuriousWakeUp
<1>5. queue = << >> /\ latest = None => UNCHANGED <<queue, latest, parameters, wanted>>
  BY DEF IInv, Holding, processor, Updater, Pop, Drained, SetLayer, SetBase, SetSelected, Publish,
         TestPredicate, Block, WakeUp, SpuriousWakeUp
<1>6. Undisturbed'
  BY <1>2, <1>5 DEF IInv, Undisturbed, keys
<1> QED
  BY <1>1, <1>3, <1>4, <1>6

LEMMA InvMessage ==
  TypeOK /\ IInv /\ Message => Told' /\ Counted' /\ Undisturbed' /\ Partial'
<1> SUFFICES ASSUME TypeOK, IInv, Message
             PROVE  Told' /\ Counted' /\ Undisturbed' /\ Partial'
  OBVIOUS
<1>1. /\ UNCHANGED <<parameters, published, cycle, read, queue, latest, updater, stale>>
      /\ cycle \in {"group", "mix", "input"}
      /\ stale => wanted' = wanted
      /\ ~ stale /\ wanted = local => wanted' = local'
  BY DEF Message, SelectLayer, SelectBank, SelectChannel, Press,
         MixControl, InputControl, Control, thread
<1> QED
  BY <1>1 DEF IInv, Told, Counted, Undisturbed, Partial, Effective

LEMMA InvCycle ==
  TypeOK /\ IInv /\ (BeginCycle \/ CycleStep) => Told' /\ Counted' /\ Undisturbed' /\ Partial'
<1> SUFFICES ASSUME TypeOK, IInv, BeginCycle \/ CycleStep
             PROVE  Told' /\ Counted' /\ Undisturbed' /\ Partial'
  OBVIOUS
<1> USE DEF TypeOK, IInv, Told, Counted, Undisturbed, Partial, Effective, thread
<1>1. CASE BeginCycle
  BY <1>1 DEF BeginCycle, UnderWay, State
<1>2. CASE ReadBase
  BY <1>2 DEF ReadBase, State
<1>3. CASE ReadSelected
  <2>1. ~ stale => read' = parameters
    BY <1>3 DEF ReadSelected, State
  <2> QED
    BY <1>3, <2>1 DEF ReadSelected
<1>4. CASE NextPort
  BY <1>4 DEF NextPort
<1>5. CASE EndCycle
  <2>1. /\ UNCHANGED <<parameters, published, latest>>
        /\ updater' = updater \/ (updater = "waiting" /\ updater' = "notified")
        /\ cycle' = "idle" /\ stale' = FALSE
    BY <1>5 DEF EndCycle, notify_all
  <2>2. CASE queue' = queue
    <3>1. ~ stale => ~ Changed
      BY <1>5, <2>2, LastOfAppend, RouterAssumption, EmptySeq DEF EndCycle, Push
    <3>2. wanted' = wanted
      BY <1>5, <2>2 DEF EndCycle
    <3> QED
      BY <1>5, <2>1, <2>2, <3>1, <3>2 DEF Changed, EndCycle
  <2>3. CASE queue' # queue
    <3>1. queue' = Append(queue, local)
      BY <1>5, <2>3 DEF EndCycle, Push
    <3>2. queue' # << >> /\ queue'[Len(queue')] = local
      BY <3>1, LastOfAppend
    <3>3. wanted' = local
      BY <1>5, <2>3 DEF EndCycle
    <3> QED
      BY <2>1, <3>2, <3>3
  <2> QED
    BY <2>2, <2>3
<1> QED
  BY <1>1, <1>2, <1>3, <1>4, <1>5 DEF CycleStep

LEMMA InvNext == TypeOK /\ IInv /\ [Next]_vars => IInv'
<1>1. TypeOK /\ IInv /\ UNCHANGED vars => IInv'
  BY DEF IInv, Holding, Told, Counted, Undisturbed, Partial, Effective, vars
<1>2. Restart => IInv'
  BY DEF Restart, IInv, Holding, Told, Counted, Undisturbed, Partial, Effective
<1> QED
  BY <1>1, <1>2, TypeNext, InvMessage, InvCycle, InvUpdater DEF Next, IInv

(***************************************************************************)
(* What becomes of the keys: between cycles, with no change under way, the *)
(* parameters are the triple the keys asked for, where a key counts unless *)
(* its cycle began with a change under way.  The proof follows the triple  *)
(* on its way: Effective is where it is, Partial how far it has got, and   *)
(* Undisturbed says that a cycle that found nothing under way is alone     *)
(* until it ends, so that its reads, one by one, belong together.          *)
(***************************************************************************)
THEOREM KeysArrive == Spec => []SettledIsWanted
<1>1. Init => TypeOK /\ IInv
  BY TypeInit, InvInit
<1>2. TypeOK /\ IInv /\ [Next]_vars => (TypeOK /\ IInv)'
  BY TypeNext, InvNext DEF IInv
<1>3. IInv => SettledIsWanted
  BY DEF IInv, Holding, Told, Counted, Effective, SettledIsWanted, UnderWay
<1> QED
  BY <1>1, <1>2, <1>3, PTL DEF Spec

-----------------------------------------------------------------------------
(* The thread that sleeps *)

\* From the test of the predicate on, a triple in the queue was announced in vain.
SleepInv == updater \in {"blocking", "waiting"} /\ queue # << >> => missed

LEMMA SleepNext == TypeOK /\ SleepInv /\ [Next]_vars => SleepInv'
<1> SUFFICES ASSUME TypeOK, SleepInv, [Next]_vars PROVE SleepInv'
  OBVIOUS
<1> USE DEF SleepInv, thread, processor
<1>1. CASE BeginCycle \/ ReadBase \/ ReadSelected \/ NextPort
  BY <1>1 DEF BeginCycle, ReadBase, ReadSelected, NextPort
<1>2. CASE EndCycle
  BY <1>2 DEF EndCycle, notify_all
<1>3. CASE Message
  BY <1>3 DEF Message, SelectLayer, SelectBank, SelectChannel, Press,
              MixControl, InputControl, Control
<1>4. CASE Updater \/ SpuriousWakeUp
  BY <1>4 DEF Updater, Pop, Drained, SetLayer, SetBase, SetSelected, Publish,
              TestPredicate, Block, WakeUp, SpuriousWakeUp
<1>5. CASE Restart
  BY <1>5 DEF Restart
<1>6. CASE UNCHANGED vars
  BY <1>6 DEF vars
<1> QED
  BY <1>1, <1>2, <1>3, <1>4, <1>5, <1>6 DEF Next, CycleStep

\* Between cycles a thread that sleeps and missed no notification has done its work.
RestsWhenDone ==
  (cycle = "idle" /\ updater = "waiting" /\ ~ missed) => parameters = wanted /\ published

(***************************************************************************)
(* The safety half of ArrivesUnlessMissed, for every set of keys and every *)
(* capacity: between cycles the thread sleeps, having missed no            *)
(* notification, only when the parameters are the triple that the keys     *)
(* asked for (as SettledIsWanted counts them) and the graph has been told. *)
(***************************************************************************)
THEOREM SleepsWhenDone == Spec => []RestsWhenDone
<1>1. Init => TypeOK /\ IInv /\ SleepInv
  BY TypeInit, InvInit DEF Init, SleepInv
<1>2. TypeOK /\ IInv /\ SleepInv /\ [Next]_vars => (TypeOK /\ IInv /\ SleepInv)'
  BY TypeNext, InvNext, SleepNext DEF IInv
<1>3. IInv /\ SleepInv => RestsWhenDone
  BY DEF IInv, Holding, Told, Counted, Effective, SleepInv, RestsWhenDone
<1> QED
  BY <1>1, <1>2, <1>3, PTL DEF Spec

-----------------------------------------------------------------------------
(* The layer of what is sent *)

\* From the selector to the end of the cycle the triple has the selected layer;
\* strips are sent to only after the group port, for the layer of the triple.
Selected ==
  /\ chosen # None => cycle \in {"group", "mix", "input"} /\ local.activeLayer = chosen
  /\ sent # {} => cycle \in {"mix", "input"} /\ sent \subseteq {local.activeLayer}

\* What a message does: it selects at the group port, it keeps the layer, or it
\* sends for the layer at another port.
MessageEffect ==
  \/ cycle = "group" /\ local'.activeLayer = chosen' /\ sent' = sent
  \/ local'.activeLayer = local.activeLayer /\ chosen' = chosen /\ sent' = sent
  \/ /\ cycle \in {"mix", "input"} /\ UNCHANGED <<local, chosen>>
     /\ sent' = sent \union {local.activeLayer}

LEMMA MessageLayer ==
  TypeOK /\ Message =>
    cycle \in {"group", "mix", "input"} /\ cycle' = cycle /\ MessageEffect
<1> SUFFICES ASSUME TypeOK, Message
             PROVE  cycle \in {"group", "mix", "input"} /\ cycle' = cycle /\ MessageEffect
  OBVIOUS
<1>1. local \in State
  BY DEF TypeOK
<1>2. ASSUME NEW l \in LayerNames, SelectLayer(l)
      PROVE  cycle = "group" /\ cycle' = cycle /\ MessageEffect
  BY <1>1, <1>2 DEF SelectLayer, Press, State, MessageEffect
<1>3. ASSUME NEW b \in {0, 8}, SelectBank(b)
      PROVE  cycle = "mix" /\ cycle' = cycle /\ MessageEffect
  BY <1>1, <1>3 DEF SelectBank, Press, State, MessageEffect
<1>4. ASSUME NEW k \in Keys, SelectChannel(k)
      PROVE  cycle = "mix" /\ cycle' = cycle /\ MessageEffect
  BY <1>1, <1>4 DEF SelectChannel, Press, State, MessageEffect
<1>5. ASSUME MixControl \/ InputControl
      PROVE  cycle \in {"mix", "input"} /\ cycle' = cycle /\ MessageEffect
  BY <1>5 DEF MixControl, InputControl, Control, CurrentLayer, MessageEffect
<1> QED
  BY <1>2, <1>3, <1>4, <1>5 DEF Message

\* Only messages send, and select a layer; a cycle begins and ends with neither, and
\* comes to the group port before it has sent to any strip.
LEMMA OthersLayer ==
  Selected /\ (BeginCycle \/ CycleStep \/ Updater \/ SpuriousWakeUp \/ Restart) => Selected'
<1> SUFFICES ASSUME Selected, BeginCycle \/ CycleStep \/ Updater \/ SpuriousWakeUp \/ Restart
             PROVE  Selected'
  OBVIOUS
<1>1. CASE BeginCycle \/ ReadBase \/ ReadSelected
  BY <1>1 DEF BeginCycle, ReadBase, ReadSelected, Selected
<1>2. CASE NextPort
  <2>1. /\ \/ cycle = "group" /\ cycle' = "mix"
           \/ cycle = "mix" /\ cycle' = "input"
        /\ UNCHANGED <<local, sent, chosen>>
    BY <1>2 DEF NextPort, Ports
  <2> QED BY <2>1 DEF Selected
<1>3. CASE EndCycle \/ Restart
  BY <1>3 DEF EndCycle, Restart, Selected
<1>4. CASE Updater \/ SpuriousWakeUp
  <2>1. UNCHANGED <<cycle, local, sent, chosen>>
    BY <1>4 DEF Updater, SpuriousWakeUp, Pop, Drained, SetLayer, SetBase, SetSelected, Publish,
                TestPredicate, Block, WakeUp, processor, keys
  <2> QED BY <2>1 DEF Selected
<1> QED
  BY <1>1, <1>2, <1>3, <1>4 DEF CycleStep

LEMMA SelectedNext == TypeOK /\ Selected /\ [Next]_vars => Selected'
<1> SUFFICES ASSUME TypeOK, Selected, [Next]_vars PROVE Selected'
  OBVIOUS
<1>1. CASE Message
  BY <1>1, MessageLayer DEF Selected, MessageEffect
<1>2. CASE BeginCycle \/ CycleStep \/ Updater \/ SpuriousWakeUp \/ Restart
  BY <1>2, OthersLayer
<1>3. CASE UNCHANGED vars
  BY <1>3 DEF vars, processor, keys, Selected
<1> QED
  BY <1>1, <1>2, <1>3 DEF Next

(***************************************************************************)
(* In a cycle in which the selector was moved everything that was sent to  *)
(* a strip is for the selected layer: whatever the parameters were when    *)
(* the cycle began, and because the port of the selector is the first.     *)
(***************************************************************************)
THEOREM SelectorFirst == Spec => []SelectorComesFirst
<1>1. Init => Selected
  BY DEF Init, Selected
<1>2. TypeOK /\ Selected /\ [Next]_vars => Selected'
  BY SelectedNext
<1>3. Selected => SelectorComesFirst
  BY DEF Selected, SelectorComesFirst
<1> QED
  BY <1>1, <1>2, <1>3, TypeCorrect, PTL DEF Spec

-----------------------------------------------------------------------------
(* The way of a control, from the router to the filter graph: ControlPath *)

\* The parser reads the number that the router has written, up to two digits.
LEMMA DigitsRoundTrip ==
  ASSUME NEW n \in 0 .. 99
  PROVE  /\ Len(Digits(n)) \in {1, 2}
         /\ \A p : p.digits = Digits(n) => channel_number(p) = n
<1>1. CASE n < 10
  BY <1>1 DEF Digits, channel_number
<1>2. CASE n >= 10
  <2>1. n = 10 * (n \div 10) + (n % 10)
    OBVIOUS
  <2>2. Digits(n) = <<n \div 10, n % 10>>
    BY <1>2 DEF Digits
  <2>3. Len(Digits(n)) = 2 /\ Digits(n)[1] = n \div 10 /\ Digits(n)[2] = n % 10
    BY <2>2
  <2>4. 10 * Digits(n)[1] + Digits(n)[2] = n
    BY <2>1, <2>3
  <2>5. ASSUME NEW p, p.digits = Digits(n) PROVE channel_number(p) = n
    <3>1. Len(p.digits) # 1
      BY <2>3, <2>5
    <3>2. channel_number(p) = 10 * Digits(n)[1] + Digits(n)[2]
      BY <2>5, <3>1, Zenon DEF channel_number
    <3> QED
      BY <2>4, <3>2, Zenon
  <2> QED
    BY <2>3, <2>5
<1> QED
  BY <1>1, <1>2

\* A press has the fields its constants allow.
LEMMA PressFields ==
  ASSUME NEW p \in Presses
  PROVE  /\ p.port \in {"group channels", "input channels mix", "input channels"}
         /\ p.cc \in ControlChanges /\ p.layer \in Layers
         /\ p.base \in BaseChannels /\ p.selected \in SelectedChannels
BY DEF Presses

LEMMA PressConstants ==
  ASSUME NEW p \in Presses
  PROVE  p.selected \in 1 .. 16 /\ p.base \in 0 .. 8 /\ p.cc \in 0 .. 127
<1>1. /\ p.selected \in SelectedChannels /\ p.base \in BaseChannels
      /\ p.cc \in ControlChanges
  BY PressFields
<1>2. /\ SelectedChannels \subseteq 1 .. 16 /\ BaseChannels \subseteq 0 .. 8
      /\ ControlChanges \subseteq 0 .. 127
  BY ControlPathAssumption
<1> QED
  BY <1>1, <1>2, Zenon

\* A knob that is not mapped has no strip, and a name the parser does not know.
LEMMA MixMapped ==
  ASSUME NEW cc \in 0 .. 127
  PROVE  \/ find_target_parameter_for_input_mix_channels(cc).channel \in 1 .. 8
         \/ /\ find_target_parameter_for_input_mix_channels(cc).channel = 0
            /\ find_target_parameter_for_input_mix_channels(cc).parameter = none
<1>1. CASE cc \in 16 .. 31
  <2>1. find_target_parameter_for_input_mix_channels(cc).channel = (cc - 16) \div 4 + 1
    BY <1>1 DEF find_target_parameter_for_input_mix_channels
  <2> QED
    BY <1>1, <2>1
<1>2. CASE cc \in 46 .. 61
  <2>1. find_target_parameter_for_input_mix_channels(cc).channel = (cc - 46) \div 4 + 5
    BY <1>2 DEF find_target_parameter_for_input_mix_channels
  <2> QED
    BY <1>2, <2>1
<1>3. CASE cc \notin 16 .. 31 /\ cc \notin 46 .. 61
  BY <1>3 DEF find_target_parameter_for_input_mix_channels
<1> QED
  BY <1>1, <1>2, <1>3

\* A strip's number: of the knob's strip in its bank, or the selected one.
LEMMA StripNumber ==
  ASSUME NEW p \in Presses
  PROVE  Strip(p).layer = p.layer /\ Strip(p).number \in 0 .. 16
<1>1. p.selected \in 1 .. 16 /\ p.base \in 0 .. 8 /\ p.cc \in 0 .. 127
  BY PressConstants
<1>2. find_target_parameter_for_input_mix_channels(p.cc).channel \in 0 .. 8
  <2>1. \/ find_target_parameter_for_input_mix_channels(p.cc).channel \in 1 .. 8
        \/ find_target_parameter_for_input_mix_channels(p.cc).channel = 0
    BY <1>1, MixMapped, Zenon
  <2> QED
    BY <2>1
<1>3. p.base + find_target_parameter_for_input_mix_channels(p.cc).channel \in 0 .. 16
  BY <1>1, <1>2
<1>4. p.selected \in 0 .. 16
  BY <1>1
<1> QED
  BY <1>3, <1>4, Zenon DEF Strip

\* What the router writes for a press that ends at an input strip.
LEMMA RoutedToStrip ==
  ASSUME NEW p \in Presses, routed(p) # Nothing, routed(p).type = "I"
  PROVE  /\ p.port \in {"input channels", "input channels mix"}
         /\ routed(p).layer = p.layer
         /\ routed(p).digits = Digits(Strip(p).number)
<1>1. Strip(p).number \in 0 .. 16
  BY StripNumber
<1>2. Strip(p).number % 256 = Strip(p).number
  BY <1>1
<1>3. CASE p.port = "group channels"
  BY <1>3 DEF routed, build_osc_path
<1>4. CASE p.port = "input channels mix"
  BY <1>2, <1>4 DEF routed, build_osc_path, Strip
<1>5. CASE p.port = "input channels"
  BY <1>2, <1>5 DEF routed, build_osc_path, Strip
<1> QED
  BY <1>3, <1>4, <1>5, PressFields

\* What the parser lets through has a strip that exists.
LEMMA MappedStrip ==
  ASSUME NEW p \in Presses, routed(p) # Nothing, routed(p).type = "I",
         parse_osc_path(routed(p)) # Nothing
  PROVE  Strip(p).number \in 1 .. 16
<1>1. routed(p).device # "NA"
  BY DEF parse_osc_path, named_parameters
<1>2. /\ p.selected \in 1 .. 16 /\ p.base \in 0 .. 8 /\ p.cc \in 0 .. 127
      /\ p.port \in {"input channels", "input channels mix"}
  BY PressConstants, RoutedToStrip
<1>3. CASE p.port = "input channels"
  BY <1>2, <1>3 DEF Strip
<1>4. CASE p.port = "input channels mix"
  <2> DEFINE found == find_target_parameter_for_input_mix_channels(p.cc)
  <2>1. routed(p).device = device_short_name(found.parameter)
    BY <1>4 DEF routed, build_osc_path
  <2>2. device_short_name(none) = "NA"
    BY DEF device_short_name, none
  <2>3. found.channel \in 1 .. 8
    BY <1>1, <1>2, <2>1, <2>2, MixMapped
  <2>4. Strip(p).number = p.base + found.channel
    BY <1>4 DEF Strip
  <2> HIDE DEF found
  <2>5. p.base \in 0 .. 8
    BY <1>2
  <2>6. p.base + found.channel \in 1 .. 16
    BY <2>3, <2>5
  <2> QED
    BY <2>4, <2>6, Zenon
<1> QED
  BY <1>2, <1>3, <1>4

-----------------------------------------------------------------------------
(* The way of a press *)

\* What is known at every stage: each variable is made of the one before.
Way ==
  /\ press # Nothing => press \in Presses /\ path = routed(press) /\ path # Nothing
  /\ stage \in {"parsed", "named"} =>
       parsed = IF moved # Nothing /\ Eclipsed(moved) THEN Nothing ELSE parse_osc_path(path)
  /\ stage \in {"idle", "sent"} => parsed = Nothing
  /\ control # Nothing => parsed # Nothing /\ control = parameter_name(parsed)
                       /\ stage = "named"

LEMMA WayNext == Way /\ [PathNext]_pathVars => Way'
<1> SUFFICES ASSUME Way, [PathNext]_pathVars PROVE Way'
  OBVIOUS
<1> USE DEF Way
<1>1. CASE Send
  BY <1>1 DEF Send
<1>2. CASE SendZ1
  BY <1>2 DEF SendZ1
<1>3. CASE Parse
  BY <1>3 DEF Parse
<1>4. CASE Name
  BY <1>4 DEF Name
<1>5. CASE Finish
  BY <1>5 DEF Finish
<1>6. CASE UNCHANGED pathVars
  BY <1>6 DEF pathVars
<1> QED
  BY <1>1, <1>2, <1>3, <1>4, <1>5, <1>6 DEF PathNext

LEMMA WayRightStrip == Way => RightStrip
<1> SUFFICES ASSUME Way, control # Nothing, press # Nothing, control.chain = "I"
             PROVE  \E n \in 1 .. 32 :
                      /\ control.unit = <<"strip", n>>
                      /\ Strip(press) = [layer |-> IF n <= 16 THEN "A" ELSE "B",
                                         number |-> IF n <= 16 THEN n ELSE n - 16]
  BY DEF RightStrip
<1>1. /\ press \in Presses /\ path = routed(press) /\ path # Nothing
      /\ parsed = parse_osc_path(path) /\ parsed # Nothing
      /\ control = parameter_name(parsed)
  BY DEF Way
<1>2. /\ parsed.channel_type = path.type /\ parsed.layer = path.layer
      /\ parsed.channel_id = channel_number(path)
      /\ path.type \in {"I", "G", "L"} /\ path.layer \in Layers
  BY <1>1 DEF parse_osc_path
<1>3. parsed.channel_type = "I"
  BY <1>1, <1>2 DEF parameter_name
<1>4. parsed.layer = press.layer /\ press.layer \in Layers
  BY <1>1, <1>2, <1>3, RoutedToStrip
<1>5. Strip(press).number \in 0 .. 16 /\ Strip(press).layer = press.layer
  BY <1>1, StripNumber
<1>6. parsed.channel_id = Strip(press).number
  <2>1. path.digits = Digits(Strip(press).number)
    BY <1>1, <1>2, <1>3, RoutedToStrip
  <2>2. Strip(press).number \in 0 .. 99
    BY <1>5
  <2> QED
    BY <1>2, <2>1, <2>2, DigitsRoundTrip
<1>7. Strip(press).number \in 1 .. 16
  BY <1>1, <1>2, <1>3, MappedStrip
<1>8. control.unit = <<"strip", device_number(parsed)>>
  BY <1>1, <1>3 DEF parameter_name
<1>9. Strip(press) = [layer |-> press.layer, number |-> Strip(press).number]
  BY DEF Strip
<1>10. CASE press.layer = "A"
  <2>1. device_number(parsed) = Strip(press).number
    BY <1>4, <1>6, <1>10 DEF device_number
  <2> QED
    BY <1>7, <1>8, <1>9, <1>10, <2>1
<1>11. CASE press.layer = "B"
  <2> DEFINE n == 16 + Strip(press).number
  <2>1. device_number(parsed) = n
    BY <1>4, <1>6, <1>11 DEF device_number
  <2>2. n \in 1 .. 32 /\ ~ (n <= 16) /\ n - 16 = Strip(press).number
    BY <1>7
  <2>3. control.unit = <<"strip", n>>
    BY <1>8, <2>1
  <2> HIDE DEF n
  <2>4. Strip(press) = [layer |-> IF n <= 16 THEN "A" ELSE "B",
                        number |-> IF n <= 16 THEN n ELSE n - 16]
    BY <1>9, <1>11, <2>2
  <2> QED
    BY <2>2, <2>3, <2>4
<1> QED
  BY <1>4, <1>10, <1>11 DEF Layers

(***************************************************************************)
(* A control that the router sends for an input strip is written to that   *)
(* strip of the filter graph or to none, whatever the banks and the strips *)
(* in use are: the digits of the path give the number back, the parser     *)
(* drops what is not mapped (which would be strip 0, and so strip 16 of    *)
(* the other layer), and the two layers have 16 strips each.               *)
(***************************************************************************)
THEOREM StripsApart == PathSpec => []RightStrip
<1>1. PathInit => Way
  BY DEF PathInit, Way
<1> QED
  BY <1>1, WayNext, WayRightStrip, PTL DEF PathSpec

-----------------------------------------------------------------------------
(* What the parser lets through exists *)

\* What the parser makes of a path.
LEMMA ParsedFields ==
  ASSUME NEW p, parse_osc_path(p) # Nothing
  PROVE  /\ p.type \in {"I", "G", "L"} /\ p.layer \in Layers
         /\ parse_osc_path(p).channel_type = p.type
         /\ parse_osc_path(p).layer = p.layer
         /\ parse_osc_path(p).channel_id = channel_number(p)
         /\ p.device \in {"SAT", "CMP", "EQU"}
         /\ parse_osc_path(p).parameter.device \in {"Saturator", "Compressor", "Equalizer"}
         /\ p.device = "EQU" => parse_osc_path(p).parameter.device = "Equalizer"
<1> DEFINE q == CHOOSE q \in named_parameters(p) : TRUE
<1>1. /\ p.type \in {"I", "G", "L"} /\ p.layer \in Layers /\ named_parameters(p) # {}
      /\ parse_osc_path(p) = [channel_type |-> p.type, layer |-> p.layer,
                              channel_id |-> channel_number(p), parameter |-> q]
  BY DEF parse_osc_path
<1>2. q \in named_parameters(p)
  BY <1>1
<1> HIDE DEF q
<1>3. q \in all /\ device_short_name(q) # "NA" /\ device_short_name(q) = p.device
  BY <1>2 DEF named_parameters
<1>4. device_short_name(none) = "NA"
  BY DEF device_short_name, none
<1>5. q \in Mapped
  BY <1>3, <1>4 DEF all
<1>6. q.device \in {"Saturator", "Compressor", "Equalizer"}
  BY <1>5 DEF Mapped, Saturator, Compressor, Equalizer, ParameterOf
<1>7. /\ device_short_name(q) \in {"SAT", "CMP", "EQU"}
      /\ device_short_name(q) = "EQU" => q.device = "Equalizer"
  BY <1>6 DEF device_short_name
<1>8. p.device \in {"SAT", "CMP", "EQU"} /\ (p.device = "EQU" => q.device = "Equalizer")
  BY <1>3, <1>7
<1>9. parse_osc_path(p).parameter = q
  BY <1>1
<1> QED BY <1>1, <1>6, <1>8, <1>9

\* The groups' controls: an equalizer of one of four groups.
LEMMA GroupMapped ==
  ASSUME NEW cc \in 0 .. 127, NEW t \in find_target_parameter_for_group_channels(cc)
  PROVE  t.channel \in 1 .. 4 /\ device_short_name(t.parameter) = "EQU"
<1>1. PICK first \in {10, 14, 18, 48}, name \in {"high", "mid", "low", "master"} :
        /\ t = [channel |-> cc - first + 1, parameter |-> equalizer(name)]
        /\ first <= cc /\ cc < first + 4
  BY DEF find_target_parameter_for_group_channels
<1>2. cc - first + 1 \in 1 .. 4
  BY <1>1
<1>3. device_short_name(equalizer(name)) = "EQU"
  BY DEF device_short_name, equalizer
<1> QED BY <1>1, <1>2, <1>3

LEMMA GroupPath ==
  ASSUME NEW layer, NEW c \in 1 .. 4, NEW q
  PROVE  /\ build_osc_path("G", layer, c, q).type = "G"
         /\ build_osc_path("G", layer, c, q).device = device_short_name(q)
         /\ channel_number(build_osc_path("G", layer, c, q)) = c
<1>1. c % 256 = c /\ c \in 0 .. 99
  OBVIOUS
<1>2. build_osc_path("G", layer, c, q) =
        [type |-> "G", layer |-> layer, digits |-> Digits(c), device |-> device_short_name(q),
         name |-> q.name]
  BY <1>1 DEF build_osc_path
<1>3. build_osc_path("G", layer, c, q).digits = Digits(c)
  BY <1>2
<1> QED BY <1>1, <1>2, <1>3, DigitsRoundTrip

LEMMA StripExists ==
  ASSUME NEW p \in Presses, routed(p) # Nothing, routed(p).type = "I",
         parse_osc_path(routed(p)) # Nothing
  PROVE  Unit(parameter_name(parse_osc_path(routed(p)))) \in graph
<1> DEFINE q == parse_osc_path(routed(p))
<1>1. /\ q.channel_type = "I" /\ q.layer \in Layers
      /\ q.channel_id = channel_number(routed(p))
      /\ q.parameter.device \in {"Saturator", "Compressor", "Equalizer"}
  BY ParsedFields
<1> HIDE DEF q
<1>2. q.channel_id = Strip(p).number
  <2>1. routed(p).digits = Digits(Strip(p).number)
    BY RoutedToStrip
  <2>2. Strip(p).number \in 0 .. 16
    BY StripNumber
  <2>3. Strip(p).number \in 0 .. 99
    BY <2>2
  <2> QED BY <1>1, <2>1, <2>3, DigitsRoundTrip
<1>3. Strip(p).number \in 1 .. 16
  BY MappedStrip
<1>4. device_number(q) \in 1 .. 32
  BY <1>2, <1>3 DEF device_number
<1>5. Unit(parameter_name(q)) = [chain |-> "I", device |-> q.parameter.device,
                                 unit |-> <<"strip", device_number(q)>>]
  BY <1>1 DEF parameter_name, Unit
<1>6. Unit(parameter_name(q)) \in input_channels
  BY <1>1, <1>4, <1>5 DEF input_channels
<1> QED BY <1>6 DEF graph, q

LEMMA GroupExists ==
  ASSUME NEW layer, NEW c \in 1 .. 4, NEW q, device_short_name(q) = "EQU",
         NEW p, p = build_osc_path("G", layer, c, q), parse_osc_path(p) # Nothing
  PROVE  Unit(parameter_name(parse_osc_path(p))) \in graph
<1>1. p.type = "G" /\ p.device = "EQU" /\ channel_number(p) = c
  BY GroupPath
<1> DEFINE r == parse_osc_path(p)
<1>2. /\ r.channel_type = "G" /\ r.layer \in Layers
      /\ r.channel_id = c /\ r.parameter.device = "Equalizer"
  BY <1>1, ParsedFields
<1> HIDE DEF r
<1>3. \E chain \in {"groupA", "groupB"} :
        Unit(parameter_name(r)) = [chain |-> chain, device |-> "Equalizer",
                                   unit |-> <<"group", c>>]
  BY <1>2 DEF parameter_name, Unit
<1>4. \A chain \in {"groupA", "groupB"} :
        [chain |-> chain, device |-> "Equalizer", unit |-> <<"group", c>>] \in group_channels
  BY DEF group_channels
<1>5. Unit(parameter_name(r)) \in group_channels
  BY <1>3, <1>4, Zenon
<1> QED BY <1>5 DEF graph, r

LEMMA GroupRouted ==
  ASSUME NEW p \in Presses, routed(p) # Nothing, p.port = "group channels"
  PROVE  \E c \in 1 .. 4 : \E q :
           device_short_name(q) = "EQU" /\ routed(p) = build_osc_path("G", p.layer, c, q)
<1>1. p.cc \in 0 .. 127
  BY PressConstants, Zenon
<1>2. PICK t \in find_target_parameter_for_group_channels(p.cc) :
        routed(p) = build_osc_path("G", p.layer, t.channel, t.parameter)
  BY DEF routed
<1> QED BY <1>1, <1>2, GroupMapped, Zenon

\* The paths of the Traktor Z1.
Z1Path(p) == \E i \in 1 .. 14 : p = z1_paths[i]

CrossfaderPath(p) == p.type = "c" /\ p.device = ""

SidePath(p) ==
  /\ p.type = "L" /\ p.layer \in Layers /\ p.digits = <<1>>
  /\ \/ p.device = "MIX"
     \/ p.device = "EQU" /\ p.name \in {"high", "mid", "low", "master"}

\* A path of the Traktor Z1 is one of a side of its mixer, or has no channel.
LEMMA Z1Fields ==
  ASSUME NEW p, Z1Path(p)
  PROVE  CrossfaderPath(p) \/ SidePath(p)
<1>1. \A l \in Layers : SidePath(side_path(l, "MIX", "fx_gain"))
  BY DEF SidePath, side_path
<1>2. \A l \in Layers : SidePath(side_path(l, "MIX", "fx_mix"))
  BY DEF SidePath, side_path
<1>3. \A l \in Layers, n \in {"high", "mid", "low", "master"} :
        SidePath(side_path(l, "EQU", n))
  BY DEF SidePath, side_path
<1>4. \A n : CrossfaderPath(crossfader_path(n))
  BY DEF CrossfaderPath, crossfader_path
<1>5. PICK i \in 1 .. 14 : p = z1_paths[i]
  BY DEF Z1Path
<1>6. CASE i \in 1 .. 10
  BY <1>1, <1>2, <1>3, <1>5, <1>6 DEF z1_paths
<1>7. CASE i \in 11 .. 14
  BY <1>3, <1>4, <1>5, <1>7 DEF z1_paths
<1> QED BY <1>6, <1>7

LEMMA SideExists ==
  ASSUME NEW p, Z1Path(p), parse_osc_path(p) # Nothing
  PROVE  Unit(parameter_name(parse_osc_path(p))) \in graph
<1> DEFINE q == parse_osc_path(p)
<1>1. p.type \in {"I", "G", "L"} /\ p.device \in {"SAT", "CMP", "EQU"}
  BY ParsedFields
<1>2. p.type = "L" /\ p.device = "EQU"
  BY <1>1, Z1Fields DEF CrossfaderPath, SidePath
<1>3. q.channel_type = "L" /\ q.layer \in Layers /\ q.parameter.device = "Equalizer"
  BY <1>2, ParsedFields
<1> HIDE DEF q
<1>4. Unit(parameter_name(q)) = [chain |-> "L", device |-> "Equalizer",
                                 unit |-> <<"layer", q.layer>>]
  BY <1>3 DEF parameter_name, Unit
<1>5. Unit(parameter_name(q)) \in layer_mixer
  BY <1>3, <1>4 DEF layer_mixer
<1> QED BY <1>5 DEF graph, q

\* Every path on the way is one that a router sends.
Sent ==
  stage # "idle" =>
    Z1Path(path) \/ \E p \in Presses : path = routed(p) /\ routed(p) # Nothing

LEMMA SentNext == Sent /\ [PathNext]_pathVars => Sent'
<1> SUFFICES ASSUME Sent, [PathNext]_pathVars PROVE Sent'
  OBVIOUS
<1>1. CASE Send
  BY <1>1 DEF Send, Sent
<1>2. CASE SendZ1
  <2>1. PICK reports \in Z1Cycles : \E n \in 1 .. Len(reports) : \E i \in reports[n] :
                                      path' = z1_paths[i]
    BY <1>2 DEF SendZ1
  <2>2. reports \in Seq(SUBSET (1 .. 14))
    BY Z1Assumption
  <2>3. PICK n \in 1 .. Len(reports) : \E i \in reports[n] : path' = z1_paths[i]
    BY <2>1
  <2>4. reports[n] \subseteq 1 .. 14
    BY <2>2, ElementOfSeq
  <2> QED BY <2>3, <2>4 DEF Sent, Z1Path
<1>3. CASE Parse
  BY <1>3 DEF Parse, Sent
<1>4. CASE Name
  BY <1>4 DEF Name, Sent
<1>5. CASE Finish
  BY <1>5 DEF Finish, Sent
<1>6. CASE UNCHANGED pathVars
  BY <1>6 DEF pathVars, Sent
<1> QED
  BY <1>1, <1>2, <1>3, <1>4, <1>5, <1>6 DEF PathNext

LEMMA SentExists == Way /\ Sent => ControlExists
<1> SUFFICES ASSUME Way, Sent, control # Nothing PROVE Unit(control) \in graph
  BY DEF ControlExists
<1>1. /\ stage = "named" /\ parsed # Nothing /\ control = parameter_name(parsed)
      /\ parsed = parse_osc_path(path)
  BY DEF Way
<1>2. CASE Z1Path(path)
  BY <1>1, <1>2, SideExists
<1>3. ASSUME NEW p \in Presses, path = routed(p), routed(p) # Nothing
      PROVE  Unit(control) \in graph
  <2>1. CASE p.port = "group channels"
    <3>1. PICK c \in 1 .. 4 : \E q :
            device_short_name(q) = "EQU" /\ path = build_osc_path("G", p.layer, c, q)
      BY <1>3, <2>1, GroupRouted, Zenon
    <3> QED BY <1>1, <3>1, GroupExists, Zenon
  <2>2. CASE p.port = "input channels mix"
    <3>1. routed(p).type = "I"
      BY <2>2 DEF routed, build_osc_path
    <3> QED BY <1>1, <1>3, <3>1, StripExists
  <2>3. CASE p.port = "input channels"
    <3>1. routed(p).type = "I"
      BY <2>3 DEF routed, build_osc_path
    <3> QED BY <1>1, <1>3, <3>1, StripExists
  <2> QED BY <2>1, <2>2, <2>3, PressFields
<1> QED BY <1>1, <1>2, <1>3 DEF Sent

(***************************************************************************)
(* What the parser lets through of what the two routers send is a control  *)
(* of a unit that the Lua script builds: the strips are 1 to 32, of groups *)
(* and of layers only the equalizers are sent.                             *)
(***************************************************************************)
THEOREM ControlsExist == PathSpec => []ControlExists
<1>1. PathInit => Way /\ Sent
  BY DEF PathInit, Way, Sent
<1> QED
  BY <1>1, WayNext, SentNext, SentExists, PTL DEF PathSpec

-----------------------------------------------------------------------------
(* What the parser drops *)

LEMMA NamesOfAll ==
  /\ \A n \in {"level_in", "drive", "blend", "level_out"} : saturator(n) \in all
  /\ \A n \in {"threshold", "ratio", "attack", "release", "makeup", "knee", "mix"} :
       compressor(n) \in all
  /\ \A n \in {"low", "mid", "high", "master", "low_mid", "mid_high"} : equalizer(n) \in all
  /\ none \in all
BY DEF saturator, compressor, equalizer, Saturator, Compressor, Equalizer, ParameterOf, Mapped, all

\* What a control stands for is a parameter of the table.
LEMMA InputParameter ==
  ASSUME NEW cc
  PROVE  find_target_parameter_for_input_channels(cc) \in all
<1> DEFINE table == <<saturator("level_in"), saturator("drive"), saturator("blend"),
                 saturator("level_out"), compressor("threshold"), compressor("ratio"),
                 compressor("attack"), compressor("release"), compressor("makeup"),
                 compressor("knee"), compressor("mix"), none, equalizer("low"),
                 equalizer("mid"), equalizer("high"), equalizer("master"),
                 equalizer("low_mid"), equalizer("mid_high")>>
<1>1. find_target_parameter_for_input_channels(cc) =
        IF cc \in 1 .. Len(table) THEN table[cc] ELSE none
  BY DEF find_target_parameter_for_input_channels
<1>2. table \in Seq(all)
  BY NamesOfAll
<1> HIDE DEF table
<1>3. cc \in 1 .. Len(table) => table[cc] \in all
  BY <1>2, ElementOfSeq
<1> QED BY <1>1, <1>3, NamesOfAll

LEMMA MixParameter ==
  ASSUME NEW cc \in 0 .. 127
  PROVE  find_target_parameter_for_input_mix_channels(cc).parameter \in all
<1> DEFINE row == <<"high", "mid", "low", "master">>
<1>1. \A n \in Nat : row[(n % 4) + 1] \in {"high", "mid", "low", "master"}
  <2> TAKE n \in Nat
  <2>1. (n % 4) + 1 \in 1 .. 4
    OBVIOUS
  <2> DEFINE k == (n % 4) + 1
  <2> HIDE DEF k
  <2>2. \A j \in 1 .. 4 : row[j] \in {"high", "mid", "low", "master"}
    OBVIOUS
  <2> QED BY <2>1, <2>2
<1>2. \A n \in Nat : equalizer(row[(n % 4) + 1]) \in all
  BY <1>1, NamesOfAll
<1>3. CASE cc \in 16 .. 31
  <2>1. find_target_parameter_for_input_mix_channels(cc).parameter =
          equalizer(row[((cc - 16) % 4) + 1])
    BY <1>3 DEF find_target_parameter_for_input_mix_channels
  <2> QED BY <1>2, <1>3, <2>1
<1>4. CASE cc \in 46 .. 61
  <2>1. find_target_parameter_for_input_mix_channels(cc).parameter =
          equalizer(row[((cc - 46) % 4) + 1])
    BY <1>4 DEF find_target_parameter_for_input_mix_channels
  <2> QED BY <1>2, <1>4, <2>1
<1>5. CASE cc \notin 16 .. 31 /\ cc \notin 46 .. 61
  <2>1. find_target_parameter_for_input_mix_channels(cc).parameter = none
    BY <1>5 DEF find_target_parameter_for_input_mix_channels
  <2> QED BY <2>1, NamesOfAll
<1> QED BY <1>3, <1>4, <1>5

LEMMA GroupParameter ==
  ASSUME NEW cc \in 0 .. 127, NEW t \in find_target_parameter_for_group_channels(cc)
  PROVE  t.parameter \in all /\ t.channel \in 1 .. 4
<1>1. PICK first \in {10, 14, 18, 48}, name \in {"high", "mid", "low", "master"} :
        t = [channel |-> cc - first + 1, parameter |-> equalizer(name)]
  BY DEF find_target_parameter_for_group_channels
<1> QED BY <1>1, NamesOfAll, GroupMapped

\* What the router writes: a parameter of the table and a number of two digits.
LEMMA RoutedWritten ==
  ASSUME NEW p \in Presses, routed(p) # Nothing
  PROVE  \E type \in {"I", "G"} : \E n \in 0 .. 99 : \E q \in all :
           routed(p) = build_osc_path(type, p.layer, n, q)
<1>1. p.selected \in 1 .. 16 /\ p.base \in 0 .. 8 /\ p.cc \in 0 .. 127
  BY PressConstants
<1>2. CASE p.port = "group channels"
  <2>1. PICK t \in find_target_parameter_for_group_channels(p.cc) :
          routed(p) = build_osc_path("G", p.layer, t.channel, t.parameter)
    BY <1>2 DEF routed
  <2>2. t.parameter \in all /\ t.channel \in 1 .. 4
    BY <1>1, GroupParameter
  <2>3. t.channel \in 0 .. 99
    BY <2>2
  <2> QED BY <2>1, <2>2, <2>3
<1>3. CASE p.port = "input channels mix"
  <2> DEFINE t == find_target_parameter_for_input_mix_channels(p.cc)
  <2>1. routed(p) = build_osc_path("I", p.layer, p.base + t.channel, t.parameter)
    BY <1>3 DEF routed
  <2>2. t.parameter \in all /\ (t.channel \in 1 .. 8 \/ t.channel = 0)
    BY <1>1, MixParameter, MixMapped
  <2> HIDE DEF t
  <2>3. p.base + t.channel \in 0 .. 99
    BY <1>1, <2>2
  <2> QED BY <2>1, <2>2, <2>3
<1>4. CASE p.port = "input channels"
  <2>1. routed(p) = build_osc_path("I", p.layer, p.selected,
                                   find_target_parameter_for_input_channels(p.cc))
    BY <1>4 DEF routed
  <2>2. p.selected \in 0 .. 99
    BY <1>1
  <2> QED BY <2>1, <2>2, InputParameter
<1> QED BY <1>2, <1>3, <1>4, PressFields

\* A path with a number of two digits and a parameter of the table is let through.
LEMMA LetThrough ==
  ASSUME NEW p, p.type \in {"I", "G", "L"}, p.layer \in Layers,
         NEW n \in 0 .. 99, p.digits = Digits(n),
         NEW q \in all, p.device = device_short_name(q), p.device # "NA", p.name = q.name
  PROVE  parse_osc_path(p) \in ParsedPaths
<1>1. Len(p.digits) \in {1, 2} /\ channel_number(p) = n
  BY DigitsRoundTrip
<1>2. q \in named_parameters(p)
  BY DEF named_parameters
<1> DEFINE r == CHOOSE r \in named_parameters(p) : TRUE
<1>3. parse_osc_path(p) = [channel_type |-> p.type, layer |-> p.layer,
                           channel_id |-> n, parameter |-> r]
  BY <1>1, <1>2 DEF parse_osc_path
<1>4. r \in named_parameters(p)
  BY <1>2
<1> HIDE DEF r
<1>5. r \in all
  BY <1>4 DEF named_parameters
<1> QED BY <1>3, <1>5 DEF ParsedPaths

LEMMA RoutedParses ==
  ASSUME NEW p \in Presses, routed(p) # Nothing
  PROVE  routed(p).device = "NA" \/ parse_osc_path(routed(p)) \in ParsedPaths
<1>1. PICK type \in {"I", "G"}, n \in 0 .. 99, q \in all :
        routed(p) = build_osc_path(type, p.layer, n, q)
  BY RoutedWritten
<1>2. n % 256 = n
  OBVIOUS
<1>3. /\ routed(p).type = type /\ routed(p).layer = p.layer
      /\ routed(p).digits = Digits(n) /\ routed(p).device = device_short_name(q)
      /\ routed(p).name = q.name
  BY <1>1, <1>2 DEF build_osc_path
<1>4. p.layer \in Layers
  BY PressFields
<1> QED BY <1>1, <1>3, <1>4, LetThrough

LEMMA Z1Parses ==
  ASSUME NEW p, Z1Path(p)
  PROVE  p.device \in {"MIX", ""} \/ parse_osc_path(p) \in ParsedPaths
<1>1. CASE CrossfaderPath(p) \/ p.device = "MIX"
  BY <1>1 DEF CrossfaderPath
<1>2. CASE SidePath(p) /\ p.device # "MIX"
  <2>1. /\ p.type = "L" /\ p.layer \in Layers /\ p.digits = <<1>> /\ p.device = "EQU"
        /\ p.name \in {"high", "mid", "low", "master"}
    BY <1>2 DEF SidePath
  <2>2. Digits(1) = <<1>> /\ 1 \in 0 .. 99
    BY DEF Digits
  <2>3. equalizer(p.name) \in all
    BY <2>1, NamesOfAll
  <2>4. device_short_name(equalizer(p.name)) = "EQU" /\ equalizer(p.name).name = p.name
    BY DEF device_short_name, equalizer
  <2> QED BY <2>1, <2>2, <2>3, <2>4, LetThrough
<1> QED BY <1>1, <1>2, Z1Fields

\* What is let through gets a name.
LEMMA ControlNamed ==
  ASSUME NEW r \in ParsedPaths
  PROVE  parameter_name(r) \in ControlNames
<1>1. /\ r.channel_type \in {"I", "G", "L"} /\ r.layer \in Layers
      /\ r.channel_id \in Nat /\ r.parameter \in all
  BY DEF ParsedPaths
<1>2. device_number(r) \in Nat
  BY <1>1 DEF device_number
<1>3. CASE r.channel_type = "I"
  BY <1>1, <1>2, <1>3 DEF parameter_name, ControlNames
<1>4. CASE r.channel_type = "G"
  BY <1>1, <1>4 DEF parameter_name, ControlNames
<1>5. CASE r.channel_type = "L"
  BY <1>1, <1>5 DEF parameter_name, ControlNames
<1> QED BY <1>1, <1>3, <1>4, <1>5

\* The name is made of what was parsed.
Named ==
  stage = "named" => control = IF parsed = Nothing THEN Nothing ELSE parameter_name(parsed)

LEMMA NamedNext == Named /\ [PathNext]_pathVars => Named'
BY DEF Named, PathNext, pathVars, Send, SendZ1, Parse, Name, Finish

LEMMA NamedDropped == Way /\ Sent /\ Named => OnlyUnmappedDropped
<1> SUFFICES ASSUME Way, Sent, Named, stage = "named", control = Nothing, path # Nothing,
                    ~ (moved # Nothing /\ Eclipsed(moved))
             PROVE  \/ path.device = "NA"
                    \/ press = Nothing /\ path.device \in {"MIX", ""}
  BY DEF OnlyUnmappedDropped
<1>1. parse_osc_path(path) \notin ParsedPaths
  <2>1. parsed = parse_osc_path(path)
    BY DEF Way
  <2>2. ASSUME parsed \in ParsedPaths PROVE FALSE
    <3>1. parsed # Nothing /\ parameter_name(parsed) # Nothing
      BY <2>2, ControlNamed, NothingAssumption
    <3> QED BY <3>1 DEF Named
  <2> QED BY <2>1, <2>2
<1>2. CASE press # Nothing
  <2>1. press \in Presses /\ path = routed(press) /\ routed(press) # Nothing
    BY <1>2 DEF Way
  <2> QED BY <1>1, <2>1, RoutedParses
<1>3. CASE press = Nothing
  <2>1. CASE Z1Path(path)
    BY <1>1, <1>3, <2>1, Z1Parses
  <2>2. CASE \E p \in Presses : path = routed(p) /\ routed(p) # Nothing
    BY <1>1, <2>2, RoutedParses
  <2> QED BY <2>1, <2>2 DEF Sent
<1> QED BY <1>2, <1>3

(***************************************************************************)
(* What is dropped between the routers and the filter graph are the        *)
(* controls that are not mapped; of the Traktor Z1 the gains, effects and  *)
(* crossfaders, and what moved together with another control of the Z1,    *)
(* after it in the report or behind such a report in the cycle.  This is   *)
(* so whatever the banks, the strips in use and the reports are: every     *)
(* number has at most two digits and every mapped control stands for a     *)
(* parameter that the parser knows by the short name the router writes.    *)
(***************************************************************************)
THEOREM MappedArrive == PathSpec => []OnlyUnmappedDropped
<1>1. PathInit => Way /\ Sent /\ Named
  BY DEF PathInit, Way, Sent, Named
<1> QED BY <1>1, WayNext, SentNext, NamedNext, NamedDropped, PTL DEF PathSpec
=============================================================================
