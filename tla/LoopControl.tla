------------------------------- MODULE LoopControl -------------------------------
(***************************************************************************)
(* Loops played from the Launchpad: the looper reports its states in UDP   *)
(* datagrams to pmx-osc-network-receiver, which hands them to              *)
(* pmx-slp-ctrl in the graph's cycles; that lights the pads of the device  *)
(* that pmx-lp-mini-init has prepared, and sends commands to the looper.   *)
(*                                                                         *)
(* External: SooperLooper reports every change of a value it was           *)
(* registered for and nothing else; PipeWire gives a client a buffer or    *)
(* not and forgets the events of a cycle that nobody reads; a Launchpad    *)
(* sends and shows loops in its session layout only; a command may be      *)
(* lost on its way to the looper.                                          *)
(***************************************************************************)
EXTENDS NetworkReceiver, LpMiniInit, SlpCtrl, FiniteSets

CONSTANTS Codes,      \* of the states the looper takes
          Eighths,    \* values eighth_per_cycle takes in the looper
          MaxChanges  \* bound: changes of the looper's values

ASSUME LoopControlAssumption ==
  /\ Reports = (Loops \X Codes) \union ({Eighth} \X Eighths)
  /\ IsFiniteSet(Loops) /\ Eighth \notin Loops
  /\ 0 \in Codes /\ WantedEighth \in Eighths /\ MaxChanges \in Nat

VARIABLES
  looper,     \* the value of each key in SooperLooper
  commands,   \* on their way to it
  lights,     \* what the pads of the loops show: a colour or Dark
  faders,     \* the layout of the faders the device was given
  changes,
  \* history
  missed,     \* keys whose newest report was lost
  shown       \* the lights were sent since the states last changed, and no pad was
              \* overwritten since

looper_vars == <<looper, commands, changes>>
pads == <<lights, faders, shown>>
vars == <<receiver, lp_vars, slp, looper_vars, pads, missed>>

Dark == <<0, 0>>
NoCommands == [hits |-> {}, set |-> FALSE]

\* Keys reported in a sequence of reports.
Reported(reports) == {reports[i][1] : i \in DOMAIN reports}

-----------------------------------------------------------------------------
(* SooperLooper *)

\* The value of a key changes and is reported.
Change(k, v) ==
  /\ changes < MaxChanges /\ looper[k] # v
  /\ changes' = changes + 1
  /\ looper' = [looper EXCEPT ![k] = v]
  /\ Arrive(<<k, v>>)
  /\ missed' = IF Accepts THEN missed \ {k} ELSE missed \union {k}

\* A hit of record takes a loop on; what its next state is depends on its synchronisation.
TakeHit(l) ==
  /\ l \in commands.hits
  /\ commands' = [commands EXCEPT !.hits = @ \ {l}]
  /\ \E c \in Codes : Change(l, c)
  /\ UNCHANGED <<queue, thread, main, is_running, lp_vars, slp, pads>>

\* Setting the value it has is no change.
TakeSet ==
  /\ commands.set
  /\ commands' = [commands EXCEPT !.set = FALSE]
  /\ IF looper[Eighth] = WantedEighth
       THEN UNCHANGED <<looper, changes, socket, missed>>
       ELSE /\ looper' = [looper EXCEPT ![Eighth] = WantedEighth]
            /\ Arrive(<<Eighth, WantedEighth>>)
            /\ missed' = IF Accepts THEN missed \ {Eighth} ELSE missed \union {Eighth}
            /\ UNCHANGED changes
  /\ UNCHANGED <<queue, thread, main, is_running, lp_vars, slp, pads>>

\* Bound: loops are played when the device has been prepared.
Prepared == task = "SetupInitialSessionState" /\ sent = "recently"

\* Another client of the looper sets the parameter.
OtherSet ==
  /\ Prepared
  /\ \E v \in Eighths : Change(Eighth, v)
  /\ UNCHANGED <<queue, thread, main, is_running, commands, lp_vars, slp, pads>>

LoseCommands ==
  /\ commands # NoCommands
  /\ commands' = NoCommands
  /\ UNCHANGED <<receiver, lp_vars, slp, looper, changes, pads, missed>>

-----------------------------------------------------------------------------
(* The graph: the receiver's signal processor, then the one of slp_ctrl *)

\* What the receiver's signal processor takes from its queue, while the application runs.
Given(out) == IF main = "run" THEN Popped(out) ELSE << >>

\* What slp_ctrl hears of it.
Heard(out, in) == Hear(IF in THEN Given(out) ELSE << >>)

\* The keys whose newest report is lost in this cycle.
LostInCycle(out, in) ==
  LET packets == Given(out)
      taken == IF in THEN Len(Parsed(packets)) ELSE 0
  IN  Reported(SubSeq(packets, taken + 1, Len(packets))) \ Reported(socket)

Lit == connected /\ mode = "session"

\* Available buffers, and what comes with the others: pads pressed, the mixer's key.
GraphCycle(buffers, pressed, mixer) ==
  LET heard == Heard("receiver" \in buffers, "osc in" \in buffers) IN
  /\ pressed # {} => Lit /\ Prepared /\ changes < MaxChanges
  /\ mixer => Lit /\ Prepared
  /\ IF main = "run" THEN Drain("receiver" \in buffers) ELSE UNCHANGED receiver
  /\ states' = heard.states /\ known_eighth_per_cycle' = heard.eighth
  /\ missed' = missed \union LostInCycle("receiver" \in buffers, "osc in" \in buffers)
  /\ commands' = IF "osc out" \in buffers
       THEN LET new == Commands(pressed, known_eighth_per_cycle') IN
            [hits |-> commands.hits \union new.hits, set |-> commands.set \/ new.set]
       ELSE commands
  /\ IF "lp out" \in buffers /\ Lit
       THEN /\ lights' = [l \in Loops |->
                IF l \in DOMAIN LoopLights(states') THEN LoopLights(states')[l] ELSE lights[l]]
            /\ shown' = TRUE
       ELSE /\ UNCHANGED lights
            /\ shown' = (shown /\ UNCHANGED states)
  /\ IF mixer /\ "lp out" \in buffers
       THEN mode' = "mixer" /\ faders' = FaderSetup
       ELSE UNCHANGED <<mode, faders>>
  /\ UNCHANGED <<initializer, connected, firmware, asked, answers, replugged, looper, changes>>

\* The process dies; it is started again and knows nothing of the looper.
CrashSlpCtrl ==
  /\ states' = [l \in Loops |-> "Off"] /\ known_eighth_per_cycle' = WantedEighth
  /\ shown' = FALSE
  /\ missed' = missed \union (Keys \ (Reported(queue) \union Reported(socket)))
  /\ UNCHANGED <<receiver, lp_vars, looper_vars, lights, faders>>

-----------------------------------------------------------------------------
(* The receiver's threads *)

\* A full queue loses the newest report of its key, if none waits in the socket.
ReceiveReport ==
  /\ Receive
  /\ missed' = missed \union
       (IF Refuses THEN {Head(socket)[1]} \ Reported(Tail(socket)) ELSE {})
  /\ UNCHANGED <<lp_vars, slp, looper_vars, pads>>

ReceiverRuns ==
  \/ ReceiveReport
  \/ /\ Test
     /\ missed' = missed \union (IF is_running THEN {} ELSE Reported(socket))
     /\ UNCHANGED <<lp_vars, slp, looper_vars, pads>>
  \/ /\ Join
     /\ missed' = missed \union Reported(queue)
     /\ UNCHANGED <<lp_vars, slp, looper_vars, pads>>

\* Nobody empties the queue any more.  Bound: the receiver ends after the last change and with
\* no command on its way.
ReceiverQuits ==
  /\ changes = MaxChanges /\ commands = NoCommands
  /\ Quit
  /\ missed' = missed \union Reported(queue) \union Reported(socket)
  /\ UNCHANGED <<lp_vars, slp, looper_vars, pads>>

-----------------------------------------------------------------------------
(* lp_mini_init and the device; a device that was away has forgotten its lights *)

\* The message of the last task reaches the device: note 81 off.
FirstPadOff == task = "SetupInitialSessionState" /\ sent' # sent /\ Lit

\* Note 81 is the pad of the first loop: it is wrong until slp_ctrl sends the lights again.
OthersInInitializerCycle ==
  /\ lights' = [l \in Loops |-> IF FirstPadOff /\ l = 0 THEN Dark ELSE lights[l]]
  /\ shown' = (shown /\ mode' = mode /\ ~FirstPadOff)
  /\ UNCHANGED <<receiver, slp, looper_vars, faders, missed>>

InitializerCycle == AnyInitCycle /\ OthersInInitializerCycle

OthersWhileWaiting == UNCHANGED <<receiver, slp, looper_vars, pads, missed>>

UnplugDevice ==
  /\ Unplug
  /\ lights' = [l \in Loops |-> Dark] /\ faders' = << >> /\ shown' = FALSE
  /\ UNCHANGED <<receiver, slp, looper_vars, missed>>

PlugDevice == Plug /\ OthersWhileWaiting

-----------------------------------------------------------------------------
Init ==
  /\ ReceiverInit /\ LpInit /\ SlpInit
  /\ looper = [k \in Keys |-> IF k = Eighth THEN WantedEighth ELSE 0]
  /\ commands = NoCommands /\ changes = 0
  /\ lights = [l \in Loops |-> Dark] /\ faders = << >>
  /\ missed = {} /\ shown = FALSE

AllBuffers == {"receiver", "osc in", "osc out", "lp out"}

SomeCycle ==
  \E buffers \in SUBSET AllBuffers, pressed \in SUBSET Loops, mixer \in BOOLEAN :
    GraphCycle(buffers, pressed, mixer)

Looper == (\E l \in Loops : TakeHit(l)) \/ TakeSet \/ OtherSet \/ LoseCommands

Receiver == ReceiverRuns \/ ReceiverQuits

Launchpad ==
  \/ InitializerCycle
  \/ (Elapse \/ Answer) /\ OthersWhileWaiting
  \/ UnplugDevice \/ PlugDevice

Next == Looper \/ SomeCycle \/ CrashSlpCtrl \/ Receiver \/ Launchpad

Spec == Init /\ [][Next]_vars

(***************************************************************************)
(* The receiver's threads run on.  Again and again the graph has a cycle   *)
(* with all buffers, a command reaches the looper and the packets of a     *)
(* whole answer are read in one cycle.  The device answers.                *)
(***************************************************************************)
FairSpec ==
  /\ Spec
  /\ WF_vars(ReceiverRuns)
  /\ WF_vars(GraphCycle(AllBuffers, {}, FALSE))
  /\ SF_vars(TakeSet)
  /\ WF_vars(InitCycle(TRUE, TRUE, 0) /\ OthersInInitializerCycle)
  /\ SF_vars(ReadAnswer /\ OthersInInitializerCycle)
  /\ WF_vars(Elapse /\ OthersWhileWaiting)
  /\ WF_vars(Answer /\ OthersWhileWaiting)

-----------------------------------------------------------------------------
TypeOK ==
  /\ ReceiverTypeOK /\ LpTypeOK /\ SlpTypeOK
  /\ looper \in [Keys -> Codes \union Eighths] /\ known_eighth_per_cycle \in Eighths
  /\ commands \in [hits : SUBSET Loops, set : BOOLEAN]
  /\ lights \in [Loops -> Range(Colour) \union {Dark}]
  /\ faders \in {<< >>, FaderSetup} /\ (mode = "mixer" => faders # << >>)
  /\ changes \in 0 .. MaxChanges
  /\ missed \subseteq Keys /\ shown \in BOOLEAN

-----------------------------------------------------------------------------
(***************************************************************************)
(* When no report is on its way, the lights have been sent and no other    *)
(* message has come to a pad since, a pad shows the state its loop has in  *)
(* the looper: whatever came together in a cycle and whatever was lost     *)
(* before the newest report of the loop.  If that one was lost, at the     *)
(* socket, at the queue, behind the sixteenth packet, for want of a        *)
(* buffer, in a crash of slp_ctrl or when the receiver ended, the pad is   *)
(* wrong until the loop changes again.                                     *)
(***************************************************************************)
LightsTruthful ==
  (socket = << >> /\ queue = << >> /\ shown /\ Lit) =>
    \A l \in Loops \ missed :
      translate_state(looper[l]) \in DOMAIN Colour =>
        lights[l] = Colour[translate_state(looper[l])]

\* A device joins the bytes of a message's packets, each of the length it gives.
Joined(messages) ==
  FlattenSeq([i \in DOMAIN messages |-> SubSeq(messages[i].data, 1, messages[i].size)])

\* The control of a fader: after six bytes of header and two of the page four for each fader.
FaderControl(k) == Joined(faders)[8 + 4 * (k - 1) + 3]

\* A control change of the fader's channel.
FaderWord(k) == 1085538304 + 256 * FaderControl(k)

(***************************************************************************)
(* In the mixer's layout each fader sends the word under which slp_ctrl    *)
(* knows it: the layout is cut into seven messages of five and six bytes   *)
(* and joined by the device, and the sixth fader has another control than  *)
(* its number.                                                             *)
(***************************************************************************)
FadersAgree == mode = "mixer" => \A k \in 1 .. 8 : FaderWord(k) = FaderWords[k]

(***************************************************************************)
(* When slp_ctrl has heard of another eighth_per_cycle the looper gets the *)
(* wanted one back, although commands are lost: it is sent in every cycle  *)
(* until the looper reports it.  The exception: the newest report, or what *)
(* slp_ctrl knew of it, was lost.                                          *)
(***************************************************************************)
EighthRestored ==
  known_eighth_per_cycle # WantedEighth ~> looper[Eighth] = WantedEighth \/ Eighth \in missed

(***************************************************************************)
(* Told to end, the receiver ends as soon as one more datagram arrives;    *)
(* its thread looks at the flag only then.                                 *)
(***************************************************************************)
EndsWithNextDatagram == main = "join" /\ socket # << >> ~> main = "ended"
=============================================================================
