--------------------------------- MODULE SlpCtrl ---------------------------------
(***************************************************************************)
(* The signal processor of pmx-slp-ctrl, which controls SooperLooper from  *)
(* a Launchpad: what it remembers, what it takes from the reports of the   *)
(* looper and from the pads, and what it sends to both.  A pad or a report *)
(* of a loop is known by the number of the loop.  The lights that follow   *)
(* the MIDI clock are left out.                                            *)
(***************************************************************************)
EXTENDS Integers, Sequences, SequencesExt

CONSTANTS Loops,        \* the loops of the group channels: 0 .. 7
          Eighth,       \* the global parameter eighth_per_cycle
          MaxPackets    \* OSC packets parsed per cycle at most: 16

ASSUME PacketsAssumption == MaxPackets \in Nat

VARIABLES
  states,                  \* sooper_loopers: the state of each loop
  known_eighth_per_cycle

slp == <<states, known_eighth_per_cycle>>

Keys == Loops \union {Eighth}

WantedEighth == 64

-----------------------------------------------------------------------------
(* Reports <<key, value>> of the looper *)

StateNames == <<"Off", "WaitStart", "Recording", "WaitStop", "Playing", "Overdubbing",
                "Multiplying", "Inserting", "Replacing", "Delay", "Muted", "Scratching",
                "OneShot", "Substitute", "Paused">>

translate_state(code) == IF code \in 0 .. 14 THEN StateNames[code + 1] ELSE "Unknown"

\* parse_osc<16>: what lies behind the last place is not looked at.
Parsed(packets) ==
  SubSeq(packets, 1, IF Len(packets) < MaxPackets THEN Len(packets) ELSE MaxPackets)

\* A report of a loop beyond the last one is ignored.
Apply(heard, report) ==
  [states |-> [l \in Loops |-> IF report[1] = l THEN translate_state(report[2])
                                                ELSE heard.states[l]],
   eighth |-> IF report[1] = Eighth THEN report[2] ELSE heard.eighth]

\* The reports of a cycle, the states after them in their order.
Hear(packets) ==
  LET After[k \in 0 .. Len(Parsed(packets))] ==
        IF k = 0 THEN [states |-> states, eighth |-> known_eighth_per_cycle]
                 ELSE Apply(After[k - 1], packets[k])
  IN  After[Len(Parsed(packets))]

-----------------------------------------------------------------------------
(* To the looper: a hit for each pad that was pressed, and the wanted      *)
(* eighth_per_cycle as long as another one is known.                       *)

\* Mutant: the parameter is set when it is right.
SetsWhenRight(pressed, eighth) == [hits |-> pressed, set |-> eighth = WantedEighth]

Commands(pressed, eighth) == [hits |-> pressed, set |-> eighth # WantedEighth]

-----------------------------------------------------------------------------
(* To the Launchpad: lights as <<channel, colour>>, channel 2 pulses *)

Colour == [Off |-> <<0, 45>>, WaitStart |-> <<2, 9>>, Recording |-> <<0, 5>>,
           WaitStop |-> <<2, 7>>, Playing |-> <<0, 23>>]

\* A loop in any other state gets no message.
LoopLights(sts) == [l \in {l \in Loops : sts[l] \in DOMAIN Colour} |-> Colour[sts[l]]]

\* Mutant: the number of bytes is always six.
AlwaysSix(type, bytes) ==
  [type |-> type, size |-> 6, data |-> [i \in 1 .. 6 |-> IF i <= Len(bytes) THEN bytes[i] ELSE 0]]

\* One to six bytes, filled up with zeros.
create_8_byte_message(type, bytes) ==
  [type |-> type, size |-> Len(bytes),
   data |-> [i \in 1 .. 6 |-> IF i <= Len(bytes) THEN bytes[i] ELSE 0]]

\* The layout of the faders: index, type, control and colour of each.  Then the device is
\* switched to it.
FaderSetup ==
  << create_8_byte_message("start", <<0, 32, 41, 2, 13, 1>>),
     create_8_byte_message("continue", <<0, 1, 0, 1, 1, 42>>),
     create_8_byte_message("continue", <<1, 1, 2, 42, 2>>),
     create_8_byte_message("continue", <<1, 3, 42, 3, 1, 4>>),
     create_8_byte_message("continue", <<42, 4, 1, 5, 49, 5>>),
     create_8_byte_message("continue", <<1, 9, 49, 6, 1, 7>>),
     create_8_byte_message("end", <<49, 7, 1, 8, 49>>) >>

-----------------------------------------------------------------------------
(* From the Launchpad in the mixer layout: the first words that are known *)

FaderWords == <<1085538560, 1085538816, 1085539072, 1085539328, 1085539584,
                1085540608, 1085540096, 1085540352>>

-----------------------------------------------------------------------------
SlpInit ==
  /\ states = [l \in Loops |-> "Off"]
  /\ known_eighth_per_cycle = WantedEighth

SlpTypeOK == states \in [Loops -> Range(StateNames) \union {"Unknown"}]
=============================================================================
