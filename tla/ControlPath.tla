------------------------------ MODULE ControlPath ------------------------------
(***************************************************************************)
(* The way of one control from the key to the filter graph, through four   *)
(* tables that are kept apart: pmx-midi-router looks a MIDI control change *)
(* up in a table per port and writes an OSC path, or pmx-traktor-z1-router *)
(* sends one of its fixed paths; pmx-filter-chain-ctrl parses the path and *)
(* composes the name of a control; the filter graphs are built by a Lua    *)
(* script, with their own names.                                           *)
(*                                                                         *)
(* A path is a record: the number is kept as its decimal digits, because   *)
(* the parser reads at fixed offsets; the rest are whole words.            *)
(***************************************************************************)
EXTENDS Integers, Sequences

CONSTANTS ControlChanges,    \* the CC numbers that arrive: 0 .. 127
          BaseChannels,      \* the bank: 0 and 8, unless the parameter is set from outside
          SelectedChannels,  \* the selected strip: 1 .. 16, unless likewise
          ControlValues,     \* control values, 32 bits in two halves
          Z1Cycles,          \* the Z1's reports of a cycle: for each which controls moved
          Nothing               \* nothing: dropped, or not there yet

ASSUME ControlPathAssumption ==
  /\ ControlChanges \subseteq 0 .. 127
  /\ BaseChannels \subseteq 0 .. 8
  /\ SelectedChannels \subseteq 1 .. 16

ASSUME Z1Assumption == Z1Cycles \subseteq Seq(SUBSET (1 .. 14))

ASSUME ControlValuesAssumption ==
  ControlValues \subseteq (0 .. 65535) \X (0 .. 65535)

Layers == {"A", "B"}

VARIABLES stage,     \* "idle", "sent", "parsed", "named"
          press,     \* the control change that was routed, Nothing if it is the Z1's
          moved,     \* the control of the Z1 that moved, and the reports it came with
          path,      \* the OSC path it is sent with
          value,     \* the share of the parameter's range it is sent with
          parsed,    \* what the parser made of the path
          control    \* the control of a filter graph that is written

pathVars == <<stage, press, moved, path, value, parsed, control>>

-----------------------------------------------------------------------------
(* The parameters of a strip *)

ParameterOf(device, names) == {[device |-> device, name |-> n] : n \in names}

\* The entry of the table for what is not mapped.
none == [device |-> "none", name |-> "none"]

Saturator == ParameterOf("Saturator", {"level_in", "drive", "blend", "level_out"})
Compressor == ParameterOf("Compressor",
  {"threshold", "ratio", "attack", "release", "makeup", "knee", "mix"})
Equalizer == ParameterOf("Equalizer",
  {"low", "mid", "high", "master", "low_mid", "mid_high"})

Mapped == Saturator \union Compressor \union Equalizer
all == Mapped \union {none}

\* The short name of the unmapped parameter has two letters, the others have three.
device_short_name(p) ==
  CASE p.device = "Saturator" -> "SAT"
    [] p.device = "Compressor" -> "CMP"
    [] p.device = "Equalizer" -> "EQU"
    [] OTHER -> "NA"

equalizer(n) == [device |-> "Equalizer", name |-> n]
saturator(n) == [device |-> "Saturator", name |-> n]
compressor(n) == [device |-> "Compressor", name |-> n]

-----------------------------------------------------------------------------
(* pmx-midi-router *)

\* Mutant: five groups to a row of four.
five_to_a_row(cc) ==
  {[channel |-> cc - row[1] + 1, parameter |-> equalizer(row[2])] :
     row \in {r \in {<<10, "high">>, <<14, "mid">>, <<18, "low">>, <<48, "master">>} :
                 r[1] <= cc /\ cc <= r[1] + 4}}

\* Four groups to a row: the rows start at 10, 14, 18 and 48.  Empty: not mapped.
find_target_parameter_for_group_channels(cc) ==
  {[channel |-> cc - row[1] + 1, parameter |-> equalizer(row[2])] :
     row \in {r \in {<<10, "high">>, <<14, "mid">>, <<18, "low">>, <<48, "master">>} :
                 r[1] <= cc /\ cc < r[1] + 4}}

\* Four controls to a strip, strips 1 to 4 from 16 on and 5 to 8 from 46 on.
find_target_parameter_for_input_mix_channels(cc) ==
  LET knob(n) == equalizer(<<"high", "mid", "low", "master">>[(n % 4) + 1])
  IN  IF cc \in 16 .. 31 THEN [channel |-> (cc - 16) \div 4 + 1, parameter |-> knob(cc - 16)]
      ELSE IF cc \in 46 .. 61
        THEN [channel |-> (cc - 46) \div 4 + 5, parameter |-> knob(cc - 46)]
      ELSE [channel |-> 0, parameter |-> none]

\* The controls of the selected strip, one after the other.
find_target_parameter_for_input_channels(cc) ==
  LET table == <<saturator("level_in"), saturator("drive"), saturator("blend"),
                 saturator("level_out"), compressor("threshold"), compressor("ratio"),
                 compressor("attack"), compressor("release"), compressor("makeup"),
                 compressor("knee"), compressor("mix"), none, equalizer("low"),
                 equalizer("mid"), equalizer("high"), equalizer("master"),
                 equalizer("low_mid"), equalizer("mid_high")>>
  IN  IF cc \in 1 .. Len(table) THEN table[cc] ELSE none

\* The decimal digits of a byte.
Digits(n) ==
  IF n < 10 THEN <<n>>
  ELSE IF n < 100 THEN <<n \div 10, n % 10>>
  ELSE <<n \div 100, (n \div 10) % 10, n % 10>>

build_osc_path(type, layer, channel, parameter) ==
  [type |-> type, layer |-> layer, digits |-> Digits(channel % 256),
   device |-> device_short_name(parameter), name |-> parameter.name]

\* What the router sends for a control change, Nothing when it sends nothing.
routed(p) ==
  CASE p.port = "group channels" /\ p.cc = 64 -> Nothing
    [] p.port = "group channels" /\ p.cc # 64 ->
         LET found == find_target_parameter_for_group_channels(p.cc)
         IN  IF found = {} THEN Nothing
             ELSE LET t == CHOOSE t \in found : TRUE
                  IN  build_osc_path("G", p.layer, t.channel, t.parameter)
    [] p.port = "input channels mix" ->
         LET t == find_target_parameter_for_input_mix_channels(p.cc)
         IN  build_osc_path("I", p.layer, p.base + t.channel, t.parameter)
    [] p.port = "input channels" ->
         build_osc_path("I", p.layer, p.selected,
                        find_target_parameter_for_input_channels(p.cc))

Full == <<65535, 65535>>

\* The share of the range from min to max, as a fraction.
interpolate(v) == [numerator |-> v, denominator |-> Full]

-----------------------------------------------------------------------------
(* pmx-traktor-z1-router *)

side_path(layer, device, name) ==
  [type |-> "L", layer |-> layer, digits |-> <<1>>, device |-> device, name |-> name]

\* The two crossfaders have no channel at all.
crossfader_path(name) ==
  [type |-> "c", layer |-> "", digits |-> << >>, device |-> "", name |-> name]

\* The paths of the mixer's controls, in the order of the array of changes.
z1_paths ==
  <<side_path("A", "MIX", "fx_gain"), side_path("A", "EQU", "high"),
    side_path("A", "EQU", "mid"), side_path("A", "EQU", "low"),
    side_path("A", "MIX", "fx_mix"),
    side_path("B", "MIX", "fx_gain"), side_path("B", "EQU", "high"),
    side_path("B", "EQU", "mid"), side_path("B", "EQU", "low"),
    side_path("B", "MIX", "fx_mix"),
    crossfader_path("cue_mix"),
    side_path("A", "EQU", "master"), side_path("B", "EQU", "master"),
    crossfader_path("cross_fader")>>

\* All changes of a report are written after one control header, that of the first
\* one.  The bytes of the next have none of their own: read as a control they exceed
\* the sequence, and its reader stops there, before the reports that follow.
Several(report) == \E i, j \in report : i # j

Eclipsed(m) ==
  \/ \E i \in m.reports[m.report] : i < m.control
  \/ \E r \in 1 .. m.report - 1 : Several(m.reports[r])

-----------------------------------------------------------------------------
(* pmx-filter-chain-ctrl *)

\* One digit or two; a third one is where the device should be.
channel_number(p) ==
  IF Len(p.digits) = 1 THEN p.digits[1] ELSE 10 * p.digits[1] + p.digits[2]

\* Mutant: the long name of the device is expected.
by_device_name(p) == {q \in all : q.device = p.device /\ q.name = p.name}

\* The parameter the rest of the path names; the device takes three letters.
named_parameters(p) ==
  {q \in all : /\ device_short_name(q) # "NA"
               /\ device_short_name(q) = p.device /\ q.name = p.name}

parse_osc_path(p) ==
  IF \/ p.type \notin {"I", "G", "L"} \/ p.layer \notin Layers
     \/ Len(p.digits) \notin {1, 2} \/ named_parameters(p) = {}
    THEN Nothing
    ELSE [channel_type |-> p.type, layer |-> p.layer, channel_id |-> channel_number(p),
          parameter |-> CHOOSE q \in named_parameters(p) : TRUE]

\* Mutant: the strips of layer B are counted from their own first one.
no_offset(p) == p.channel_id

\* The strips of layer B follow those of layer A in one graph.
device_number(p) == IF p.layer = "A" THEN p.channel_id ELSE 16 + p.channel_id

\* The control of a filter graph: chain, unit and control.
parameter_name(p) ==
  [chain |-> IF p.channel_type # "G" THEN p.channel_type
             ELSE IF p.layer = "A" THEN "groupA" ELSE "groupB",
   device |-> p.parameter.device,
   unit |-> CASE p.channel_type = "I" -> <<"strip", device_number(p)>>
              [] p.channel_type = "G" -> <<"group", p.channel_id>>
              [] p.channel_type = "L" -> <<"layer", p.layer>>,
   name |-> p.parameter.name]

\* What a path is parsed to, and what the name of a control is composed of.
ParsedPaths ==
  [channel_type : {"I", "G", "L"}, layer : Layers, channel_id : Nat, parameter : all]

ControlNames ==
  [chain : {"I", "groupA", "groupB", "L"}, device : {q.device : q \in all},
   unit : {"strip", "group", "layer"} \X (Nat \union Layers), name : {q.name : q \in all}]

ASSUME NothingAssumption == Nothing \notin ParsedPaths \union ControlNames

-----------------------------------------------------------------------------
(* The filter graphs *)

\* The units of each graph: which devices it has under which numbers.
input_channels ==
  [chain : {"I"}, device : {"Saturator", "Compressor", "Equalizer"},
   unit : {"strip"} \X (1 .. 32)]

group_channels ==
  [chain : {"groupA", "groupB"}, device : {"Compressor", "Equalizer"},
   unit : {"group"} \X (1 .. 4)]

layer_mixer ==
  [chain : {"L"}, device : {"Compressor", "Equalizer"}, unit : {"layer"} \X Layers]

graph == input_channels \union group_channels \union layer_mixer

Unit(c) == [chain |-> c.chain, device |-> c.device, unit |-> c.unit]

-----------------------------------------------------------------------------
Presses ==
  [port : {"group channels", "input channels mix", "input channels"},
   cc : ControlChanges, layer : Layers, base : BaseChannels, selected : SelectedChannels]

Send ==
  /\ stage = "idle"
  /\ \E p \in Presses : \E v \in ControlValues :
       /\ routed(p) # Nothing
       /\ press' = p
       /\ path' = routed(p)
       /\ value' = interpolate(v)
  /\ stage' = "sent" /\ moved' = Nothing /\ parsed' = Nothing /\ control' = Nothing

\* One of the changes that a cycle finds in the reports of the Z1.
SendZ1 ==
  /\ stage = "idle"
  /\ \E reports \in Z1Cycles : \E n \in 1 .. Len(reports) : \E i \in reports[n] :
       /\ moved' = [reports |-> reports, report |-> n, control |-> i]
       /\ path' = z1_paths[i]
  /\ stage' = "sent" /\ press' = Nothing /\ value' = Nothing
  /\ parsed' = Nothing /\ control' = Nothing

Parse ==
  /\ stage = "sent"
  /\ parsed' = IF moved # Nothing /\ Eclipsed(moved) THEN Nothing ELSE parse_osc_path(path)
  /\ stage' = "parsed"
  /\ UNCHANGED <<press, moved, path, value, control>>

Name ==
  /\ stage = "parsed"
  /\ control' = IF parsed = Nothing THEN Nothing ELSE parameter_name(parsed)
  /\ stage' = "named"
  /\ UNCHANGED <<press, moved, path, value, parsed>>

\* The control is written, or the message was dropped; the next one may come.
Finish ==
  /\ stage = "named"
  /\ stage' = "idle" /\ press' = Nothing /\ moved' = Nothing /\ path' = Nothing /\ value' = Nothing
  /\ parsed' = Nothing /\ control' = Nothing

PathInit ==
  /\ stage = "idle" /\ press = Nothing /\ moved = Nothing /\ path = Nothing /\ value = Nothing
  /\ parsed = Nothing /\ control = Nothing

PathNext == Send \/ SendZ1 \/ Parse \/ Name \/ Finish

PathSpec == PathInit /\ [][PathNext]_pathVars

-----------------------------------------------------------------------------
(***************************************************************************)
(* Every control the parser lets through exists: its name is the name of a *)
(* unit in the filter graph that the Lua script builds, for every path     *)
(* that the two routers can send.                                          *)
(***************************************************************************)
ControlExists == control # Nothing => Unit(control) \in graph

\* The strip a press is meant for: the selected one, or the one the control stands for.
Strip(p) ==
  [layer |-> p.layer,
   number |-> IF p.port = "input channels" THEN p.selected
              ELSE p.base + find_target_parameter_for_input_mix_channels(p.cc).channel]

(***************************************************************************)
(* A control of an input strip never lands on another strip: strips 1 to   *)
(* 16 of the graph are layer A's and 17 to 32 are layer B's.               *)
(***************************************************************************)
RightStrip ==
  (control # Nothing /\ press # Nothing /\ control.chain = "I") =>
     \E n \in 1 .. 32 :
       /\ control.unit = <<"strip", n>>
       /\ Strip(press) = [layer |-> IF n <= 16 THEN "A" ELSE "B",
                          number |-> IF n <= 16 THEN n ELSE n - 16]

(***************************************************************************)
(* What is dropped on the way are the unmapped controls; of the Traktor Z1 *)
(* the gains, effects and crossfaders, as the parser knows no such device; *)
(* and what moved together with another control of the Z1: after it in the *)
(* same report, or in a later report of a cycle in which two moved in one. *)
(***************************************************************************)
OnlyUnmappedDropped ==
  (stage = "named" /\ control = Nothing /\ path # Nothing) =>
     \/ path.device = "NA"
     \/ press = Nothing /\ path.device \in {"MIX", ""}
     \/ moved # Nothing /\ Eclipsed(moved)

(***************************************************************************)
(* "interpolate(parameter, 127)" is expected to be the parameter's maximum *)
(* (test/unit/test_interpolation.cpp:10).                                  *)
(***************************************************************************)
MaximumAt127 ==
  (value # Nothing /\ value.numerator = <<0, 127>>) => value.numerator = value.denominator
=============================================================================
