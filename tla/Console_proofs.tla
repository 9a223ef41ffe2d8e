------------------------------ MODULE Console_proofs ------------------------------
(***************************************************************************)
(* Theorems about Console, for any number of callers and of events: what   *)
(* the two mutexes of wpcpp::Metadata do for its callers, that the two     *)
(* atomics of send keep questions and answers together, and what the       *)
(* commands say of lists from which nothing is removed.                    *)
(***************************************************************************)
EXTENDS Console, SequenceTheorems, TLAPS

-----------------------------------------------------------------------------
(* The calls of wpcpp::Metadata *)

Inside == {"mutex", "added", "waiting", "woken"}

(***************************************************************************)
(* NoCallForgotten is not inductive.  What is needed: the caller inside is *)
(* the one that holds the first mutex; a source whose caller is still in   *)
(* its call is the only one, and its caller has not left; a caller that    *)
(* holds the second mutex has a source; what has no caller any more is     *)
(* left from a spurious wake-up.                                           *)
(***************************************************************************)
Holder == \A c \in Callers : at[c] \in Inside <=> parallel = c

CallerStays ==
  \A i \in 1 .. Len(idle) : idle[i] \in Callers => at[idle[i]] \in {"added", "waiting", "woken"}

OneSource == \A i, j \in 1 .. Len(idle) : idle[i] \in Callers /\ idle[j] \in Callers => i = j

HasSource == \A c \in Callers : at[c] \in {"added", "waiting"} => Queued(c)

Woken ==
  /\ \A i \in 1 .. Len(idle) : idle[i] \in Callers /\ at[idle[i]] = "woken" => woken_early = TRUE
  /\ \A i \in 1 .. Len(idle) : idle[i] = NoCaller => woken_early = TRUE
  /\ \A c \in Callers : at[c] = "woken" => outcome[c] # "none" \/ woken_early = TRUE
  /\ dangling = TRUE => woken_early = TRUE

Sources == Callers \union {NoCaller}

Types ==
  /\ parallel \in Callers \union {NoCaller} /\ at \in [Callers -> Steps]
  /\ idle \in Seq(Sources)
  /\ outcome \in [Callers -> {"none", "done", "no metadata"}]

Flags == woken_early \in BOOLEAN /\ dangling \in BOOLEAN

CallsInv == Types /\ Flags /\ Holder /\ CallerStays /\ OneSource /\ HasSource /\ Woken

-----------------------------------------------------------------------------
(* The queue of the sources *)

LEMMA Elements ==
  ASSUME NEW s \in Seq(Sources)
  PROVE  /\ Len(s) \in Nat
         /\ \A i \in 1 .. Len(s) : s[i] \in Callers \/ s[i] = NoCaller
BY LenProperties, ElementOfSeq DEF Sources

LEMMA Appended ==
  ASSUME NEW s \in Seq(Sources), NEW c \in Callers
  PROVE  /\ Append(s, c) \in Seq(Sources)
         /\ \E i \in 1 .. Len(Append(s, c)) : Append(s, c)[i] = c
         /\ \A i \in 1 .. Len(Append(s, c)) :
              \/ i \in 1 .. Len(s) /\ Append(s, c)[i] = s[i]
              \/ i = Len(s) + 1 /\ Append(s, c)[i] = c
<1>1. c \in Sources /\ Len(s) \in Nat
  BY LenProperties DEF Sources
<1>2. /\ Append(s, c) \in Seq(Sources) /\ Len(Append(s, c)) = Len(s) + 1
      /\ Append(s, c)[Len(s) + 1] = c
      /\ \A i \in 1 .. Len(s) : Append(s, c)[i] = s[i]
  BY <1>1, AppendProperties
<1>3. Len(s) + 1 \in 1 .. Len(Append(s, c))
  BY <1>1, <1>2
<1>4. \A i \in 1 .. Len(Append(s, c)) : i \in 1 .. Len(s) \/ i = Len(s) + 1
  BY <1>1, <1>2
<1> QED BY <1>2, <1>3, <1>4

LEMMA TailOf ==
  ASSUME NEW s \in Seq(Sources), s # << >>
  PROVE  /\ Tail(s) \in Seq(Sources)
         /\ 1 \in 1 .. Len(s) /\ Head(s) = s[1]
         /\ \A i \in 1 .. Len(Tail(s)) :
              i + 1 \in 1 .. Len(s) /\ i + 1 # 1 /\ Tail(s)[i] = s[i + 1]
         /\ \A i \in 1 .. Len(s) :
              i = 1 \/ (i - 1 \in 1 .. Len(Tail(s)) /\ Tail(s)[i - 1] = s[i])
<1>1. Len(s) \in Nat \ {0}
  BY EmptySeq
<1>2. /\ Tail(s) \in Seq(Sources) /\ Len(Tail(s)) = Len(s) - 1
      /\ \A i \in 1 .. Len(Tail(s)) : Tail(s)[i] = s[i + 1]
  BY HeadTailProperties
<1>3. 1 \in 1 .. Len(s)
  BY <1>1
<1>4. Head(s) = s[1]
  OBVIOUS
<1>5. \A i \in 1 .. Len(Tail(s)) : i + 1 \in 1 .. Len(s) /\ i + 1 # 1
  BY <1>1, <1>2
<1>6. \A i \in 1 .. Len(s) : i = 1 \/ (i - 1 \in 1 .. Len(Tail(s)) /\ (i - 1) + 1 = i)
  BY <1>1, <1>2
<1>7. \A i \in 1 .. Len(s) :
        i = 1 \/ (i - 1 \in 1 .. Len(Tail(s)) /\ Tail(s)[i - 1] = s[(i - 1) + 1])
  BY <1>2, <1>6
<1> QED BY <1>2, <1>3, <1>4, <1>5, <1>6, <1>7

-----------------------------------------------------------------------------
(* Each step keeps the invariant *)

\* A caller keeps the invariant: its step into the call, in it, or out of it.
LEMMA CallerKeepsCallsInv ==
  ASSUME CallsInv, NEW c \in Callers, Enter(c) \/ InCall(c)
  PROVE  CallsInv'
<1>0. Types /\ Flags /\ Holder /\ CallerStays /\ OneSource /\ HasSource /\ Woken
  BY DEF CallsInv
<1>1. CASE Enter(c)
  <2>0. /\ at[c] = "outside"
        /\ at' = [at EXCEPT ![c] = "parallel"]
        /\ UNCHANGED <<parallel, idle, found, outcome, woken_early, dangling>>
    BY <1>1, <1>0 DEF Enter, Holder, Inside
  <2>1. Types'
    BY <1>0, <2>0 DEF Types, Steps
  <2>2. Flags'
    BY <1>0, <2>0 DEF Flags
  <2>3. Holder'
    BY <1>0, <2>0, CallersAssumption DEF Holder, Types, Inside
  <2>4. CallerStays'
    BY <1>0, <2>0 DEF CallerStays, Types
  <2>5. OneSource'
    BY <1>0, <2>0 DEF OneSource
  <2>6. HasSource'
    BY <1>0, <2>0 DEF HasSource, Queued, Types
  <2>7. Woken'
    BY <1>0, <2>0 DEF Woken, Types
  <2> QED BY <2>1, <2>2, <2>3, <2>4, <2>5, <2>6, <2>7 DEF CallsInv
<1>2. CASE Lock(c)
  <2>0. /\ at[c] = "parallel" /\ parallel = NoCaller
        /\ parallel' = c /\ at' = [at EXCEPT ![c] = "mutex"]
        /\ UNCHANGED <<idle, found, outcome, woken_early, dangling>>
    BY <1>2, <1>0 DEF Lock, Holder, Inside
  <2>1. Types'
    BY <1>0, <2>0 DEF Types, Steps
  <2>2. Flags'
    BY <1>0, <2>0 DEF Flags
  <2>3. Holder'
    BY <1>0, <2>0, CallersAssumption DEF Holder, Types, Inside
  <2>4. CallerStays'
    BY <1>0, <2>0 DEF CallerStays, Types
  <2>5. OneSource'
    BY <1>0, <2>0 DEF OneSource
  <2>6. HasSource'
    BY <1>0, <2>0 DEF HasSource, Queued, Types
  <2>7. Woken'
    BY <1>0, <2>0 DEF Woken, Types
  <2> QED BY <2>1, <2>2, <2>3, <2>4, <2>5, <2>6, <2>7 DEF CallsInv
<1>3. CASE AddSource(c)
  <2>0. /\ at[c] = "mutex" /\ parallel = c
        /\ idle' = Append(idle, c) /\ at' = [at EXCEPT ![c] = "added"]
        /\ outcome' = [outcome EXCEPT ![c] = "none"]
        /\ UNCHANGED <<parallel, found, woken_early, dangling>>
    BY <1>3, <1>0 DEF AddSource, Holder, Inside
  <2>1. /\ idle' \in Seq(Sources)
        /\ Queued(c)'
        /\ \A i \in 1 .. Len(idle') :
             (i \in 1 .. Len(idle) /\ idle'[i] = idle[i]) \/ (i = Len(idle) + 1 /\ idle'[i] = c)
    <3>1. idle \in Seq(Sources) /\ idle' = Append(idle, c)
      BY <1>0, <2>0 DEF Types
    <3> QED BY <3>1, Appended DEF Queued
  <2>2. \A d \in Callers \ {c} : at[d] \notin Inside /\ at'[d] = at[d]
    BY <1>0, <2>0 DEF Holder, Types
  <2>3. at'[c] = "added" /\ outcome'[c] = "none"
    BY <1>0, <2>0 DEF Types
  <2>4. \A i \in 1 .. Len(idle) : idle[i] \notin Callers
    BY <1>0, <2>0, <2>2 DEF CallerStays, Inside
  <2>5. Types'
    BY <1>0, <2>0, <2>1 DEF Types, Steps
  <2>6. Flags'
    BY <1>0, <2>0 DEF Flags
  <2>7. Holder'
    BY <1>0, <2>0, <2>2, <2>3 DEF Holder, Inside
  <2>8. CallerStays'
    BY <2>1, <2>3, <2>4 DEF CallerStays
  <2>9. OneSource'
    <3>1. \A i \in 1 .. Len(idle') : idle'[i] \in Callers => i = Len(idle) + 1
      BY <2>1, <2>4
    <3> QED BY <3>1 DEF OneSource
  <2>10. HasSource'
    BY <2>1, <2>2 DEF HasSource, Inside
  <2>11. Woken'
    <3>1. \A i \in 1 .. Len(idle') : idle'[i] \in Callers => at'[idle'[i]] = "added"
      BY <2>1, <2>3, <2>4
    <3>2. \A i \in 1 .. Len(idle') : idle'[i] = NoCaller => woken_early' = TRUE
      BY <1>0, <2>0, <2>1, CallersAssumption DEF Woken
    <3>3. \A d \in Callers : at'[d] # "woken"
      BY <2>2, <2>3 DEF Inside
    <3>4. dangling' = TRUE => woken_early' = TRUE
      BY <1>0, <2>0 DEF Woken
    <3> QED BY <3>1, <3>2, <3>3, <3>4 DEF Woken
  <2> QED BY <2>5, <2>6, <2>7, <2>8, <2>9, <2>10, <2>11 DEF CallsInv
<1>4. CASE Wait(c)
  <2>0. /\ at[c] = "added"
        /\ at' = [at EXCEPT ![c] = "waiting"]
        /\ UNCHANGED <<parallel, idle, found, outcome, woken_early, dangling>>
    BY <1>4, <1>0 DEF Wait, Holder, Inside
  <2>1. Types'
    BY <1>0, <2>0 DEF Types, Steps
  <2>2. Flags'
    BY <1>0, <2>0 DEF Flags
  <2>3. Holder'
    BY <1>0, <2>0, CallersAssumption DEF Holder, Types, Inside
  <2>4. CallerStays'
    BY <1>0, <2>0 DEF CallerStays, Types
  <2>5. OneSource'
    BY <1>0, <2>0 DEF OneSource
  <2>6. HasSource'
    BY <1>0, <2>0 DEF HasSource, Queued, Types
  <2>7. Woken'
    BY <1>0, <2>0 DEF Woken, Types
  <2> QED BY <2>1, <2>2, <2>3, <2>4, <2>5, <2>6, <2>7 DEF CallsInv
<1>5. CASE SpuriousWakeUp(c)
  <2>0. /\ at[c] = "waiting" /\ woken_early' = TRUE
        /\ at' = [at EXCEPT ![c] = "woken"]
        /\ UNCHANGED <<parallel, idle, found, outcome, dangling>>
    BY <1>5, <1>0 DEF SpuriousWakeUp, Holder, Inside
  <2>1. Types'
    BY <1>0, <2>0 DEF Types, Steps
  <2>2. Flags'
    BY <1>0, <2>0 DEF Flags
  <2>3. Holder'
    BY <1>0, <2>0, CallersAssumption DEF Holder, Types, Inside
  <2>4. CallerStays'
    BY <1>0, <2>0 DEF CallerStays, Types
  <2>5. OneSource'
    BY <1>0, <2>0 DEF OneSource
  <2>6. HasSource'
    BY <1>0, <2>0 DEF HasSource, Queued, Types
  <2>7. Woken'
    BY <1>0, <2>0 DEF Woken, Types
  <2> QED BY <2>1, <2>2, <2>3, <2>4, <2>5, <2>6, <2>7 DEF CallsInv
<1>6. CASE Return(c)
  <2>0. /\ at[c] = "woken" /\ parallel = c
        /\ at' = [at EXCEPT ![c] = "outside"] /\ parallel' = NoCaller
        /\ idle' = IF Queued(c) THEN [idle EXCEPT ![SourceOf(c)] = NoCaller] ELSE idle
        /\ UNCHANGED <<found, outcome, woken_early, dangling>>
    BY <1>6, <1>0 DEF Return, Holder, Inside
  <2>1. Queued(c) => SourceOf(c) \in 1 .. Len(idle) /\ idle[SourceOf(c)] = c
    BY DEF Queued, SourceOf
  <2>2. /\ idle' \in Seq(Sources) /\ Len(idle') = Len(idle)
        /\ \A i \in 1 .. Len(idle) :
             idle'[i] = IF Queued(c) /\ i = SourceOf(c) THEN NoCaller ELSE idle[i]
    <3>1. idle \in Seq(Sources) /\ NoCaller \in Sources
      BY <1>0 DEF Types, Sources
    <3>2. CASE Queued(c)
      BY <2>0, <2>1, <3>1, <3>2, ExceptSeq
    <3>3. CASE ~Queued(c)
      BY <2>0, <3>1, <3>3
    <3> QED BY <3>2, <3>3
  <2>3. \A i \in 1 .. Len(idle) : idle[i] = c \/ idle[i] = NoCaller
    BY <1>0, <2>0, Elements DEF Types, CallerStays, Holder, Inside
  <2>4. \A i \in 1 .. Len(idle) : idle'[i] = NoCaller
    <3> SUFFICES ASSUME NEW i \in 1 .. Len(idle), idle[i] = c  PROVE Queued(c) /\ i = SourceOf(c)
      BY <2>2, <2>3
    <3>1. Queued(c)
      BY DEF Queued
    <3> QED BY <1>0, <2>1, <3>1 DEF OneSource
  <2>5. \A d \in Callers : at'[d] \notin Inside
    BY <1>0, <2>0 DEF Holder, Types, Inside
  <2>6. \A i \in 1 .. Len(idle) : woken_early = TRUE
    BY <1>0, <2>0, <2>3 DEF Woken
  <2>7. Types'
    BY <1>0, <2>0, <2>2 DEF Types, Steps
  <2>8. Flags'
    BY <1>0, <2>0 DEF Flags
  <2>9. Holder' /\ HasSource'
    BY <2>0, <2>5, CallersAssumption DEF Holder, HasSource, Inside
  <2>10. CallerStays' /\ OneSource'
    BY <2>2, <2>4, CallersAssumption DEF CallerStays, OneSource
  <2>11. Woken'
    BY <1>0, <2>0, <2>2, <2>4, <2>5, <2>6, CallersAssumption DEF Woken, Inside
  <2> QED BY <2>7, <2>8, <2>9, <2>10, <2>11 DEF CallsInv
<1> QED BY <1>1, <1>2, <1>3, <1>4, <1>5, <1>6 DEF InCall

\* So does the main loop when it runs a source or learns of the metadata.
LEMMA MainLoopKeepsCallsInv ==
  ASSUME CallsInv, MainLoop
  PROVE  CallsInv'
<1>0. Types /\ Flags /\ Holder /\ CallerStays /\ OneSource /\ HasSource /\ Woken
  BY DEF CallsInv
<1>1. CASE MetadataFound
  BY <1>1, <1>0 DEF MetadataFound, CallsInv, Types, Flags, Holder, CallerStays, OneSource,
                    HasSource, Woken, Queued
<1>2. CASE RunSource
  <2> DEFINE h == Head(idle)
  <2>0. /\ idle # << >> /\ idle' = Tail(idle)
        /\ UNCHANGED <<parallel, found, woken_early>>
    BY <1>2 DEF RunSource
  <2>1. \A d \in Callers : at[d] # "added"
    BY <1>2 DEF RunSource, MutexFree
  <2>2. /\ idle' \in Seq(Sources) /\ 1 \in 1 .. Len(idle) /\ h = idle[1]
        /\ \A i \in 1 .. Len(idle') :
             i + 1 \in 1 .. Len(idle) /\ i + 1 # 1 /\ idle'[i] = idle[i + 1]
        /\ \A i \in 1 .. Len(idle) :
             i = 1 \/ (i - 1 \in 1 .. Len(idle') /\ idle'[i - 1] = idle[i])
    BY <1>0, <2>0, TailOf DEF Types
  <2>3. h \in Callers \/ h = NoCaller
    BY <1>0, <2>2, Elements DEF Types
  <2> HIDE DEF h
  <2>4. \A d \in Callers : Queued(d) /\ d # h => Queued(d)'
    BY <2>2 DEF Queued
  <2>5. OneSource'
    <3> SUFFICES ASSUME NEW i \in 1 .. Len(idle'), NEW j \in 1 .. Len(idle'),
                        idle'[i] \in Callers, idle'[j] \in Callers
                 PROVE  i = j
      BY DEF OneSource
    <3>1. i + 1 = j + 1
      BY <1>0, <2>2 DEF OneSource
    <3> QED BY <3>1
  <2>6. CASE h = NoCaller
    <3>1. dangling' = TRUE /\ UNCHANGED <<outcome, at>>
      BY <1>2, <2>6 DEF RunSource, h
    <3>2. woken_early = TRUE
      BY <1>0, <2>2, <2>6 DEF Woken
    <3>3. Types' /\ Holder'
      BY <1>0, <2>0, <2>2, <3>1 DEF Types, Holder
    <3>4. Flags'
      BY <1>0, <2>0, <3>1 DEF Flags
    <3>5. CallerStays'
      BY <1>0, <2>2, <3>1 DEF CallerStays
    <3>6. HasSource'
      BY <1>0, <2>4, <2>6, <3>1, CallersAssumption DEF HasSource
    <3>7. Woken'
      BY <2>0, <3>2 DEF Woken
    <3> QED BY <2>5, <3>3, <3>4, <3>5, <3>6, <3>7 DEF CallsInv
  <2>7. CASE h \in Callers
    <3>1. /\ outcome' = [outcome EXCEPT ![h] = IF captured THEN "done" ELSE "no metadata"]
          /\ at' = [at EXCEPT ![h] = IF at[h] = "waiting" THEN "woken" ELSE at[h]]
          /\ UNCHANGED dangling
      BY <1>2, <2>7, CallersAssumption DEF RunSource, h
    <3>2. at[h] \in {"waiting", "woken"} /\ parallel = h
      BY <1>0, <2>1, <2>2, <2>7 DEF CallerStays, Holder, Inside
    <3>3. \A i \in 1 .. Len(idle') : idle'[i] = NoCaller
      BY <1>0, <2>2, <2>7, Elements DEF OneSource, Types
    <3>4. at'[h] = "woken" /\ \A d \in Callers \ {h} : at'[d] = at[d] /\ at[d] \notin Inside
      BY <1>0, <2>7, <3>1, <3>2 DEF Holder, Types
    <3>5. /\ outcome' \in [Callers -> {"none", "done", "no metadata"}]
          /\ outcome'[h] \in {"done", "no metadata"}
      BY <1>0, <2>7, <3>1 DEF Types
    <3>6. Types'
      <4>1. at' \in [Callers -> Steps]
        BY <1>0, <2>7, <3>1 DEF Types, Steps
      <4> QED BY <1>0, <2>0, <2>2, <3>5, <4>1 DEF Types
    <3>7. Flags'
      BY <1>0, <2>0, <3>1 DEF Flags
    <3>8. Holder'
      BY <1>0, <2>0, <2>7, <3>2, <3>4 DEF Holder, Inside
    <3>9. CallerStays' /\ HasSource'
      BY <2>7, <3>3, <3>4, CallersAssumption DEF CallerStays, HasSource, Inside
    <3>10. \A i \in 1 .. Len(idle') : woken_early = TRUE
      BY <1>0, <2>2, <3>3 DEF Woken
    <3>11. Woken'
      <4>1. \A d \in Callers : at'[d] = "woken" => outcome'[d] # "none"
        BY <3>4, <3>5 DEF Inside
      <4>2. dangling' = TRUE => woken_early' = TRUE
        BY <1>0, <2>0, <3>1 DEF Woken
      <4> QED BY <2>0, <3>3, <3>10, <4>1, <4>2, CallersAssumption DEF Woken
    <3> QED BY <2>5, <3>6, <3>7, <3>8, <3>9, <3>11 DEF CallsInv
  <2> QED BY <2>3, <2>6, <2>7
<1> QED BY <1>1, <1>2 DEF MainLoop

\* The invariant of the calls.
LEMMA CallsInvariant == Spec => []CallsInv
<1>1. Init => CallsInv
  <2> SUFFICES ASSUME Init  PROVE CallsInv
    OBVIOUS
  <2>0. CallsInit /\ << >> \in Seq(Sources) /\ 1 .. Len(<< >>) = {}
    <3>1. CallsInit
      BY DEF Init
    <3>2. << >> \in Seq(Sources) /\ Len(<< >>) = 0
      BY EmptySeq
    <3>3. 1 .. 0 = {}
      OBVIOUS
    <3> QED BY <3>1, <3>2, <3>3
  <2>1. Types
    BY <2>0 DEF CallsInit, Types, Steps
  <2>2. Flags
    BY <2>0 DEF CallsInit, Flags
  <2>3. Holder
    BY <2>0, CallersAssumption DEF CallsInit, Holder, Inside
  <2>4. CallerStays /\ OneSource
    BY <2>0 DEF CallsInit, CallerStays, OneSource
  <2>5. HasSource
    BY <2>0 DEF CallsInit, HasSource
  <2>6. Woken
    <3>1. \A i \in 1 .. Len(idle) : FALSE
      BY <2>0 DEF CallsInit
    <3>2. \A c \in Callers : at[c] # "woken"
      BY <2>0 DEF CallsInit
    <3>3. dangling = FALSE
      BY <2>0 DEF CallsInit
    <3> QED BY <3>1, <3>2, <3>3 DEF Woken
  <2> QED BY <2>1, <2>2, <2>3, <2>4, <2>5, <2>6 DEF CallsInv
<1>2. CallsInv /\ [Next]_vars => CallsInv'
  <2> SUFFICES ASSUME CallsInv, [Next]_vars  PROVE CallsInv'
    OBVIOUS
  <2>1. CASE \E c \in Callers : BeginCall(c) \/ Calling(c)
    BY <2>1, CallerKeepsCallsInv DEF BeginCall, Calling
  <2>2. CASE WirePlumber
    BY <2>2, MainLoopKeepsCallsInv DEF WirePlumber
  <2>3. CASE UNCHANGED calls
    BY <2>3 DEF calls, CallsInv, Types, Flags, Holder, CallerStays, OneSource, HasSource, Woken,
                Queued
  <2>4. CASE Terminals
    BY <2>3, <2>4 DEF Terminals, Send, Await, PrintResponse, GetProxies, check_osc_connections, setup_command
  <2>5. CASE SignalProcessor
    BY <2>3, <2>5 DEF SignalProcessor, Cycle, NoBuffer, ClearRequest, SetMessage, Respond
  <2>6. CASE PipeWire
    BY <2>3, <2>6 DEF PipeWire, NodeAdded, NodeRemoved, LinkAdded, LinkRemoved
  <2>7. CASE Announcements
    BY <2>3, <2>7 DEF Announcements, proxy_added_callback, process_registry_event,
                      link_added_callback
  <2>8. CASE UNCHANGED vars
    BY <2>3, <2>8 DEF vars
  <2> QED BY <2>1, <2>2, <2>4, <2>5, <2>6, <2>7, <2>8 DEF Next
<1> QED BY <1>1, <1>2, PTL DEF Spec

(***************************************************************************)
(* NoCallForgotten for any number of callers.                              *)
(***************************************************************************)
THEOREM CallsSafe == Spec => []NoCallForgotten
<1>1. CallsInv => NoCallForgotten
  <2> SUFFICES ASSUME CallsInv  PROVE NoCallForgotten
    OBVIOUS
  <2>1. \A c \in Callers : at[c] = "waiting" => Queued(c)
    BY DEF CallsInv, HasSource
  <2>2. \A c \in Callers : at[c] = "woken" => outcome[c] # "none" \/ woken_early
    BY DEF CallsInv, Woken, Flags
  <2>3. dangling => woken_early
    BY DEF CallsInv, Woken, Flags
  <2> QED BY <2>1, <2>2, <2>3 DEF NoCallForgotten
<1> QED BY <1>1, CallsInvariant, PTL


-----------------------------------------------------------------------------
(* send *)

\* The answer in response is the one to the message of the request.
Right == (response = "OK") <=> (\E i \in 1 .. Len(emitted) : emitted[i] = request)

Put == \E i \in 1 .. Len(emitted) : emitted[i] = request

(***************************************************************************)
(* Where the terminal and the signal processor stand between them: nobody  *)
(* writes while the other may read.                                        *)
(***************************************************************************)
Turns ==
  \/ /\ prompt \notin {"awaiting", "printing"}
     /\ processor = "idle" /\ has_request = FALSE /\ has_response = FALSE
     /\ request = Len(printed)
  \/ /\ prompt = "awaiting" /\ request = Len(printed) + 1
     /\ \/ processor = "idle" /\ has_request = TRUE /\ has_response = FALSE /\ ~Put
        \/ processor = "no buffer" /\ has_request = TRUE /\ has_response = FALSE /\ ~Put
        \/ processor = "clear" /\ has_request = TRUE /\ has_response = FALSE /\ Put
        \/ processor = "message" /\ has_request = FALSE /\ has_response = FALSE /\ Put
        \/ processor = "respond" /\ has_request = FALSE /\ has_response = FALSE /\ Right
        \/ processor = "idle" /\ has_request = FALSE /\ has_response = TRUE /\ Right
  \/ /\ prompt = "printing" /\ request = Len(printed) + 1
     /\ processor = "idle" /\ has_request = FALSE /\ has_response = FALSE /\ Right

Responses == {"", "OK", "No buffer"}

SendTypes ==
  /\ request \in Nat /\ emitted \in Seq(Nat)
  /\ printed \in Seq(Responses) /\ response \in Responses

Answered ==
  \A k \in 1 .. Len(printed) :
    (printed[k] = "OK") <=> (\E i \in 1 .. Len(emitted) : emitted[i] = k)

Once == \A i, j \in 1 .. Len(emitted) : emitted[i] = emitted[j] => i = j

NoneAhead == \A i \in 1 .. Len(emitted) : emitted[i] <= request

SendInv == SendTypes /\ Turns /\ Answered /\ Once /\ NoneAhead

LEMMA SendStep ==
  ASSUME SendInv, Send
  PROVE  SendInv'
<1>0. SendTypes /\ Turns /\ Answered /\ Once /\ NoneAhead
  BY DEF SendInv
<1>1. /\ prompt = "reading" /\ prompt' = "awaiting"
      /\ request' = request + 1 /\ has_request' = TRUE
      /\ UNCHANGED <<has_response, response, processor, emitted, printed>>
  BY DEF Send
<1>2. /\ processor = "idle" /\ has_response = FALSE /\ request = Len(printed)
  BY <1>0, <1>1 DEF Turns
<1>3. \A i \in 1 .. Len(emitted) : emitted[i] \in Nat
  BY <1>0, ElementOfSeq DEF SendTypes
<1>4. ~Put'
  BY <1>0, <1>1, <1>3 DEF Put, NoneAhead, SendTypes
<1>5. Turns'
  BY <1>1, <1>2, <1>4 DEF Turns
<1>6. SendTypes' /\ Answered' /\ Once'
  BY <1>0, <1>1 DEF SendTypes, Answered, Once
<1>7. NoneAhead'
  BY <1>0, <1>1, <1>3 DEF NoneAhead, SendTypes
<1> QED BY <1>5, <1>6, <1>7 DEF SendInv

LEMMA PrintStep ==
  ASSUME SendInv, PrintResponse
  PROVE  SendInv'
<1>0. SendTypes /\ Turns /\ Answered /\ Once /\ NoneAhead
  BY DEF SendInv
<1>1. /\ prompt = "printing" /\ prompt' = "reading"
      /\ printed' = Append(printed, response)
      /\ UNCHANGED <<has_request, has_response, request, response, processor, emitted>>
  BY DEF PrintResponse
<1>2. /\ processor = "idle" /\ has_request = FALSE /\ has_response = FALSE
      /\ request = Len(printed) + 1 /\ Right
  BY <1>0, <1>1 DEF Turns
<1>3. /\ printed' \in Seq(Responses) /\ Len(printed) \in Nat /\ Len(printed') = Len(printed) + 1
      /\ printed'[Len(printed) + 1] = response
      /\ \A i \in 1 .. Len(printed) : printed'[i] = printed[i]
  BY <1>0, <1>1, AppendProperties, LenProperties DEF SendTypes
<1>4. \A k \in 1 .. Len(printed') : k \in 1 .. Len(printed) \/ k = request
  BY <1>2, <1>3
<1>5. Answered'
  <2> SUFFICES ASSUME NEW k \in 1 .. Len(printed')
               PROVE  (printed'[k] = "OK") <=> (\E i \in 1 .. Len(emitted) : emitted[i] = k)
    BY <1>1 DEF Answered
  <2>1. CASE k \in 1 .. Len(printed)
    BY <1>0, <1>3, <2>1 DEF Answered
  <2>2. CASE k = request
    BY <1>2, <1>3, <2>2 DEF Right
  <2> QED BY <1>4, <2>1, <2>2
<1>6. Turns'
  BY <1>1, <1>2, <1>3 DEF Turns
<1>7. SendTypes' /\ Once' /\ NoneAhead'
  BY <1>0, <1>1, <1>3 DEF SendTypes, Once, NoneAhead
<1> QED BY <1>5, <1>6, <1>7 DEF SendInv

LEMMA CycleStep ==
  ASSUME SendInv, NEW out \in BOOLEAN, Cycle(out)
  PROVE  SendInv'
<1>0. SendTypes /\ Turns /\ Answered /\ Once /\ NoneAhead
  BY DEF SendInv
<1>1. /\ processor = "idle" /\ has_request
      /\ UNCHANGED <<prompt, has_request, has_response, request, response, printed>>
  BY DEF Cycle
<1>2. /\ prompt = "awaiting" /\ request = Len(printed) + 1
      /\ has_request = TRUE /\ has_response = FALSE /\ ~Put
  BY <1>0, <1>1 DEF Turns
<1>3. CASE out
  <2>1. emitted' = Append(emitted, request) /\ processor' = "clear"
    BY <1>3 DEF Cycle
  <2>2. /\ emitted' \in Seq(Nat) /\ Len(emitted) \in Nat /\ Len(emitted') = Len(emitted) + 1
        /\ emitted'[Len(emitted) + 1] = request
        /\ \A i \in 1 .. Len(emitted) : emitted'[i] = emitted[i]
    BY <1>0, <2>1, AppendProperties, LenProperties DEF SendTypes
  <2>3. Len(emitted) + 1 \in 1 .. Len(emitted')
    BY <2>2
  <2>4. \A i \in 1 .. Len(emitted') : i \in 1 .. Len(emitted) \/ i = Len(emitted) + 1
    BY <2>2
  <2>5. \A i \in 1 .. Len(emitted) : i \in 1 .. Len(emitted') /\ emitted[i] # request
    BY <1>2, <2>2 DEF Put
  <2>6. Put'
    BY <1>1, <2>2, <2>3 DEF Put
  <2>7. Turns'
    BY <1>1, <1>2, <2>1, <2>6 DEF Turns
  <2>8. Once'
    BY <1>0, <2>2, <2>4, <2>5 DEF Once
  <2>9. NoneAhead'
    <3>1. request \in Nat /\ request' = request
      BY <1>0, <1>1 DEF SendTypes
    <3>2. \A i \in 1 .. Len(emitted') : emitted'[i] <= request
      BY <1>0, <2>2, <2>4, <3>1 DEF NoneAhead
    <3> QED BY <3>1, <3>2 DEF NoneAhead
  <2>10. Len(printed) \in Nat /\ \A k \in 1 .. Len(printed) : k # request
    BY <1>0, <1>2, LenProperties DEF SendTypes
  <2>11. \A k \in 1 .. Len(printed) :
           (\E i \in 1 .. Len(emitted') : emitted'[i] = k)
             <=> (\E i \in 1 .. Len(emitted) : emitted[i] = k)
    BY <2>2, <2>4, <2>5, <2>10
  <2>12. Answered'
    BY <1>0, <1>1, <2>11 DEF Answered
  <2>13. SendTypes'
    BY <1>0, <1>1, <2>2 DEF SendTypes
  <2> QED BY <2>7, <2>8, <2>9, <2>12, <2>13 DEF SendInv
<1>4. CASE ~out
  <2>1. emitted' = emitted /\ processor' = "no buffer"
    BY <1>4 DEF Cycle
  <2>2. Turns'
    BY <1>1, <1>2, <2>1 DEF Turns, Put
  <2>3. SendTypes' /\ Answered' /\ Once' /\ NoneAhead'
    BY <1>0, <1>1, <2>1 DEF SendTypes, Answered, Once, NoneAhead
  <2> QED BY <2>2, <2>3 DEF SendInv
<1> QED BY <1>3, <1>4

\* The other steps write nothing but the answer and the flags.
LEMMA AnswerStep ==
  ASSUME SendInv, Await \/ NoBuffer \/ ClearRequest \/ SetMessage \/ Respond
  PROVE  SendInv'
<1>0. SendTypes /\ Turns /\ Answered /\ Once /\ NoneAhead
  BY DEF SendInv
<1>1. UNCHANGED <<request, emitted, printed>>
  BY DEF Await, NoBuffer, ClearRequest, SetMessage, Respond
<1>2. Answered' /\ Once' /\ NoneAhead'
  BY <1>0, <1>1 DEF Answered, Once, NoneAhead
<1>3. Put' <=> Put
  BY <1>1 DEF Put
<1>4. response' \in Responses
  <2>1. response' = response \/ response' = "OK" \/ response' = "No buffer"
    BY DEF Await, NoBuffer, ClearRequest, SetMessage, Respond
  <2> QED BY <1>0, <2>1 DEF SendTypes, Responses
<1>5. SendTypes'
  BY <1>0, <1>1, <1>4 DEF SendTypes
<1>6. Turns'
  <2>1. CASE Await
    BY <1>0, <1>1, <2>1 DEF Await, Turns, Right
  <2>2. CASE NoBuffer
    <3>1. Right'
      BY <1>0, <1>3, <2>2 DEF NoBuffer, Turns, Right, Put
    <3> QED BY <1>0, <1>1, <2>2, <3>1 DEF NoBuffer, Turns
  <2>3. CASE ClearRequest
    BY <1>0, <1>1, <1>3, <2>3 DEF ClearRequest, Turns
  <2>4. CASE SetMessage
    <3>1. Right'
      BY <1>0, <1>3, <2>4 DEF SetMessage, Turns, Right, Put
    <3> QED BY <1>0, <1>1, <2>4, <3>1 DEF SetMessage, Turns
  <2>5. CASE Respond
    BY <1>0, <1>1, <2>5 DEF Respond, Turns, Right
  <2> QED BY <2>1, <2>2, <2>3, <2>4, <2>5
<1> QED BY <1>2, <1>5, <1>6 DEF SendInv

\* While the terminal's thread is in a call it does nothing else.
TerminalCalls == at[Terminal] = "outside" \/ prompt = "calling"

(***************************************************************************)
(* AnswersItsMessage for any number of messages, whatever else happens.    *)
(***************************************************************************)
THEOREM SendSafe == Spec => []AnswersItsMessage
<1>1. Init => SendInv
  <2> SUFFICES ASSUME Init  PROVE SendInv
    OBVIOUS
  <2>1. /\ prompt = "reading" /\ has_request = FALSE /\ has_response = FALSE
        /\ request = 0 /\ response = "" /\ processor = "idle"
        /\ emitted = << >> /\ printed = << >>
    BY DEF Init
  <2>2. /\ << >> \in Seq(Nat) /\ << >> \in Seq(Responses) /\ Len(<< >>) = 0
    BY EmptySeq
  <2>3. 1 .. 0 = {}
    OBVIOUS
  <2>4. SendTypes
    <3>1. request \in Nat /\ response \in Responses
      BY <2>1 DEF Responses
    <3> QED BY <2>1, <2>2, <3>1 DEF SendTypes
  <2>5. Turns
    BY <2>1, <2>2 DEF Turns
  <2>6. Answered /\ Once /\ NoneAhead
    BY <2>1, <2>2, <2>3 DEF Answered, Once, NoneAhead
  <2> QED BY <2>4, <2>5, <2>6 DEF SendInv
<1>2. Init => TerminalCalls
  BY ConsoleAssumption DEF Init, CallsInit, TerminalCalls
<1>3. SendInv /\ TerminalCalls /\ [Next]_vars => SendInv'
  <2> SUFFICES ASSUME SendInv, TerminalCalls, [Next]_vars  PROVE SendInv'
    OBVIOUS
  <2>1. CASE Send \/ PrintResponse \/ Await
    BY <2>1, SendStep, PrintStep, AnswerStep
  <2>2. CASE SignalProcessor
    BY <2>2, CycleStep, AnswerStep DEF SignalProcessor
  <2>3. ASSUME UNCHANGED hand_over,
               (prompt \notin {"awaiting", "printing"} /\ prompt' \notin {"awaiting", "printing"})
               \/ UNCHANGED prompt
        PROVE  SendInv'
    <3>1. UNCHANGED <<has_request, has_response, request, response, processor, emitted, printed>>
      BY <2>3 DEF hand_over
    <3>2. SendTypes' /\ Answered' /\ Once' /\ NoneAhead'
      BY <3>1 DEF SendInv, SendTypes, Answered, Once, NoneAhead
    <3>3. (Put' <=> Put) /\ (Right' <=> Right)
      BY <3>1 DEF Put, Right
    <3>4. Turns'
      BY <2>3, <3>1, <3>3 DEF SendInv, Turns
    <3> QED BY <3>2, <3>4 DEF SendInv
  <2>4. CASE \E command \in {"status", "setup"} : GetProxies(command)
    BY <2>3, <2>4 DEF GetProxies
  <2>5. CASE check_osc_connections \/ setup_command
    BY <2>3, <2>5 DEF check_osc_connections, setup_command
  <2>6. CASE PipeWire
    BY <2>3, <2>6 DEF PipeWire, NodeAdded, NodeRemoved, LinkAdded, LinkRemoved
  <2>7. CASE \E c \in Callers : BeginCall(c)
    <3>1. PICK c \in Callers : BeginCall(c)
      BY <2>7
    <3> QED BY <2>3, <3>1 DEF BeginCall
  <2>8. CASE \E c \in Callers : Calling(c)
    <3>1. PICK c \in Callers : Calling(c)
      BY <2>8
    <3>2. at[c] # "outside" /\ UNCHANGED hand_over
      BY <3>1 DEF Calling, InCall, Lock, AddSource, Wait, SpuriousWakeUp, Return
    <3>3. c = Terminal => prompt = "calling"
      BY <3>2 DEF TerminalCalls
    <3>4. UNCHANGED prompt \/ (c = Terminal /\ prompt' = "reading")
      BY <3>1 DEF Calling
    <3> QED BY <2>3, <3>2, <3>3, <3>4
  <2>9. CASE Announcements
    BY <2>3, <2>9 DEF Announcements, proxy_added_callback, process_registry_event,
                      link_added_callback
  <2>10. CASE WirePlumber \/ UNCHANGED vars
    BY <2>3, <2>10 DEF WirePlumber, vars
  <2> QED BY <2>1, <2>2, <2>4, <2>5, <2>6, <2>7, <2>8, <2>9, <2>10 DEF Next, Terminals
<1>4. TerminalCalls /\ CallsInv /\ [Next]_vars => TerminalCalls'
  <2> SUFFICES ASSUME TerminalCalls, CallsInv, [Next]_vars  PROVE TerminalCalls'
    OBVIOUS
  <2>0. at \in [Callers -> Steps] /\ Terminal \in Callers
    BY ConsoleAssumption DEF CallsInv, Types
  <2>1. CASE UNCHANGED at /\ (prompt = "calling" => prompt' = "calling")
    BY <2>1 DEF TerminalCalls
  <2>2. CASE Terminals
    BY <2>1, <2>2 DEF Terminals, Send, Await, PrintResponse, GetProxies, check_osc_connections, setup_command,
                      calls
  <2>3. CASE SignalProcessor
    BY <2>1, <2>3 DEF SignalProcessor, Cycle, NoBuffer, ClearRequest, SetMessage, Respond, calls
  <2>4. CASE PipeWire
    BY <2>1, <2>4 DEF PipeWire, NodeAdded, NodeRemoved, LinkAdded, LinkRemoved, calls
  <2>5. CASE \E c \in Callers : BeginCall(c)
    BY <2>0, <2>5 DEF BeginCall, Enter, TerminalCalls
  <2>6. CASE \E c \in Callers : Calling(c)
    <3>1. PICK c \in Callers : Calling(c)
      BY <2>6
    <3>2. \A d \in Callers \ {c} : at'[d] = at[d]
      BY <2>0, <3>1 DEF Calling, InCall, Lock, AddSource, Wait, SpuriousWakeUp, Return
    <3>3. at[c] # "outside"
      BY <3>1 DEF Calling, InCall, Lock, AddSource, Wait, SpuriousWakeUp, Return
    <3> QED BY <2>0, <3>1, <3>2, <3>3 DEF Calling, TerminalCalls
  <2>7. CASE WirePlumber
    <3>1. UNCHANGED prompt /\ \A d \in Callers : at[d] = "outside" => at'[d] = "outside"
      BY <2>0, <2>7 DEF WirePlumber, MainLoop, RunSource, MetadataFound
    <3> QED BY <2>0, <3>1 DEF TerminalCalls
  <2>8. CASE Announcements
    BY <2>1, <2>8 DEF Announcements, proxy_added_callback, process_registry_event,
                      link_added_callback, calls
  <2>9. CASE UNCHANGED vars
    BY <2>1, <2>9 DEF vars, calls
  <2> QED BY <2>2, <2>3, <2>4, <2>5, <2>6, <2>7, <2>8, <2>9 DEF Next
<1>5. SendInv => AnswersItsMessage
  <2> SUFFICES ASSUME SendInv  PROVE AnswersItsMessage
    OBVIOUS
  <2>1. DOMAIN printed = 1 .. Len(printed) /\ DOMAIN emitted = 1 .. Len(emitted)
    BY LenProperties DEF SendInv, SendTypes
  <2> QED BY <2>1 DEF SendInv, Answered, Once, AnswersItsMessage
<1> QED BY <1>1, <1>2, <1>3, <1>4, <1>5, CallsInvariant, PTL DEF Spec

-----------------------------------------------------------------------------
(* status and setup *)

Records == [name : Names, id : Ids]

Entries == {"node", "port"} \X Nat

Ends(l) == {nodes[l[1]].name, nodes[l[2]].name}

(***************************************************************************)
(* What the lists have to do with PipeWire at any time: they have objects  *)
(* that were, each once, and a link that is no more was removed or was of  *)
(* a node that is no more.                                                 *)
(***************************************************************************)
ListTypes ==
  /\ nodes \in Seq(Records) /\ living \in [Names -> Nat]
  /\ proxies \in Seq(Entries) /\ watched \in Seq(Nat)
  /\ snapshot \in Nat /\ snapshot <= Len(proxies)

OfNodes ==
  /\ \A i \in 1 .. Len(proxies) : proxies[i][2] \in 1 .. Len(nodes)
  /\ \A i \in 1 .. Len(watched) : watched[i] \in 1 .. Len(nodes)

OnceEach ==
  /\ \A i, j \in 1 .. Len(proxies) : proxies[i] = proxies[j] => i = j
  /\ \A i, j \in 1 .. Len(watched) : watched[i] = watched[j] => i = j

LivingNamed ==
  \A n \in Names : living[n] # 0 => living[n] \in 1 .. Len(nodes) /\ nodes[living[n]].name = n

LinksMade ==
  /\ linked \subseteq made /\ links \subseteq made
  /\ \A l \in made : l[1] \in 1 .. Len(nodes) /\ l[2] \in 1 .. Len(nodes)
  /\ \A l \in made \ linked :
       Ends(l) \in unlinked \/ \E e \in {l[1], l[2]} : living[nodes[e].name] # e

ListInv == ListTypes /\ OfNodes /\ OnceEach /\ LivingNamed /\ LinksMade

LEMMA ListsStay ==
  ASSUME ListInv, UNCHANGED collections, snapshot' \in {snapshot, Len(proxies), 0}
  PROVE  ListInv'
<1>1. UNCHANGED <<proxies, watched, links, nodes, living, made, linked, unlinked>>
  BY DEF collections
<1>2. ListTypes'
  <2>1. Len(proxies) \in Nat
    BY LenProperties DEF ListInv, ListTypes
  <2> QED BY <1>1, <2>1 DEF ListInv, ListTypes
<1>3. OfNodes' /\ OnceEach' /\ LivingNamed'
  BY <1>1 DEF ListInv, OfNodes, OnceEach, LivingNamed
<1>4. LinksMade'
  BY <1>1 DEF ListInv, LinksMade, Ends
<1> QED BY <1>2, <1>3, <1>4 DEF ListInv

LEMMA AddedStep ==
  ASSUME ListInv, NEW n \in Names, NEW id \in Ids, NodeAdded(n, id)
  PROVE  ListInv'
<1>0. ListTypes /\ OfNodes /\ OnceEach /\ LivingNamed /\ LinksMade
  BY DEF ListInv
<1> DEFINE r == [name |-> n, id |-> id]
<1>1. /\ living[n] = 0
      /\ nodes' = Append(nodes, r)
      /\ living' = [living EXCEPT ![n] = Len(nodes) + 1]
      /\ UNCHANGED <<proxies, watched, links, made, linked, unlinked, snapshot>>
  BY DEF NodeAdded
<1>2. r \in Records /\ r.name = n
  BY DEF Records
<1> HIDE DEF r
<1>3. /\ nodes' \in Seq(Records) /\ Len(nodes) \in Nat /\ Len(nodes') = Len(nodes) + 1
      /\ nodes'[Len(nodes) + 1] = r
      /\ \A i \in 1 .. Len(nodes) : nodes'[i] = nodes[i]
  BY <1>0, <1>1, <1>2, AppendProperties, LenProperties DEF ListTypes
<1>4. \A i \in 1 .. Len(nodes) : i \in 1 .. Len(nodes') /\ i # Len(nodes) + 1
  BY <1>3
<1>5. /\ living' \in [Names -> Nat] /\ living'[n] = Len(nodes) + 1
      /\ \A m \in Names \ {n} : living'[m] = living[m]
  BY <1>0, <1>1, <1>3 DEF ListTypes
<1>6. ListTypes'
  BY <1>0, <1>1, <1>3, <1>5 DEF ListTypes
<1>7. OfNodes' /\ OnceEach'
  BY <1>0, <1>1, <1>4 DEF OfNodes, OnceEach
<1>8. LivingNamed'
  <2>1. ASSUME NEW m \in Names, living'[m] # 0
        PROVE  living'[m] \in 1 .. Len(nodes') /\ nodes'[living'[m]].name = m
    <3>1. CASE m = n
      <4>1. Len(nodes) + 1 \in 1 .. Len(nodes')
        BY <1>3
      <4> QED BY <1>2, <1>3, <1>5, <3>1, <4>1
    <3>2. CASE m # n
      <4>1. living'[m] = living[m]
        BY <1>5, <3>2
      <4>2. living[m] \in 1 .. Len(nodes) /\ nodes[living[m]].name = m
        BY <1>0, <2>1, <4>1 DEF LivingNamed
      <4> QED BY <1>3, <1>4, <4>1, <4>2
    <3> QED BY <3>1, <3>2
  <2> QED BY <2>1 DEF LivingNamed
<1>9. LinksMade'
  <2>1. \A l \in made : l[1] \in 1 .. Len(nodes) /\ l[2] \in 1 .. Len(nodes)
    BY <1>0 DEF LinksMade
  <2>2. \A l \in made : Ends(l)' = Ends(l)
    BY <1>3, <2>1 DEF Ends
  <2>3. ASSUME NEW e \in 1 .. Len(nodes), living[nodes[e].name] # e
        PROVE  living'[nodes'[e].name] # e
    <3>1. nodes[e].name \in Names
      <4>1. nodes[e] \in Records
        BY <1>0, ElementOfSeq DEF ListTypes
      <4> QED BY <4>1 DEF Records
    <3>2. nodes'[e] = nodes[e] /\ e # Len(nodes) + 1
      BY <1>3, <1>4
    <3> QED BY <1>5, <2>3, <3>1, <3>2
  <2>4. ASSUME NEW l \in made \ linked
        PROVE  Ends(l)' \in unlinked \/ \E e \in {l[1], l[2]} : living'[nodes'[e].name] # e
    <3>1. CASE Ends(l) \in unlinked
      BY <2>2, <3>1
    <3>2. CASE \E e \in {l[1], l[2]} : living[nodes[e].name] # e
      BY <2>1, <2>3, <3>2
    <3> QED BY <1>0, <3>1, <3>2 DEF LinksMade
  <2>5. \A l \in made : l[1] \in 1 .. Len(nodes') /\ l[2] \in 1 .. Len(nodes')
    BY <1>4, <2>1
  <2>6. linked \subseteq made /\ links \subseteq made
    BY <1>0 DEF LinksMade
  <2> QED BY <1>1, <2>4, <2>5, <2>6 DEF LinksMade
<1> QED BY <1>6, <1>7, <1>8, <1>9 DEF ListInv

LEMMA RemovedStep ==
  ASSUME ListInv, NEW n \in Names, NodeRemoved(n)
  PROVE  ListInv'
<1>0. ListTypes /\ OfNodes /\ OnceEach /\ LivingNamed /\ LinksMade
  BY DEF ListInv
<1>1. /\ living[n] # 0 /\ living' = [living EXCEPT ![n] = 0]
      /\ linked' = {l \in linked : living[n] \notin {l[1], l[2]}}
      /\ UNCHANGED <<proxies, watched, links, nodes, made, unlinked, snapshot>>
  BY DEF NodeRemoved
<1>2. living'[n] = 0 /\ \A m \in Names \ {n} : living'[m] = living[m]
  BY <1>0, <1>1 DEF ListTypes
<1>3. ListTypes'
  BY <1>0, <1>1 DEF ListTypes
<1>4. OfNodes' /\ OnceEach'
  BY <1>0, <1>1 DEF OfNodes, OnceEach
<1>5. LivingNamed'
  BY <1>0, <1>1, <1>2 DEF LivingNamed
<1>6. LinksMade'
  <2>1. \A l \in made : l[1] \in 1 .. Len(nodes) /\ l[2] \in 1 .. Len(nodes)
    BY <1>0 DEF LinksMade
  <2>2. \A l : Ends(l)' = Ends(l)
    BY <1>1 DEF Ends
  <2>3. ASSUME NEW e \in 1 .. Len(nodes), living[nodes[e].name] # e \/ e = living[n]
        PROVE  living'[nodes[e].name] # e
    <3>1. nodes[e].name \in Names /\ e # 0
      <4>1. nodes[e] \in Records
        BY <1>0, ElementOfSeq DEF ListTypes
      <4> QED BY <4>1 DEF Records
    <3>2. e = living[n] => nodes[e].name = n
      BY <1>0, <1>1 DEF LivingNamed
    <3> QED BY <1>2, <2>3, <3>1, <3>2
  <2>4. ASSUME NEW l \in made \ linked'
        PROVE  Ends(l) \in unlinked \/ \E e \in {l[1], l[2]} : living'[nodes[e].name] # e
    <3>1. CASE l \in linked
      <4>1. living[n] \in {l[1], l[2]}
        BY <1>1, <2>4, <3>1
      <4>2. living[n] \in 1 .. Len(nodes)
        BY <2>1, <4>1
      <4> QED BY <2>3, <4>1, <4>2
    <3>2. CASE l \notin linked
      <4>1. CASE Ends(l) \in unlinked
        BY <4>1
      <4>2. CASE \E e \in {l[1], l[2]} : living[nodes[e].name] # e
        BY <2>1, <2>3, <4>2
      <4> QED BY <1>0, <3>2, <4>1, <4>2 DEF LinksMade
    <3> QED BY <3>1, <3>2
  <2>5. linked' \subseteq made /\ links \subseteq made
    BY <1>0, <1>1 DEF LinksMade
  <2> QED BY <1>1, <2>1, <2>2, <2>4, <2>5 DEF LinksMade
<1> QED BY <1>3, <1>4, <1>5, <1>6 DEF ListInv

LEMMA LinkStep ==
  ASSUME ListInv, NEW p \in Producers, NEW c \in Consumers, LinkAdded(p, c) \/ LinkRemoved(p, c)
  PROVE  ListInv'
<1>0. ListTypes /\ OfNodes /\ OnceEach /\ LivingNamed /\ LinksMade
  BY DEF ListInv
<1> DEFINE k == <<living[p], living[c]>>
<1>1. UNCHANGED <<proxies, watched, links, nodes, living, snapshot>>
  BY DEF LinkAdded, LinkRemoved
<1>2. ListTypes' /\ OfNodes' /\ OnceEach' /\ LivingNamed'
  BY <1>0, <1>1 DEF ListTypes, OfNodes, OnceEach, LivingNamed
<1>3. p \in Names /\ c \in Names /\ \A l : Ends(l)' = Ends(l)
  BY <1>1 DEF Names, Ends
<1>4. CASE LinkAdded(p, c)
  <2>1. /\ living[p] # 0 /\ living[c] # 0
        /\ linked' = linked \union {k} /\ made' = made \union {k} /\ unlinked' = unlinked
    BY <1>4 DEF LinkAdded
  <2>2. k[1] \in 1 .. Len(nodes) /\ k[2] \in 1 .. Len(nodes)
    BY <1>0, <1>3, <2>1 DEF LivingNamed
  <2> HIDE DEF k
  <2>3. LinksMade'
    BY <1>0, <1>1, <1>3, <2>1, <2>2 DEF LinksMade
  <2> QED BY <1>2, <2>3 DEF ListInv
<1>5. CASE LinkRemoved(p, c)
  <2>1. /\ k \in linked /\ linked' = linked \ {k} /\ made' = made
        /\ unlinked' = unlinked \union {{p, c}}
    BY <1>5 DEF LinkRemoved
  <2>2. living[p] \in 1 .. Len(nodes) /\ living[c] \in 1 .. Len(nodes)
    <3>1. k[1] \in 1 .. Len(nodes) /\ k[2] \in 1 .. Len(nodes)
      BY <1>0, <2>1 DEF LinksMade
    <3> QED BY <3>1
  <2>3. living[p] # 0 /\ living[c] # 0
    BY <2>2
  <2>4. Ends(k) = {p, c}
    BY <1>0, <1>3, <2>3 DEF LivingNamed, Ends
  <2> HIDE DEF k
  <2>5. LinksMade'
    BY <1>0, <1>1, <1>3, <2>1, <2>4 DEF LinksMade
  <2> QED BY <1>2, <2>5 DEF ListInv
<1> QED BY <1>4, <1>5

\* What is appended to a list that does not have it comes once.
LEMMA AppendedOnce ==
  ASSUME NEW T, NEW s \in Seq(T), NEW x \in T, \A i \in 1 .. Len(s) : s[i] # x
  PROVE  /\ Append(s, x) \in Seq(T) /\ Len(s) \in Nat /\ Len(Append(s, x)) = Len(s) + 1
         /\ \A i \in 1 .. Len(Append(s, x)) :
              Append(s, x)[i] = x \/ \E j \in 1 .. Len(s) : Append(s, x)[i] = s[j]
         /\ (\A i, j \in 1 .. Len(s) : s[i] = s[j] => i = j) =>
              \A i, j \in 1 .. Len(Append(s, x)) : Append(s, x)[i] = Append(s, x)[j] => i = j
<1> DEFINE t == Append(s, x)
<1>1. /\ t \in Seq(T) /\ Len(s) \in Nat /\ Len(t) = Len(s) + 1
      /\ t[Len(s) + 1] = x /\ \A i \in 1 .. Len(s) : t[i] = s[i]
  BY AppendProperties, LenProperties
<1> HIDE DEF t
<1>2. \A i \in 1 .. Len(t) : i \in 1 .. Len(s) \/ i = Len(s) + 1
  BY <1>1
<1>3. \A i \in 1 .. Len(t) : t[i] = x \/ \E j \in 1 .. Len(s) : t[i] = s[j]
  BY <1>1, <1>2
<1>4. ASSUME \A i, j \in 1 .. Len(s) : s[i] = s[j] => i = j,
             NEW i \in 1 .. Len(t), NEW j \in 1 .. Len(t), t[i] = t[j]
      PROVE  i = j
  <2>1. CASE i \in 1 .. Len(s) /\ j \in 1 .. Len(s)
    BY <1>1, <1>4, <2>1
  <2>2. CASE i = Len(s) + 1 /\ j = Len(s) + 1
    BY <2>2
  <2>3. CASE i \in 1 .. Len(s) /\ j = Len(s) + 1
    BY <1>1, <1>4, <2>3
  <2>4. CASE i = Len(s) + 1 /\ j \in 1 .. Len(s)
    BY <1>1, <1>4, <2>4
  <2> QED BY <1>2, <2>1, <2>2, <2>3, <2>4
<1>5. (\A i, j \in 1 .. Len(s) : s[i] = s[j] => i = j) =>
        \A i, j \in 1 .. Len(t) : t[i] = t[j] => i = j
  BY <1>4
<1> QED BY <1>1, <1>3, <1>5 DEF t

LEMMA AnnouncedStep ==
  ASSUME ListInv, Announcements
  PROVE  ListInv'
<1>0. ListTypes /\ OfNodes /\ OnceEach /\ LivingNamed /\ LinksMade
  BY DEF ListInv
<1>1. ASSUME NEW k \in 1 .. Len(nodes), NEW kind \in {"node", "port"},
             proxy_added_callback(kind, k)
      PROVE  ListInv'
  <2> DEFINE x == <<kind, k>>
  <2>1. /\ \A i \in 1 .. Len(proxies) : proxies[i] # x
        /\ proxies' = Append(proxies, x)
        /\ UNCHANGED <<watched, links, nodes, living, made, linked, unlinked, snapshot>>
    BY <1>1 DEF proxy_added_callback
  <2>2. x \in Entries /\ x[2] = k
    <3>1. k \in Nat
      OBVIOUS
    <3> QED BY <3>1 DEF Entries
  <2> HIDE DEF x
  <2>3. /\ proxies' \in Seq(Entries) /\ Len(proxies) \in Nat /\ Len(proxies') = Len(proxies) + 1
        /\ \A i \in 1 .. Len(proxies') :
             proxies'[i] = x \/ \E j \in 1 .. Len(proxies) : proxies'[i] = proxies[j]
        /\ \A i, j \in 1 .. Len(proxies') : proxies'[i] = proxies'[j] => i = j
    <3>1. proxies \in Seq(Entries)
      BY <1>0 DEF ListTypes
    <3>2. \A i, j \in 1 .. Len(proxies) : proxies[i] = proxies[j] => i = j
      BY <1>0 DEF OnceEach
    <3> QED BY <2>1, <2>2, <3>1, <3>2, AppendedOnce
  <2>4. ListTypes'
    BY <1>0, <2>1, <2>3 DEF ListTypes
  <2>5. OfNodes'
    BY <1>0, <2>1, <2>2, <2>3 DEF OfNodes
  <2>6. OnceEach'
    BY <1>0, <2>1, <2>3 DEF OnceEach
  <2>7. LivingNamed' /\ LinksMade'
    BY <1>0, <2>1 DEF LivingNamed, LinksMade, Ends
  <2> QED BY <2>4, <2>5, <2>6, <2>7 DEF ListInv
<1>2. ASSUME NEW k \in 1 .. Len(nodes), process_registry_event(k)
      PROVE  ListInv'
  <2>1. /\ \A i \in 1 .. Len(watched) : watched[i] # k
        /\ watched' = Append(watched, k)
        /\ UNCHANGED <<proxies, links, nodes, living, made, linked, unlinked, snapshot>>
    BY <1>2 DEF process_registry_event
  <2>2. /\ watched' \in Seq(Nat)
        /\ \A i \in 1 .. Len(watched') :
             watched'[i] = k \/ \E j \in 1 .. Len(watched) : watched'[i] = watched[j]
        /\ \A i, j \in 1 .. Len(watched') : watched'[i] = watched'[j] => i = j
    <3>1. watched \in Seq(Nat) /\ k \in Nat
      BY <1>0 DEF ListTypes
    <3>2. \A i, j \in 1 .. Len(watched) : watched[i] = watched[j] => i = j
      BY <1>0 DEF OnceEach
    <3> QED BY <2>1, <3>1, <3>2, AppendedOnce
  <2>3. ListTypes'
    BY <1>0, <2>1, <2>2 DEF ListTypes
  <2>4. OfNodes'
    BY <1>0, <2>1, <2>2 DEF OfNodes
  <2>5. OnceEach'
    BY <1>0, <2>1, <2>2 DEF OnceEach
  <2>6. LivingNamed' /\ LinksMade'
    BY <1>0, <2>1 DEF LivingNamed, LinksMade, Ends
  <2> QED BY <2>3, <2>4, <2>5, <2>6 DEF ListInv
<1>3. ASSUME NEW l \in made, link_added_callback(l)
      PROVE  ListInv'
  <2>1. /\ links' = links \union {l}
        /\ UNCHANGED <<proxies, watched, nodes, living, made, linked, unlinked, snapshot>>
    BY <1>3 DEF link_added_callback
  <2>2. ListTypes' /\ OfNodes' /\ OnceEach' /\ LivingNamed'
    BY <1>0, <2>1 DEF ListTypes, OfNodes, OnceEach, LivingNamed
  <2>3. LinksMade'
    BY <1>0, <2>1 DEF LinksMade, Ends
  <2> QED BY <2>2, <2>3 DEF ListInv
<1> QED BY <1>1, <1>2, <1>3 DEF Announcements

-----------------------------------------------------------------------------
(* What the commands read from the lists *)

LEMMA FirstOfEqual ==
  ASSUME NEW S \in SUBSET Nat, S # {}, \A i, j \in S : i = j
  PROVE  First(S) \in S
<1>1. PICK x \in S : x \in Nat
  OBVIOUS
<1>2. \A j \in S : j = x /\ x <= j
  BY <1>1
<1>3. \E i \in S : \A j \in S : i <= j
  BY <1>2
<1> QED BY <1>3 DEF First

\* What was copied is in the list, and the list has numbers of nodes that have names.
LEMMA Readable ==
  ASSUME ListInv
  PROVE  /\ \A i \in Copied : i \in 1 .. Len(proxies) /\ i \in Nat
         /\ \A i \in 1 .. Len(proxies) :
              proxies[i] = <<proxies[i][1], proxies[i][2]>> /\ Node(i) \in 1 .. Len(nodes)
         /\ \A k \in 1 .. Len(nodes) : k # 0 /\ nodes[k].name \in Names
<1>0. ListTypes /\ OfNodes
  BY DEF ListInv
<1>1. Len(proxies) \in Nat /\ Len(nodes) \in Nat /\ snapshot \in Nat /\ snapshot <= Len(proxies)
  BY <1>0, LenProperties DEF ListTypes
<1>2. \A i \in Copied : i \in 1 .. Len(proxies) /\ i \in Nat
  BY <1>1 DEF Copied
<1>3. \A i \in 1 .. Len(proxies) : proxies[i] \in Entries
  BY <1>0, ElementOfSeq DEF ListTypes
<1>4. \A i \in 1 .. Len(proxies) :
        proxies[i] = <<proxies[i][1], proxies[i][2]>> /\ Node(i) \in 1 .. Len(nodes)
  BY <1>0, <1>3 DEF Entries, OfNodes, Node
<1>5. \A k \in 1 .. Len(nodes) : k # 0 /\ nodes[k].name \in Names
  <2>1. \A k \in 1 .. Len(nodes) : nodes[k] \in Records
    BY <1>0, ElementOfSeq DEF ListTypes
  <2> QED BY <1>1, <2>1 DEF Records
<1> QED BY <1>2, <1>4, <1>5

\* A name that nothing hides: what is found for it is of its node.
LEMMA OnlyItsOwn ==
  ASSUME ListInv, NEW n \in Names, ~Ambiguous(n)
  PROVE  /\ \A i \in Places(n) : /\ i \in 1 .. Len(proxies) /\ i \in Nat
                                 /\ proxies[i] = <<"node", living[n]>> /\ Node(i) = living[n]
                                 /\ living[n] # 0 /\ IdOf(i) = LivingId(n)
         /\ \A i \in Places(n) : \A j \in PortsOf(i) :
              /\ j \in 1 .. Len(proxies) /\ j \in Nat
              /\ proxies[j] = <<"port", living[n]>> /\ Node(j) = living[n]
         /\ living[n] # 0 =>
              \A i \in Proxies(LivingId(n)) : i \in 1 .. Len(watched) /\ watched[i] = living[n]
<1>0. ListTypes /\ OfNodes /\ LivingNamed
  BY DEF ListInv
<1>1. \A k \in 1 .. Len(nodes) : nodes[k].name = n => k = living[n]
  BY DEF Ambiguous
<1>2. living[n] # 0 => \A k \in 1 .. Len(nodes) : nodes[k].id = LivingId(n) => k = living[n]
  BY DEF Ambiguous
<1>3. ASSUME NEW i \in Places(n)
      PROVE  /\ i \in 1 .. Len(proxies) /\ i \in Nat
             /\ proxies[i] = <<"node", living[n]>> /\ Node(i) = living[n]
             /\ living[n] # 0 /\ IdOf(i) = LivingId(n)
  <2>1. /\ i \in Copied /\ proxies[i][1] = "node" /\ nodes[Node(i)].name = n
    BY DEF Places
  <2>2. i \in 1 .. Len(proxies) /\ i \in Nat
    BY <2>1, Readable
  <2>3. Node(i) \in 1 .. Len(nodes) /\ proxies[i] = <<"node", Node(i)>>
    BY <2>1, <2>2, Readable DEF Node
  <2>4. Node(i) = living[n] /\ Node(i) # 0
    BY <1>1, <2>1, <2>3, Readable
  <2> QED BY <2>2, <2>3, <2>4 DEF IdOf, LivingId
<1>4. ASSUME NEW i \in Places(n), NEW j \in PortsOf(i)
      PROVE  /\ j \in 1 .. Len(proxies) /\ j \in Nat
             /\ proxies[j] = <<"port", living[n]>> /\ Node(j) = living[n]
  <2>1. j \in Copied /\ proxies[j][1] = "port" /\ IdOf(j) = IdOf(i)
    BY DEF PortsOf
  <2>2. j \in 1 .. Len(proxies) /\ j \in Nat
    BY <2>1, Readable
  <2>3. Node(j) \in 1 .. Len(nodes) /\ proxies[j] = <<"port", Node(j)>>
    BY <2>1, <2>2, Readable DEF Node
  <2>4. nodes[Node(j)].id = LivingId(n) /\ living[n] # 0
    BY <1>3, <2>1 DEF IdOf
  <2>5. Node(j) = living[n]
    BY <1>2, <2>3, <2>4
  <2> QED BY <2>2, <2>3, <2>5
<1>5. ASSUME living[n] # 0, NEW i \in Proxies(LivingId(n))
      PROVE  i \in 1 .. Len(watched) /\ watched[i] = living[n]
  <2>1. i \in 1 .. Len(watched) /\ nodes[watched[i]].id = LivingId(n)
    BY <1>5 DEF Proxies
  <2>2. watched[i] \in 1 .. Len(nodes)
    BY <1>0, <2>1 DEF OfNodes
  <2> QED BY <1>2, <1>5, <2>1, <2>2
<1> QED BY <1>3, <1>4, <1>5

\* What was announced of it is found.
LEMMA Found ==
  ASSUME ListInv, NEW n \in Names, ~Ambiguous(n), living[n] # 0
  PROVE  /\ Announced("node", n) => Places(n) # {}
         /\ Announced("port", n) => \A i \in Places(n) : PortsOf(i) # {} /\ Port(i) = living[n]
         /\ \A i \in Places(n) : PortsOf(i) # {} => Port(i) = living[n]
         /\ Places(n) # {} => IdFor(n) = LivingId(n)
         /\ n \notin UnheardByWatcher /\ n = Ctrl => Proxies(LivingId(n)) # {}
         /\ Proxies(LivingId(n)) # {} => watched[First(Proxies(LivingId(n)))] = living[n]
<1>0. ListTypes /\ OfNodes /\ OnceEach /\ LivingNamed
  BY DEF ListInv
<1>1. living[n] \in 1 .. Len(nodes) /\ nodes[living[n]].name = n
  BY <1>0 DEF LivingNamed
<1>2. nodes[living[n]].id = LivingId(n)
  BY DEF LivingId
<1>3. ASSUME Announced("node", n)  PROVE Places(n) # {}
  <2>1. PICK i \in Copied : proxies[i] = <<"node", living[n]>>
    BY <1>3 DEF Announced
  <2>2. proxies[i][1] = "node" /\ Node(i) = living[n]
    BY <2>1 DEF Node
  <2> QED BY <1>1, <2>2 DEF Places
<1>4. ASSUME Announced("port", n), NEW i \in Places(n)  PROVE PortsOf(i) # {}
  <2>1. PICK j \in Copied : proxies[j] = <<"port", living[n]>>
    BY <1>4 DEF Announced
  <2>2. proxies[j][1] = "port" /\ Node(j) = living[n]
    BY <2>1 DEF Node
  <2>3. IdOf(j) = IdOf(i)
    BY <1>2, <2>2, OnlyItsOwn DEF IdOf
  <2> QED BY <2>2, <2>3 DEF PortsOf
<1>5. ASSUME NEW i \in Places(n), PortsOf(i) # {}  PROVE Port(i) = living[n]
  <2>1. \A j \in PortsOf(i) :
          j \in 1 .. Len(proxies) /\ j \in Nat /\ proxies[j] = <<"port", living[n]>>
    BY OnlyItsOwn
  <2>2. PortsOf(i) \in SUBSET Nat /\ \A j, k \in PortsOf(i) : j = k
    BY <1>0, <2>1 DEF OnceEach
  <2>3. First(PortsOf(i)) \in PortsOf(i)
    BY <1>5, <2>2, FirstOfEqual
  <2> QED BY <2>3, OnlyItsOwn DEF Port
<1>6. ASSUME Places(n) # {}  PROVE IdFor(n) = LivingId(n)
  <2>1. \A i \in Places(n) :
          i \in 1 .. Len(proxies) /\ i \in Nat /\ proxies[i] = <<"node", living[n]>>
    BY OnlyItsOwn
  <2>2. Places(n) \in SUBSET Nat /\ \A i, j \in Places(n) : i = j
    BY <1>0, <2>1 DEF OnceEach
  <2>3. First(Places(n)) \in Places(n)
    BY <1>6, <2>2, FirstOfEqual
  <2> QED BY <1>6, <2>3, OnlyItsOwn DEF IdFor
<1>7. ASSUME n \notin UnheardByWatcher, n = Ctrl  PROVE Proxies(LivingId(n)) # {}
  <2>1. PICK i \in 1 .. Len(watched) : watched[i] = living[n]
    BY <1>7 DEF UnheardByWatcher
  <2> QED BY <1>2, <2>1 DEF Proxies
<1>8. ASSUME Proxies(LivingId(n)) # {}
      PROVE  watched[First(Proxies(LivingId(n)))] = living[n]
  <2>1. \A i \in Proxies(LivingId(n)) : i \in 1 .. Len(watched) /\ watched[i] = living[n]
    BY OnlyItsOwn
  <2>2. /\ Proxies(LivingId(n)) \in SUBSET Nat
        /\ \A i, j \in Proxies(LivingId(n)) : i = j
    BY <1>0, <2>1 DEF OnceEach
  <2>3. First(Proxies(LivingId(n))) \in Proxies(LivingId(n))
    BY <1>8, <2>2, FirstOfEqual
  <2> QED BY <2>1, <2>3
<1> QED BY <1>3, <1>4, <1>5, <1>6, <1>7, <1>8

\* An id that setup sends for a name of which it was told.
LEMMA RightId ==
  ASSUME ListInv, NEW n \in Names, ~Ambiguous(n), n \notin UnheardNodes({"node"})
  PROVE  IdFor(n) = LivingId(n)
<1>1. CASE living[n] = 0
  <2>1. Places(n) = {}
    BY <1>1, OnlyItsOwn
  <2> QED BY <1>1, <2>1 DEF IdFor, LivingId
<1>2. CASE living[n] # 0
  <2>1. Announced("node", n)
    BY <1>2 DEF UnheardNodes
  <2> QED BY <1>2, <2>1, Found
<1> QED BY <1>1, <1>2

LEMMA ExcusedBy ==
  ASSUME NEW w, NEW U, NEW x \in U, x \subseteq w
  PROVE  Excused(w, U)
BY DEF Excused

LEMMA StatusRight ==
  ASSUME ListInv,
         NEW U, U = {{n} : n \in UnheardNodes({"node", "port"})}
                      \union {{pc[1], pc[2]} : pc \in UnheardLinks}
  PROVE  /\ \A n \in WrongNodes \union WrongPorts : Excused({n}, U)
         /\ \A pc \in WrongLinks : Excused({pc[1], pc[2]}, U)
<1>1. \A n \in UnheardNodes({"node", "port"}) : {n} \in U
  OBVIOUS
<1>2. \A p \in Producers, c \in Consumers : <<p, c>> \in UnheardLinks => {p, c} \in U
  <2> SUFFICES ASSUME NEW p \in Producers, NEW c \in Consumers, <<p, c>> \in UnheardLinks
               PROVE  {p, c} \in U
    OBVIOUS
  <2>1. {<<p, c>>[1], <<p, c>>[2]} \in U
    OBVIOUS
  <2> QED BY <2>1
<1>3. \A n \in Names : living[n] # 0 /\ n \notin UnheardNodes({"node", "port"}) =>
        Announced("node", n) /\ Announced("port", n)
  BY DEF UnheardNodes
<1>4. ASSUME NEW n \in WrongNodes \union WrongPorts, ~Excused({n}, U)
      PROVE  FALSE
  <2>1. n \in Names
    BY DEF WrongNodes, WrongPorts, Names
  <2>2. ~Ambiguous(n) /\ n \notin UnheardNodes({"node", "port"})
    BY <1>1, <1>4, ExcusedBy DEF Excused
  <2>3. CASE n \in WrongNodes
    <3>1. (Places(n) = {}) <=> living[n] # 0
      BY <2>3 DEF WrongNodes
    <3> QED BY <1>3, <2>1, <2>2, <3>1, OnlyItsOwn, Found
  <2>4. CASE n \in WrongPorts
    <3>1. living[n] # 0 /\ \E i \in Places(n) : PortsOf(i) = {}
      BY <2>4 DEF WrongPorts, MissingOutput, MissingInput
    <3> QED BY <1>3, <2>1, <2>2, <3>1, Found
  <2> QED BY <2>3, <2>4
<1>5. ASSUME NEW p \in Producers, NEW c \in Consumers, <<p, c>> \in WrongLinks,
             ~Excused({p, c}, U)
      PROVE  FALSE
  <2>1. p \in Names /\ c \in Names
    BY DEF Names
  <2>2. /\ living[p] # 0 /\ living[c] # 0
        /\ Complains(p, c) <=> <<living[p], living[c]>> \in linked
    BY <1>5 DEF WrongLinks
  <2>3. /\ ~Ambiguous(p) /\ p \notin UnheardNodes({"node", "port"})
        /\ ~Ambiguous(c) /\ c \notin UnheardNodes({"node", "port"})
        /\ <<p, c>> \notin UnheardLinks /\ {p, c} \notin unlinked
    <3>1. \A n \in {p, c} : {n} \subseteq {p, c}
      OBVIOUS
    <3>2. \A x \in U : ~(x \subseteq {p, c})
      BY <1>5, ExcusedBy
    <3>3. ~Ambiguous(p) /\ ~Ambiguous(c) /\ {p, c} \notin unlinked
      BY <1>5 DEF Excused
    <3> QED BY <1>1, <1>2, <3>1, <3>2, <3>3
  <2>4. Places(p) # {} /\ Places(c) # {}
    BY <1>3, <2>1, <2>2, <2>3, Found
  <2>5. /\ \A i \in Places(p) : PortsOf(i) # {} /\ Port(i) = living[p]
        /\ \A j \in Places(c) : PortsOf(j) # {} /\ Port(j) = living[c]
    BY <1>3, <2>1, <2>2, <2>3, Found
  <2>6. Complains(p, c) <=> <<living[p], living[c]>> \notin links
    BY <2>4, <2>5 DEF Complains, LinkFound
  <2>7. CASE <<living[p], living[c]>> \in linked
    BY <2>2, <2>3, <2>6, <2>7 DEF UnheardLinks
  <2>8. CASE <<living[p], living[c]>> \notin linked
    <3> DEFINE l == <<living[p], living[c]>>
    <3>1. l \in made \ linked
      BY <2>2, <2>6, <2>8 DEF ListInv, LinksMade
    <3>2. nodes[living[p]].name = p /\ nodes[living[c]].name = c
      BY <2>1, <2>2 DEF ListInv, LivingNamed
    <3>3. Ends(l) = {p, c} /\ \A e \in {l[1], l[2]} : living[nodes[e].name] = e
      BY <3>2 DEF Ends
    <3> HIDE DEF l
    <3> QED BY <2>3, <3>1, <3>3 DEF ListInv, LinksMade
  <2> QED BY <2>7, <2>8
<1>6. ASSUME NEW pc \in WrongLinks  PROVE Excused({pc[1], pc[2]}, U)
  <2>1. pc \in Producers \X Consumers
    BY DEF WrongLinks
  <2>2. pc = <<pc[1], pc[2]>> /\ pc[1] \in Producers /\ pc[2] \in Consumers
    BY <2>1
  <2> QED BY <1>5, <2>2
<1> QED BY <1>4, <1>6

LEMMA SetUpRight ==
  ASSUME ListInv,
         NEW U, U = {{n} : n \in UnheardNodes({"node"}) \union UnheardByWatcher},
         NEW n \in WrongSetUp
  PROVE  Excused({n}, U)
<1> SUFFICES ASSUME ~Excused({n}, U)  PROVE FALSE
  OBVIOUS
<1>1. n \in Names
  BY DEF WrongSetUp, Names
<1>2. ~Ambiguous(n) /\ n \notin UnheardNodes({"node"}) /\ n \notin UnheardByWatcher
  BY ExcusedBy DEF Excused
<1>3. IdFor(n) = LivingId(n)
  BY <1>1, <1>2, RightId
<1>4. n = Ctrl
  BY <1>3 DEF WrongSetUp
<1>5. CASE NoTarget
  <2>1. living[n] # 0
    BY <1>5 DEF WrongSetUp
  <2>2. Announced("node", n)
    BY <1>1, <1>2, <2>1 DEF UnheardNodes
  <2>3. Places(n) # {} /\ Proxies(LivingId(n)) # {}
    BY <1>1, <1>2, <1>4, <2>1, <2>2, Found
  <2> QED BY <1>3, <1>4, <1>5, <2>3 DEF NoTarget
<1>6. CASE ~NoTarget
  <2>1. Places(n) # {} /\ Proxies(LivingId(n)) # {}
    BY <1>3, <1>4, <1>6 DEF NoTarget
  <2>2. living[n] # 0
    BY <1>1, <1>2, <2>1, OnlyItsOwn
  <2>3. Target = living[n]
    BY <1>1, <1>2, <1>3, <1>4, <2>1, <2>2, Found DEF Target
  <2> QED BY <1>3, <1>4, <1>6, <2>3, ConsoleAssumption DEF WrongSetUp
<1> QED BY <1>5, <1>6

(***************************************************************************)
(* WrongOnlyIfOutdated for any number of names, ids and events, whatever   *)
(* is announced between a command's copy of one list and that of the next. *)
(***************************************************************************)
THEOREM CommandsSafe == Spec => []WrongOnlyIfOutdated
<1>1. Init => ListInv
  <2> SUFFICES ASSUME Init  PROVE ListInv
    OBVIOUS
  <2>1. /\ proxies = << >> /\ watched = << >> /\ nodes = << >> /\ snapshot = 0
        /\ links = {} /\ made = {} /\ linked = {} /\ living = [n \in Names |-> 0]
    BY DEF Init
  <2>2. /\ << >> \in Seq(Entries) /\ << >> \in Seq(Records) /\ << >> \in Seq(Nat)
        /\ Len(<< >>) = 0
    BY EmptySeq
  <2>3. 1 .. 0 = {}
    OBVIOUS
  <2>4. ListTypes
    BY <2>1, <2>2 DEF ListTypes
  <2>5. OfNodes /\ OnceEach
    BY <2>1, <2>2, <2>3 DEF OfNodes, OnceEach
  <2>6. LivingNamed /\ LinksMade
    BY <2>1 DEF LivingNamed, LinksMade
  <2> QED BY <2>4, <2>5, <2>6 DEF ListInv
<1>2. ListInv /\ [Next]_vars => ListInv'
  <2> SUFFICES ASSUME ListInv, [Next]_vars  PROVE ListInv'
    OBVIOUS
  <2>0. ASSUME UNCHANGED collections, snapshot' \in {snapshot, Len(proxies), 0}
        PROVE  ListInv'
    BY <2>0, ListsStay
  <2>1. CASE SignalProcessor
    BY <2>0, <2>1 DEF SignalProcessor, Cycle, NoBuffer, ClearRequest, SetMessage, Respond
  <2>2. CASE Send \/ Await \/ PrintResponse
    BY <2>0, <2>2 DEF Send, Await, PrintResponse
  <2>3. CASE \E command \in {"status", "setup"} : GetProxies(command)
    BY <2>0, <2>3 DEF GetProxies
  <2>4. CASE check_osc_connections \/ setup_command
    BY <2>0, <2>4 DEF check_osc_connections, setup_command
  <2>5. CASE \E n \in Names : NodeRemoved(n) \/ \E id \in Ids : NodeAdded(n, id)
    BY <2>5, AddedStep, RemovedStep
  <2>6. CASE \E p \in Producers, c \in Consumers : LinkAdded(p, c) \/ LinkRemoved(p, c)
    BY <2>6, LinkStep
  <2>7. CASE Announcements
    BY <2>7, AnnouncedStep
  <2>8. CASE \E c \in Callers : BeginCall(c) \/ Calling(c)
    BY <2>0, <2>8 DEF BeginCall, Calling
  <2>9. CASE WirePlumber \/ UNCHANGED vars
    BY <2>0, <2>9 DEF WirePlumber, vars
  <2> QED BY <2>1, <2>2, <2>3, <2>4, <2>5, <2>6, <2>7, <2>8, <2>9 DEF Next, Terminals, PipeWire
<1>3. ListInv => WrongOnlyIfOutdated
  BY StatusRight, SetUpRight DEF WrongOnlyIfOutdated
<1> QED BY <1>1, <1>2, <1>3, PTL DEF Spec
=============================================================================
