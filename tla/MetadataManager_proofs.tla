------------------------- MODULE MetadataManager_proofs -------------------------
(***************************************************************************)
(* Theorems about MetadataManager, for any number of channels, ports and   *)
(* changes under way: the types, that what a client set is remembered      *)
(* through crashes and new sessions, and that the file follows.            *)
(***************************************************************************)
EXTENDS MetadataManager, SequenceTheorems, TLAPS

-----------------------------------------------------------------------------
(* Type correctness *)

\* What key k may be set to; only a port is ever cleared.
Proper(k) == IF k \in PortKeys THEN Ports \union {Null} ELSE Groups

ProperEvents == {e \in Event : e.value \in Proper(e.key)}

States == {"none", "poll", "apply", "open", "write", "idle", "waiting"}

(***************************************************************************)
(* TypeOK does not say that no event clears a group, without which the     *)
(* configuration might lose one.                                           *)
(***************************************************************************)
Types ==
  /\ metadata \in [Keys -> Values] /\ wish \in [Keys -> Values] /\ lost \subseteq Keys
  /\ file \in Config \union {NoFile, Torn} /\ config \in Config
  /\ manager \in {"down", "starting", "up"} /\ writer \in States /\ changed \in BOOLEAN
  /\ requests \subseteq ProperEvents

Queues == onTheWay \in Seq(ProperEvents) /\ updates \in Seq(ProperEvents) /\ batch \in Seq(ProperEvents)

LEMMA DefaultIsConfig == Default \in Config
BY KeysAssumption DEF Default, Config, Values, ValuesOf, Keys

LEMMA ContentsIsConfig ==
  ASSUME Types
  PROVE  Contents \in Config
BY DefaultIsConfig DEF Types, Contents

LEMMA ProperValues ==
  ASSUME NEW k \in Keys, NEW v \in Proper(k)
  PROVE  v \in Values /\ [key |-> k, value |-> v] \in ProperEvents
<1>1. v \in Values
  BY DEF Proper, Values
<1> QED BY <1>1 DEF ProperEvents, Event

\* A value of a configuration is proper.
LEMMA ConfigProper ==
  ASSUME NEW c \in Config, NEW k \in Keys
  PROVE  c[k] \in Proper(k)
BY DEF Config, Proper, ValuesOf, Keys

LEMMA UpdatedIsConfig ==
  ASSUME NEW c \in Config, NEW e \in ProperEvents
  PROVE  /\ updated(c, e) \in Config
         /\ updated(c, e) = [c EXCEPT ![e.key] = e.value]
<1>0. e.key \in Keys /\ e.value \in Values /\ e.value \in Proper(e.key)
  BY DEF ProperEvents, Event
<1>1. e.key \in GroupKeys => e.value # Null
  BY <1>0, KeysAssumption DEF Proper
<1>2. updated(c, e) = [c EXCEPT ![e.key] = e.value]
  BY <1>1 DEF updated
<1>3. [c EXCEPT ![e.key] = e.value] \in [Keys -> Values]
  BY <1>0 DEF Config
<1>4. ASSUME NEW k \in Keys
      PROVE  LET d == [c EXCEPT ![e.key] = e.value]
             IN  d[k] \in ValuesOf(k) \/ (k \in PortKeys /\ d[k] = Null)
  <2>1. CASE k = e.key
    <3>1. [c EXCEPT ![e.key] = e.value][k] = e.value
      BY <2>1 DEF Config
    <3> QED BY <1>0, <2>1, <3>1 DEF Proper, ValuesOf
  <2>2. CASE k # e.key
    <3>1. [c EXCEPT ![e.key] = e.value][k] = c[k]
      BY <2>2 DEF Config
    <3> QED BY <3>1 DEF Config
  <2> QED BY <2>1, <2>2
<1> QED BY <1>2, <1>3, <1>4 DEF Config

LEMMA SetType ==
  ASSUME Types, Queues, NEW k \in Keys, NEW v \in Proper(k), Set(k, v)
  PROVE  metadata' \in [Keys -> Values] /\ onTheWay' \in Seq(ProperEvents)
<1>1. v \in Values /\ [key |-> k, value |-> v] \in ProperEvents
  BY ProperValues
<1>2. metadata' \in [Keys -> Values]
  BY <1>1 DEF Set, Types
<1>3. onTheWay' \in Seq(ProperEvents)
  BY <1>1, AppendProperties DEF Set, Queues
<1> QED BY <1>2, <1>3

LEMMA ClientType ==
  ASSUME Types, Queues, NEW k \in Keys, NEW v \in Proper(k), Client(k, v)
  PROVE  Types' /\ Queues'
<1>1. metadata' \in [Keys -> Values] /\ onTheWay' \in Seq(ProperEvents)
  BY SetType DEF Client
<1>2. wish' \in [Keys -> Values]
  BY ProperValues DEF Client, Types
<1>3. lost' \subseteq Keys
  BY DEF Client, Types
<1> QED BY <1>1, <1>2, <1>3 DEF Client, Types, Queues, thread

LEMMA ServeType ==
  ASSUME Types, Queues, NEW r \in requests, Serve(r)
  PROVE  Types' /\ Queues'
<1>1. r.key \in Keys /\ r.value \in Proper(r.key)
  BY DEF Types, ProperEvents, Event
<1>2. metadata' \in [Keys -> Values] /\ onTheWay' \in Seq(ProperEvents)
  BY <1>1, SetType DEF Serve
<1> QED BY <1>2 DEF Serve, Types, Queues, thread, history

LEMMA StartType ==
  ASSUME Types, Queues, Reboot \/ read_config \/ set_initial_metadata \/ Crash
  PROVE  Types' /\ Queues'
<1>1. CASE Reboot
  BY <1>1 DEF Reboot, Types, Queues, Values, thread, history
<1>2. CASE read_config
  BY <1>2, ContentsIsConfig, DefaultIsConfig DEF read_config, Types, Queues, session, history
<1>3. CASE set_initial_metadata
  <2>1. ASSUME NEW k \in Keys, config[k] # Null
        PROVE  [key |-> k, value |-> config[k]] \in ProperEvents
    BY ConfigProper, ProperValues DEF Types
  <2>2. restored \subseteq ProperEvents
    BY <2>1 DEF restored
  <2> QED BY <1>3, <2>2 DEF set_initial_metadata, Types, Queues, States, history
<1>4. CASE Crash
  <2>1. onTheWay' = << >> /\ updates' = << >> /\ batch' = << >>
    BY <1>4 DEF Crash
  <2>2. Queues'
    BY <2>1, EmptySeq DEF Queues
  <2> QED BY <1>4, <2>2, DefaultIsConfig DEF Crash, Types, States
<1> QED BY <1>1, <1>2, <1>3, <1>4

LEMMA ChangedType ==
  ASSUME Types, Queues, metadata_changed
  PROVE  Types' /\ Queues'
<1>1. /\ onTheWay # << >> /\ onTheWay' = Tail(onTheWay)
      /\ updates' = updates \/ updates' = Append(updates, Head(onTheWay))
      /\ writer' = writer \/ writer' = "poll"
      /\ UNCHANGED <<metadata, file, manager, requests, batch, config, changed, wish, lost>>
  BY DEF metadata_changed, history
<1>2. Head(onTheWay) \in ProperEvents /\ Tail(onTheWay) \in Seq(ProperEvents)
  BY <1>1, HeadTailProperties DEF Queues
<1>3. Queues'
  <2>1. Append(updates, Head(onTheWay)) \in Seq(ProperEvents)
    BY <1>2, AppendProperties DEF Queues
  <2> QED BY <1>1, <1>2, <2>1 DEF Queues
<1> QED BY <1>1, <1>3 DEF Types, States

LEMMA WriterType ==
  ASSUME Types, Queues, Writer
  PROVE  Types' /\ Queues'
<1>1. CASE pop_metadata_update
  <2>1. /\ updates # << >> /\ updates' = Tail(updates) /\ batch' = Append(batch, Head(updates))
    BY <1>1 DEF pop_metadata_update
  <2>2. Head(updates) \in ProperEvents /\ Tail(updates) \in Seq(ProperEvents)
    BY <2>1, HeadTailProperties DEF Queues
  <2>3. updates' \in Seq(ProperEvents) /\ batch' \in Seq(ProperEvents)
    BY <2>1, <2>2, AppendProperties DEF Queues
  <2> QED BY <1>1, <2>3 DEF pop_metadata_update, Types, Queues, session, history
<1>2. CASE Apply
  <2>1. /\ batch # << >> /\ batch' = Tail(batch) /\ config' = updated(config, Head(batch))
        /\ changed' \in BOOLEAN
    BY <1>2 DEF Apply, Types
  <2>2. Head(batch) \in ProperEvents /\ Tail(batch) \in Seq(ProperEvents)
    BY <2>1, HeadTailProperties DEF Queues
  <2>3. config' \in Config
    BY <2>1, <2>2, UpdatedIsConfig DEF Types
  <2> QED BY <1>2, <2>1, <2>2, <2>3 DEF Apply, Types, Queues, session, history
<1>3. CASE NothingQueued \/ Applied \/ Wait \/ TimedOut
  BY <1>3 DEF NothingQueued, Applied, Wait, TimedOut, Types, Queues, States, session, history
<1>4. CASE OpenFile \/ WriteFile
  BY <1>4 DEF OpenFile, WriteFile, Types, Queues, States, session, history
<1> QED BY <1>1, <1>2, <1>3, <1>4 DEF Writer

LEMMA TypesInit == Init => Types /\ Queues
<1> SUFFICES ASSUME Init  PROVE Types /\ Queues
  OBVIOUS
<1>1. Queues
  BY EmptySeq DEF Init, Queues
<1>2. [k \in Keys |-> Null] \in [Keys -> Values] /\ Default \in [Keys -> Values]
  BY DefaultIsConfig DEF Values, Config
<1> QED BY <1>1, <1>2, DefaultIsConfig DEF Init, Types, States

\* Set by a client: a port to any port or to nothing, a group to a group.
LEMMA ClientsSet ==
  ASSUME SetupInputPort \/ ClearInputPort
  PROVE  \E k \in Keys : \E v \in Proper(k) : Client(k, v)
<1>1. ASSUME NEW k \in Keys, NEW v \in ValuesOf(k)  PROVE v \in Proper(k)
  BY DEF ValuesOf, Proper
<1>2. ASSUME NEW k \in PortKeys  PROVE k \in Keys /\ Null \in Proper(k)
  BY DEF Keys, Proper
<1> QED BY <1>1, <1>2 DEF SetupInputPort, ClearInputPort

LEMMA TypesNext == Types /\ Queues /\ [Next]_vars => Types' /\ Queues'
<1> SUFFICES ASSUME Types, Queues, [Next]_vars  PROVE Types' /\ Queues'
  OBVIOUS
<1>1. CASE SetupInputPort \/ ClearInputPort
  BY <1>1, ClientsSet, ClientType
<1>2. CASE Served
  BY <1>2, ServeType DEF Served
<1>3. CASE Reboot \/ read_config \/ set_initial_metadata \/ Crash
  BY <1>3, StartType
<1>4. CASE metadata_changed \/ Writer
  BY <1>4, ChangedType, WriterType
<1>5. CASE UNCHANGED vars
  BY <1>5 DEF vars, Types, Queues
<1> QED BY <1>1, <1>2, <1>3, <1>4, <1>5 DEF Next

(***************************************************************************)
(* The state of pmx-metadata-manager has the types of its variables; in    *)
(* particular no change ever leaves the configuration without a group.     *)
(***************************************************************************)
THEOREM TypeCorrect == Spec => []TypeOK
<1>1. Types /\ Queues => TypeOK
  <2> SUFFICES ASSUME Types, Queues  PROVE TypeOK
    OBVIOUS
  <2>1. ProperEvents \subseteq Event
    BY DEF ProperEvents
  <2>2. \A s \in Seq(ProperEvents) : s \in Seq(Event)
    <3> TAKE s \in Seq(ProperEvents)
    <3>1. Len(s) \in Nat /\ DOMAIN s = 1 .. Len(s)
      BY LenProperties
    <3>2. s \in [1 .. Len(s) -> Event]
      BY <2>1, LenProperties
    <3> QED BY <3>1, <3>2, SeqDef
  <2> QED BY <2>1, <2>2 DEF Types, Queues, TypeOK, States
<1> QED BY <1>1, TypesInit, TypesNext, PTL DEF Spec

-----------------------------------------------------------------------------
(* What a client set is remembered *)

(***************************************************************************)
(* A key that is not lost: what was wished is in the file while the        *)
(* manager is down, in the configuration while it starts, and then in the  *)
(* metadata, or asked for.  The metadata has it already, or nothing.       *)
(***************************************************************************)
Promised(k) ==
  /\ metadata[k] \in {wish[k], Null}
  /\ manager \in {"down", "starting"} => Contents[k] = wish[k]
  /\ manager = "starting" => config[k] = wish[k]
  /\ manager = "up" => metadata[k] = wish[k] \/ \E r \in requests : r.key = k
  /\ \A r \in requests : r.key = k => r.value = wish[k]

Promises ==
  /\ \A k \in Keys \ lost : Promised(k)
  /\ manager # "up" => requests = {}
  /\ manager # "up" => writer = "none"
  /\ \A r, s \in requests : r.key = s.key => r = s

LEMMA PromisesInit == Init => Promises
<1> SUFFICES ASSUME Init  PROVE Promises
  OBVIOUS
<1>1. ASSUME NEW k \in Keys  PROVE Promised(k)
  BY DEF Init, Promised, Contents
<1> QED BY <1>1 DEF Init, Promises

\* A step that leaves alone what Promises is about.
LEMMA PromisesStay ==
  ASSUME Promises, UNCHANGED <<metadata, manager, requests, wish, lost>>,
         manager # "up" => writer' = writer /\ UNCHANGED <<file, config>>
  PROVE  Promises'
<1>1. ASSUME NEW k \in Keys \ lost'  PROVE Promised(k)'
  BY DEF Promises, Promised, Contents
<1> QED BY <1>1 DEF Promises

LEMMA ClientPromises ==
  ASSUME Types, Promises, NEW c \in Keys, NEW v \in Proper(c), Client(c, v)
  PROVE  Promises'
<1>1. /\ metadata' = [metadata EXCEPT ![c] = v] /\ wish' = [wish EXCEPT ![c] = v]
      /\ UNCHANGED <<file, manager, requests, writer, config>>
      /\ lost' = IF manager # "up" \/ Asked(c) THEN lost \union {c}
                 ELSE IF metadata[c] = v THEN lost ELSE lost \ {c}
  BY DEF Client, Set, thread
<1>2. ASSUME NEW k \in Keys \ lost'  PROVE Promised(k)'
  <2>1. CASE k = c
    <3>1. metadata'[k] = v /\ wish'[k] = v
      BY <1>1, <2>1 DEF Types
    <3>2. manager = "up" /\ \A r \in requests : r.key # k
      BY <1>1, <1>2, <2>1 DEF Asked
    <3> QED BY <1>1, <3>1, <3>2 DEF Promised
  <2>2. CASE k # c
    <3>1. k \in Keys \ lost /\ metadata'[k] = metadata[k] /\ wish'[k] = wish[k]
      BY <1>1, <1>2, <2>2 DEF Types
    <3>2. Contents'[k] = Contents[k]
      BY <1>1 DEF Contents
    <3> QED BY <1>1, <3>1, <3>2 DEF Promises, Promised
  <2> QED BY <2>1, <2>2
<1> QED BY <1>1, <1>2 DEF Promises

LEMMA ServePromises ==
  ASSUME Types, Promises, NEW r \in requests, Serve(r)
  PROVE  Promises'
<1>1. /\ metadata' = [metadata EXCEPT ![r.key] = r.value] /\ requests' = requests \ {r}
      /\ UNCHANGED <<file, manager, writer, config, wish, lost>>
  BY DEF Serve, Set, thread, history
<1>2. r.key \in Keys /\ manager = "up"
  BY DEF Types, ProperEvents, Event, Promises
<1>3. ASSUME NEW k \in Keys \ lost'  PROVE Promised(k)'
  <2>0. Promised(k)
    BY <1>1, <1>3 DEF Promises
  <2>1. CASE k = r.key
    <3>1. metadata'[k] = r.value /\ r.value = wish[k]
      BY <1>1, <2>0, <2>1 DEF Types, Promised
    <3> QED BY <1>1, <1>2, <2>0, <3>1 DEF Promised
  <2>2. CASE k # r.key
    <3>1. metadata'[k] = metadata[k]
      BY <1>1, <2>2 DEF Types
    <3> QED BY <1>1, <1>2, <2>0, <2>2, <3>1 DEF Promised
  <2> QED BY <2>1, <2>2
<1> QED BY <1>1, <1>2, <1>3 DEF Promises

LEMMA StartPromises ==
  ASSUME Types, Promises, Reboot \/ read_config \/ set_initial_metadata \/ Crash
  PROVE  Promises'
<1>1. CASE Reboot
  <2>1. manager = "down" /\ UNCHANGED <<file, manager, requests, writer, config, wish, lost>>
    BY <1>1 DEF Reboot, thread, history
  <2>2. ASSUME NEW k \in Keys \ lost'  PROVE Promised(k)'
    <3>1. metadata'[k] = Null
      BY <1>1 DEF Reboot
    <3> QED BY <2>1, <2>2, <3>1 DEF Promises, Promised, Contents
  <2> QED BY <2>1, <2>2 DEF Promises
<1>2. CASE read_config
  <2>1. /\ manager = "down" /\ manager' = "starting" /\ config' = Contents
        /\ UNCHANGED <<metadata, requests, writer, wish, lost>>
    BY <1>2 DEF read_config, session, history
  <2>2. Contents' = Contents
    BY <1>2 DEF read_config, Contents
  <2>3. ASSUME NEW k \in Keys \ lost'  PROVE Promised(k)'
    BY <2>1, <2>2, <2>3 DEF Promises, Promised
  <2> QED BY <2>1, <2>3 DEF Promises
<1>3. CASE set_initial_metadata
  <2>1. /\ manager = "starting" /\ manager' = "up" /\ requests' = restored
        /\ UNCHANGED <<metadata, file, config, wish, lost>>
    BY <1>3 DEF set_initial_metadata, history
  <2>2. ASSUME NEW k \in Keys, config[k] # Null  PROVE \E r \in restored : r.key = k
    <3>1. [key |-> k, value |-> config[k]] \in restored
      BY <2>2 DEF restored
    <3>2. [key |-> k, value |-> config[k]].key = k
      OBVIOUS
    <3> QED BY <3>1, <3>2
  <2>3. \A r \in restored : r.value = config[r.key]
    BY DEF restored
  <2>4. \A r, s \in restored : r.key = s.key => r = s
    BY DEF restored
  <2>5. ASSUME NEW k \in Keys \ lost'  PROVE Promised(k)'
    <3>1. Promised(k)
      BY <2>1, <2>5 DEF Promises
    <3>2. config[k] = wish[k]
      BY <2>1, <3>1 DEF Promised
    <3> QED BY <2>1, <2>2, <2>3, <3>1, <3>2 DEF Promised
  <2> QED BY <2>1, <2>4, <2>5 DEF Promises
<1>4. CASE Crash
  <2>1. /\ manager' = "down" /\ requests' = {} /\ writer' = "none"
        /\ lost' = lost \union {k \in Keys : Contents[k] # wish[k]}
        /\ UNCHANGED <<metadata, file, wish>>
    BY <1>4 DEF Crash
  <2>2. Contents' = Contents
    BY <2>1 DEF Contents
  <2>3. ASSUME NEW k \in Keys \ lost'  PROVE Promised(k)'
    BY <2>1, <2>2, <2>3 DEF Promises, Promised
  <2> QED BY <2>1, <2>3 DEF Promises
<1> QED BY <1>1, <1>2, <1>3, <1>4

LEMMA OthersPromise ==
  ASSUME Promises, metadata_changed \/ Writer
  PROVE  Promises'
<1>1. CASE metadata_changed
  BY <1>1, PromisesStay DEF metadata_changed, history
<1>2. CASE Writer
  <2>1. writer # "none"
    BY <1>2 DEF Writer, pop_metadata_update, NothingQueued, Apply, Applied, OpenFile, WriteFile,
                Wait, TimedOut
  <2>2. manager = "up"
    BY <2>1 DEF Promises
  <2>3. UNCHANGED <<metadata, manager, requests, wish, lost>>
    BY <1>2 DEF Writer, pop_metadata_update, NothingQueued, Apply, Applied, OpenFile, WriteFile,
                Wait, TimedOut, session, history
  <2> QED BY <2>2, <2>3, PromisesStay
<1> QED BY <1>1, <1>2

LEMMA PromisesNext == Types /\ Promises /\ [Next]_vars => Promises'
<1> SUFFICES ASSUME Types, Promises, [Next]_vars  PROVE Promises'
  OBVIOUS
<1>1. CASE SetupInputPort \/ ClearInputPort
  BY <1>1, ClientsSet, ClientPromises
<1>2. CASE Served
  BY <1>2, ServePromises DEF Served
<1>3. CASE Reboot \/ read_config \/ set_initial_metadata \/ Crash
  BY <1>3, StartPromises
<1>4. CASE metadata_changed \/ Writer
  BY <1>4, OthersPromise
<1>5. CASE UNCHANGED vars
  BY <1>5, PromisesStay DEF vars
<1> QED BY <1>1, <1>2, <1>3, <1>4, <1>5 DEF Next

(***************************************************************************)
(* Remembered, for any number of keys and of changes under way, through    *)
(* any crashes and new sessions.                                           *)
(***************************************************************************)
THEOREM WishesKept == Spec => []Remembered
<1>1. Promises => Remembered
  BY DEF Promises, Promised, Remembered, Settled
<1> QED BY <1>1, TypesInit, TypesNext, PromisesInit, PromisesNext, PTL DEF Spec

-----------------------------------------------------------------------------
(* The file follows *)

\* The last event of key k has the value v, if there is one; there is none.
Agrees(s, k, v) ==
  \A i \in 1 .. Len(s) :
    s[i].key = k /\ (\A j \in 1 .. Len(s) : j > i => s[j].key # k) => s[i].value = v

Absent(s, k) == \A i \in 1 .. Len(s) : s[i].key # k

LEMMA Nothing == \A k, v : Agrees(<< >>, k, v) /\ Absent(<< >>, k)
<1>1. Len(<< >>) = 0 /\ 1 .. 0 = {}
  BY EmptySeq
<1> QED BY <1>1 DEF Agrees, Absent

LEMMA OneMore ==
  ASSUME NEW s \in Seq(ProperEvents), NEW e \in ProperEvents, NEW k, NEW v
  PROVE  /\ e.key = k /\ e.value = v => Agrees(Append(s, e), k, v)
         /\ e.key = k => ~Absent(Append(s, e), k)
         /\ e.key # k /\ Agrees(s, k, v) => Agrees(Append(s, e), k, v)
         /\ e.key # k => (Absent(Append(s, e), k) <=> Absent(s, k))
<1> DEFINE t == Append(s, e)
<1>1. /\ Len(s) \in Nat /\ Len(t) = Len(s) + 1 /\ t[Len(s) + 1] = e
      /\ \A i \in 1 .. Len(s) : t[i] = s[i]
  BY AppendProperties, LenProperties
<1> HIDE DEF t
<1>2. /\ \A i \in 1 .. Len(t) : i \in 1 .. Len(s) \/ i = Len(t)
      /\ \A i \in 1 .. Len(s) : i \in 1 .. Len(t) /\ Len(t) > i
      /\ Len(t) \in 1 .. Len(t) /\ t[Len(t)] = e
  BY <1>1
<1>3. e.key = k /\ e.value = v => Agrees(t, k, v)
  BY <1>1, <1>2 DEF Agrees
<1>4. e.key = k => ~Absent(t, k)
  BY <1>2 DEF Absent
<1>5. e.key # k => (Absent(t, k) <=> Absent(s, k))
  BY <1>1, <1>2 DEF Absent
<1>6. ASSUME e.key # k, Agrees(s, k, v)  PROVE Agrees(t, k, v)
  <2> SUFFICES ASSUME NEW i \in 1 .. Len(t), t[i].key = k,
                      \A j \in 1 .. Len(t) : j > i => t[j].key # k
               PROVE  t[i].value = v
    BY DEF Agrees
  <2>1. i \in 1 .. Len(s) /\ s[i].key = k
    BY <1>1, <1>2, <1>6
  <2>2. \A j \in 1 .. Len(s) : j > i => s[j].key # k
    BY <1>1, <1>2
  <2>3. s[i].value = v
    BY <1>6, <2>1, <2>2 DEF Agrees
  <2> QED BY <1>1, <2>1, <2>3
<1> QED BY <1>3, <1>4, <1>5, <1>6 DEF t

LEMMA OneLess ==
  ASSUME NEW s \in Seq(ProperEvents), s # << >>, NEW k, NEW v
  PROVE  /\ Agrees(s, k, v) => Agrees(Tail(s), k, v)
         /\ Absent(Tail(s), k) /\ Agrees(s, k, v) => Head(s).key # k \/ Head(s).value = v
         /\ Absent(Tail(s), k) /\ Head(s).key # k => Absent(s, k)
         /\ Head(s) \in ProperEvents
<1> DEFINE t == Tail(s)
<1>1. /\ Len(s) \in Nat \ {0} /\ Head(s) = s[1] /\ Head(s) \in ProperEvents
      /\ Len(t) = Len(s) - 1 /\ \A i \in 1 .. Len(t) : t[i] = s[i + 1]
  BY HeadTailProperties, EmptySeq, LenProperties
<1> HIDE DEF t
<1>2. /\ \A i \in 1 .. Len(t) : i + 1 \in 1 .. Len(s)
      /\ \A i \in 1 .. Len(s) : i = 1 \/ (i - 1 \in 1 .. Len(t) /\ t[i - 1] = s[i])
      /\ 1 \in 1 .. Len(s)
  BY <1>1
<1>3. ASSUME Agrees(s, k, v)  PROVE Agrees(t, k, v)
  <2> SUFFICES ASSUME NEW i \in 1 .. Len(t), t[i].key = k,
                      \A j \in 1 .. Len(t) : j > i => t[j].key # k
               PROVE  t[i].value = v
    BY DEF Agrees
  <2>1. i + 1 \in 1 .. Len(s) /\ s[i + 1].key = k
    BY <1>1, <1>2
  <2>2. ASSUME NEW j \in 1 .. Len(s), j > i + 1  PROVE s[j].key # k
    <3>1. j - 1 \in 1 .. Len(t) /\ t[j - 1] = s[j] /\ j - 1 > i
      BY <1>2, <2>2
    <3> QED BY <3>1
  <2>3. s[i + 1].value = v
    BY <1>3, <2>1, <2>2 DEF Agrees
  <2> QED BY <1>1, <2>3
<1>4. Absent(t, k) => \A j \in 1 .. Len(s) : j > 1 => s[j].key # k
  BY <1>2 DEF Absent
<1>5. Absent(t, k) /\ Agrees(s, k, v) => Head(s).key # k \/ Head(s).value = v
  BY <1>1, <1>2, <1>4 DEF Agrees
<1>6. Absent(t, k) /\ Head(s).key # k => Absent(s, k)
  BY <1>1, <1>2, <1>4 DEF Absent
<1> QED BY <1>1, <1>3, <1>5, <1>6 DEF t

\* From the head of a queue to the end of the one before it.
LEMMA Moved ==
  ASSUME NEW s \in Seq(ProperEvents), NEW t \in Seq(ProperEvents), t # << >>
  PROVE  Append(s, Head(t)) \o Tail(t) = s \o t
<1>1. /\ Head(t) \in ProperEvents /\ Tail(t) \in Seq(ProperEvents)
      /\ <<Head(t)>> \in Seq(ProperEvents)
  BY HeadTailProperties
<1>2. Append(s, Head(t)) = s \o <<Head(t)>>
  BY <1>1, AppendIsConcat
<1>3. (s \o <<Head(t)>>) \o Tail(t) = s \o (<<Head(t)>> \o Tail(t))
  BY <1>1, ConcatAssociative
<1>4. <<Head(t)>> \o Tail(t) = t
  BY HeadTailProperties
<1> QED BY <1>2, <1>3, <1>4

LEMMA Appended ==
  ASSUME NEW s \in Seq(ProperEvents), NEW t \in Seq(ProperEvents), NEW e \in ProperEvents
  PROVE  s \o Append(t, e) = Append(s \o t, e)
<1>1. <<e>> \in Seq(ProperEvents) /\ s \o t \in Seq(ProperEvents)
  BY ConcatProperties
<1>2. Append(t, e) = t \o <<e>> /\ Append(s \o t, e) = (s \o t) \o <<e>>
  BY <1>1, AppendIsConcat
<1>3. (s \o t) \o <<e>> = s \o (t \o <<e>>)
  BY <1>1, ConcatAssociative
<1> QED BY <1>2, <1>3

LEMMA Taken ==
  ASSUME NEW s \in Seq(ProperEvents), NEW t \in Seq(ProperEvents), s # << >>
  PROVE  s \o t # << >> /\ Head(s \o t) = Head(s) /\ Tail(s \o t) = Tail(s) \o t
<1>1. /\ Head(s) \in ProperEvents /\ Tail(s) \in Seq(ProperEvents)
      /\ Len(s) \in Nat \ {0} /\ Len(t) \in Nat /\ Head(s) = s[1]
  BY HeadTailProperties, EmptySeq, LenProperties
<1>2. s \o t \in Seq(ProperEvents) /\ s \o t # << >>
  BY <1>1, ConcatProperties, ConcatEqualIffEmpty
<1>3. Head(s \o t) = Head(s)
  <2>1. 1 \in 1 .. Len(s) + Len(t) /\ 1 <= Len(s)
    BY <1>1
  <2>2. (s \o t)[1] = s[1]
    BY <2>1, ConcatProperties
  <2> QED BY <1>1, <1>2, <2>2, HeadTailProperties
<1>4. Tail(s \o t) = Tail(s) \o t
  <2>1. << >> \in Seq(ProperEvents) /\ <<Head(s)>> \in Seq(ProperEvents)
        /\ Tail(s) \o t \in Seq(ProperEvents)
    BY <1>1, ConcatProperties
  <2>2. s \o t = <<Head(s)>> \o (Tail(s) \o t)
    <3>1. s = <<Head(s)>> \o Tail(s)
      BY HeadTailProperties
    <3>2. (<<Head(s)>> \o Tail(s)) \o t = <<Head(s)>> \o (Tail(s) \o t)
      BY <1>1, <2>1, ConcatAssociative
    <3> QED BY <3>1, <3>2
  <2>3. s \o t = <<Head(s \o t)>> \o Tail(s \o t) /\ Tail(s \o t) \in Seq(ProperEvents)
    BY <1>2, HeadTailProperties
  <2> QED BY <1>3, <2>1, <2>2, <2>3, ConcatSimplifications
<1> QED BY <1>2, <1>3, <1>4

\* What the manager has been told and has not yet applied, in order.
Pending == batch \o (updates \o onTheWay)

\* The configuration has the value of key k, or the exceptions of FileIsMetadata.
Reached(k) ==
  \/ config[k] = metadata[k]
  \/ \E r \in requests : r.key = k /\ r.value = config[k]
  \/ k \in PortKeys \intersect lost /\ config[k] = Null

(***************************************************************************)
(* FileIsMetadata speaks of a manager that settled.  Before that the last  *)
(* event of a key that is pending has the value of the metadata, and a key *)
(* without one has been reached or will be by what was asked for.          *)
(***************************************************************************)
InOrder ==
  \A k \in Keys :
    /\ manager # "down" => Agrees(Pending, k, metadata[k])
    /\ manager = "up" /\ Absent(Pending, k) => Reached(k)

(***************************************************************************)
(* The file has the configuration except while the thread applies, and has *)
(* changed something, or writes.                                           *)
(***************************************************************************)
Stored ==
  /\ manager # "up" => updates = << >> /\ batch = << >>
  /\ manager = "down" => onTheWay = << >>
  /\ manager = "starting" => Contents = config
  /\ writer \in {"poll", "idle", "waiting"} => Contents = config
  /\ writer = "apply" /\ changed = FALSE => Contents = config

LEMMA PendingType ==
  ASSUME Queues
  PROVE  updates \o onTheWay \in Seq(ProperEvents) /\ Pending \in Seq(ProperEvents)
<1>1. updates \o onTheWay \in Seq(ProperEvents)
  BY ConcatProperties DEF Queues
<1> QED BY <1>1, ConcatProperties DEF Queues, Pending

\* Where the pending events stay and no key is lost or found.
LEMMA OrderStays ==
  ASSUME InOrder, UNCHANGED <<metadata, manager, requests, config, lost>>, Pending' = Pending
  PROVE  InOrder'
<1>1. ASSUME NEW k \in Keys
      PROVE  /\ manager # "down" => Agrees(Pending, k, metadata[k])
             /\ manager = "up" /\ Absent(Pending, k) => Reached(k)
  BY DEF InOrder
<1>2. \A k \in Keys : Reached(k)' <=> Reached(k)
  BY DEF Reached
<1>3. \A k \in Keys :
        /\ manager # "down" => Agrees(Pending', k, metadata[k])
        /\ manager = "up" /\ Absent(Pending', k) => Reached(k)'
  BY <1>1, <1>2
<1> QED BY <1>3 DEF InOrder

\* A key that is set is announced at the end of what is pending, if its value changes.
LEMMA SetPending ==
  ASSUME Types, Queues, NEW k \in Keys, NEW v \in Proper(k), Set(k, v),
         UNCHANGED <<batch, updates>>
  PROVE  /\ metadata' = [metadata EXCEPT ![k] = v]
         /\ Pending' = IF metadata[k] # v /\ manager # "down"
                         THEN Append(Pending, [key |-> k, value |-> v]) ELSE Pending
<1>1. [key |-> k, value |-> v] \in ProperEvents
  BY ProperValues
<1>2. CASE metadata[k] # v /\ manager # "down"
  <2>1. onTheWay' = Append(onTheWay, [key |-> k, value |-> v])
    BY <1>2 DEF Set
  <2>2. updates \o onTheWay' = Append(updates \o onTheWay, [key |-> k, value |-> v])
    BY <1>1, <2>1, Appended DEF Queues
  <2>3. batch \o (updates \o onTheWay') = Append(Pending, [key |-> k, value |-> v])
    BY <1>1, <2>2, PendingType, Appended DEF Queues, Pending
  <2> QED BY <1>2, <2>3 DEF Set, Pending
<1>3. CASE ~(metadata[k] # v /\ manager # "down")
  BY <1>3 DEF Set, Pending
<1> QED BY <1>2, <1>3

\* The order for the key that is set, and for the others.
LEMMA SetOrder ==
  ASSUME Types, Queues, InOrder, NEW c \in Keys, NEW v \in Proper(c), Set(c, v),
         UNCHANGED <<batch, updates, manager, config>>,
         lost \ {c} \subseteq lost',
         \A r \in requests : r.key # c => r \in requests',
         manager = "up" /\ metadata[c] = v /\ Reached(c) => Reached(c)'
  PROVE  InOrder'
<1> DEFINE e == [key |-> c, value |-> v]
<1>0. e \in ProperEvents /\ e.key = c /\ e.value = v
  BY ProperValues
<1>1. /\ metadata' = [metadata EXCEPT ![c] = v]
      /\ Pending' = IF metadata[c] # v /\ manager # "down" THEN Append(Pending, e) ELSE Pending
  BY SetPending
<1> HIDE DEF e
<1>2. metadata'[c] = v /\ \A k \in Keys \ {c} : metadata'[k] = metadata[k]
  BY <1>1 DEF Types
<1>3. Pending \in Seq(ProperEvents)
  BY PendingType
<1>4. ASSUME NEW k \in Keys
      PROVE  /\ manager # "down" => Agrees(Pending', k, metadata'[k])
             /\ manager = "up" /\ Absent(Pending', k) => Reached(k)'
  <2>0. /\ manager # "down" => Agrees(Pending, k, metadata[k])
        /\ manager = "up" /\ Absent(Pending, k) => Reached(k)
    BY DEF InOrder
  <2>1. CASE k = c
    <3>1. CASE metadata[c] # v
      BY <1>0, <1>1, <1>2, <1>3, <2>1, <3>1, OneMore
    <3>2. CASE metadata[c] = v
      BY <1>1, <1>2, <2>0, <2>1, <3>2
    <3> QED BY <3>1, <3>2
  <2>2. CASE k # c
    <3>1. metadata'[k] = metadata[k]
      BY <1>2, <2>2
    <3>2. Reached(k) => Reached(k)'
      BY <2>2, <3>1 DEF Reached
    <3>3. /\ Agrees(Pending, k, metadata[k]) => Agrees(Pending', k, metadata[k])
          /\ Absent(Pending', k) => Absent(Pending, k)
      BY <1>0, <1>1, <1>3, <2>2, OneMore
    <3> QED BY <2>0, <3>1, <3>2, <3>3
  <2> QED BY <2>1, <2>2
<1> QED BY <1>4 DEF InOrder

LEMMA ClientOrder ==
  ASSUME Types, Queues, InOrder, NEW c \in Keys, NEW v \in Proper(c), Client(c, v)
  PROVE  InOrder'
<1>1. /\ Set(c, v) /\ UNCHANGED <<batch, updates, manager, config, requests>>
      /\ lost' = IF manager # "up" \/ Asked(c) THEN lost \union {c}
                 ELSE IF metadata[c] = v THEN lost ELSE lost \ {c}
  BY DEF Client, thread
<1>2. ASSUME metadata[c] = v, Reached(c)  PROVE Reached(c)'
  <2>1. metadata'[c] = v
    BY <1>1 DEF Set, Types
  <2>2. lost \subseteq lost'
    BY <1>1, <1>2
  <2> QED BY <1>1, <1>2, <2>1, <2>2 DEF Reached
<1>3. lost \ {c} \subseteq lost'
  BY <1>1
<1> QED BY <1>1, <1>2, <1>3, SetOrder

LEMMA ServeOrder ==
  ASSUME Types, Queues, Promises, InOrder, NEW r \in requests, Serve(r)
  PROVE  InOrder'
<1>1. /\ Set(r.key, r.value) /\ requests' = requests \ {r}
      /\ UNCHANGED <<batch, updates, manager, config, lost>>
  BY DEF Serve, thread, history
<1>2. r.key \in Keys /\ r.value \in Proper(r.key)
  BY DEF Types, ProperEvents, Event
<1>3. ASSUME metadata[r.key] = r.value, Reached(r.key)  PROVE Reached(r.key)'
  <2>1. metadata'[r.key] = r.value
    BY <1>1, <1>2 DEF Set, Types
  <2>2. \A q \in requests : q.key = r.key => q = r
    BY DEF Promises
  <2> QED BY <1>1, <1>3, <2>1, <2>2 DEF Reached
<1>4. \A q \in requests : q.key # r.key => q \in requests'
  BY <1>1
<1> QED BY <1>1, <1>2, <1>3, <1>4, SetOrder

LEMMA StartOrder ==
  ASSUME Types, Queues, Promises, InOrder, Stored,
         Reboot \/ read_config \/ set_initial_metadata \/ Crash
  PROVE  InOrder'
<1>1. CASE Reboot
  <2>1. manager' = "down"
    BY <1>1 DEF Reboot
  <2> QED BY <2>1 DEF InOrder
<1>2. CASE Crash
  <2>1. manager' = "down"
    BY <1>2 DEF Crash
  <2> QED BY <2>1 DEF InOrder
<1>3. CASE read_config
  <2>1. /\ manager = "down" /\ manager' = "starting"
        /\ UNCHANGED <<metadata, onTheWay, updates, batch>>
    BY <1>3 DEF read_config, session
  <2>2. updates = << >> /\ batch = << >> /\ onTheWay = << >>
    BY <2>1 DEF Stored
  <2>3. << >> \in Seq(ProperEvents)
    BY EmptySeq
  <2>4. << >> \o (<< >> \o << >>) = << >>
    BY <2>3, ConcatEmptySeq
  <2>5. Pending' = << >>
    BY <2>1, <2>2, <2>4 DEF Pending
  <2> QED BY <2>1, <2>5, Nothing DEF InOrder
<1>4. CASE set_initial_metadata
  <2>1. /\ manager = "starting" /\ manager' = "up" /\ requests' = restored
        /\ UNCHANGED <<metadata, onTheWay, updates, batch, config, lost>>
    BY <1>4 DEF set_initial_metadata, history
  <2>2. Pending' = Pending
    BY <2>1 DEF Pending
  <2>3. ASSUME NEW k \in Keys  PROVE Reached(k)'
    <3>1. CASE config[k] # Null
      <4>1. [key |-> k, value |-> config[k]] \in restored
        BY <3>1 DEF restored
      <4>2. \E r \in restored : r.key = k /\ r.value = config[k]
        BY <4>1
      <4> QED BY <2>1, <4>2 DEF Reached
    <3>2. CASE config[k] = Null
      <4>1. k \in PortKeys
        <5>1. config[k] \in Proper(k)
          BY ConfigProper DEF Types
        <5> QED BY <3>2, <5>1, KeysAssumption DEF Proper
      <4>2. CASE k \in lost
        BY <2>1, <3>2, <4>1, <4>2 DEF Reached
      <4>3. CASE k \notin lost
        <5>1. metadata[k] \in {wish[k], Null} /\ config[k] = wish[k]
          BY <2>1, <4>3 DEF Promises, Promised
        <5> QED BY <2>1, <3>2, <5>1 DEF Reached
      <4> QED BY <4>2, <4>3
    <3> QED BY <3>1, <3>2
  <2>4. \A k \in Keys : Agrees(Pending, k, metadata[k])
    BY <2>1 DEF InOrder
  <2>5. \A k \in Keys : Agrees(Pending', k, metadata'[k]) /\ Reached(k)'
    BY <2>1, <2>2, <2>3, <2>4
  <2> QED BY <2>5 DEF InOrder
<1> QED BY <1>1, <1>2, <1>3, <1>4

LEMMA ChangedOrder ==
  ASSUME Types, Queues, InOrder, Stored, metadata_changed
  PROVE  InOrder'
<1>1. /\ onTheWay # << >> /\ onTheWay' = Tail(onTheWay)
      /\ UNCHANGED <<metadata, manager, requests, batch, config, lost>>
  BY DEF metadata_changed, history
<1>2. CASE manager = "up"
  <2>1. updates' = Append(updates, Head(onTheWay))
    BY <1>2 DEF metadata_changed
  <2>2. updates' \o onTheWay' = updates \o onTheWay
    BY <1>1, <2>1, Moved DEF Queues
  <2>3. Pending' = Pending
    BY <1>1, <2>2 DEF Pending
  <2> QED BY <1>1, <2>3, OrderStays
<1>3. CASE manager # "up"
  <2>1. updates = << >> /\ batch = << >> /\ updates' = updates
    BY <1>3 DEF Stored, metadata_changed
  <2>2. onTheWay' \in Seq(ProperEvents)
    BY <1>1, HeadTailProperties DEF Queues
  <2>3. \A s \in Seq(ProperEvents) : << >> \o (<< >> \o s) = s
    BY ConcatEmptySeq
  <2>4. Pending = onTheWay /\ Pending' = Tail(onTheWay)
    BY <1>1, <2>1, <2>2, <2>3 DEF Pending, Queues
  <2>5. \A k \in Keys : Agrees(onTheWay, k, metadata[k]) => Agrees(Tail(onTheWay), k, metadata[k])
    BY <1>1, OneLess DEF Queues
  <2> QED BY <1>1, <1>3, <2>4, <2>5 DEF InOrder
<1> QED BY <1>2, <1>3

LEMMA WriterOrder ==
  ASSUME Types, Queues, Promises, InOrder, Writer
  PROVE  InOrder'
<1>1. CASE pop_metadata_update
  <2>1. /\ updates # << >> /\ updates' = Tail(updates) /\ batch' = Append(batch, Head(updates))
        /\ UNCHANGED <<metadata, onTheWay, manager, requests, config, lost>>
    BY <1>1 DEF pop_metadata_update, session, history
  <2>2. /\ Head(updates) \in ProperEvents /\ updates' \in Seq(ProperEvents)
        /\ batch' \in Seq(ProperEvents)
    BY <2>1, HeadTailProperties, AppendProperties DEF Queues
  <2>3. batch' \o updates' = batch \o updates
    BY <2>1, Moved DEF Queues
  <2>4. /\ batch' \o (updates' \o onTheWay) = (batch' \o updates') \o onTheWay
        /\ batch \o (updates \o onTheWay) = (batch \o updates) \o onTheWay
    <3>1. \A s, t, u \in Seq(ProperEvents) : s \o (t \o u) = (s \o t) \o u
      BY ConcatAssociative
    <3>2. updates \in Seq(ProperEvents) /\ batch \in Seq(ProperEvents)
          /\ onTheWay \in Seq(ProperEvents)
      BY DEF Queues
    <3> QED BY <2>2, <3>1, <3>2, Zenon
  <2>5. Pending' = Pending
    BY <2>1, <2>3, <2>4 DEF Pending
  <2> QED BY <2>1, <2>5, OrderStays
<1>2. CASE Apply
  <2> DEFINE e == Head(batch)
  <2>1. /\ batch # << >> /\ batch' = Tail(batch) /\ config' = updated(config, e)
        /\ UNCHANGED <<metadata, onTheWay, updates, manager, requests, lost>>
    BY <1>2 DEF Apply, session, history
  <2>2. e \in ProperEvents /\ e.key \in Keys
    BY <2>1, HeadTailProperties DEF Queues, ProperEvents, Event
  <2>3. config' = [config EXCEPT ![e.key] = e.value]
    BY <2>1, <2>2, UpdatedIsConfig DEF Types
  <2>4. /\ Pending \in Seq(ProperEvents) /\ Pending # << >> /\ Head(Pending) = e
        /\ Pending' = Tail(Pending)
    BY <2>1, PendingType, Taken DEF Pending, Queues
  <2> HIDE DEF e
  <2>5. ASSUME NEW k \in Keys
        PROVE  /\ manager # "down" => Agrees(Pending', k, metadata'[k])
               /\ manager = "up" /\ Absent(Pending', k) => Reached(k)'
    <3>1. /\ manager # "down" => Agrees(Pending, k, metadata[k])
          /\ manager = "up" /\ Absent(Pending, k) => Reached(k)
      BY DEF InOrder
    <3>2. /\ Agrees(Pending, k, metadata[k]) => Agrees(Pending', k, metadata[k])
          /\ Absent(Pending', k) /\ Agrees(Pending, k, metadata[k]) =>
               e.key # k \/ e.value = metadata[k]
          /\ Absent(Pending', k) /\ e.key # k => Absent(Pending, k)
      BY <2>4, OneLess
    <3>3. CASE e.key = k
      <4>1. config'[k] = e.value
        BY <2>3, <3>3 DEF Types, Config
      <4>2. manager = "up" /\ Absent(Pending', k) => config'[k] = metadata'[k]
        BY <2>1, <3>1, <3>2, <3>3, <4>1
      <4> QED BY <2>1, <3>1, <3>2, <4>2 DEF Reached
    <3>4. CASE e.key # k
      <4>1. config'[k] = config[k]
        BY <2>3, <3>4 DEF Types, Config
      <4>2. Reached(k) => Reached(k)'
        BY <2>1, <4>1 DEF Reached
      <4> QED BY <2>1, <3>1, <3>2, <3>4, <4>2
    <3> QED BY <3>3, <3>4
  <2>6. manager' = manager
    BY <2>1
  <2> QED BY <2>5, <2>6 DEF InOrder
<1>3. CASE NothingQueued \/ Applied \/ OpenFile \/ WriteFile \/ Wait \/ TimedOut
  <2>1. UNCHANGED <<metadata, onTheWay, updates, batch, manager, requests, config, lost>>
    BY <1>3 DEF NothingQueued, Applied, OpenFile, WriteFile, Wait, TimedOut, session, history
  <2>2. Pending' = Pending
    BY <2>1 DEF Pending
  <2> QED BY <2>1, <2>2, OrderStays
<1> QED BY <1>1, <1>2, <1>3 DEF Writer

LEMMA StoredNext ==
  ASSUME Types, Queues, Promises, Stored, [Next]_vars
  PROVE  Stored'
<1>1. CASE SetupInputPort \/ ClearInputPort \/ Served
  <2>1. /\ UNCHANGED <<file, manager, updates, writer, batch, config, changed>>
        /\ manager = "down" => onTheWay' = onTheWay
    BY <1>1 DEF SetupInputPort, ClearInputPort, Client, Served, Serve, Set, thread
  <2> QED BY <2>1 DEF Stored, Contents
<1>2. CASE Reboot \/ UNCHANGED vars
  BY <1>2 DEF Reboot, vars, thread, Stored, Contents
<1>3. CASE read_config
  <2>1. Contents' = Contents
    BY <1>3 DEF read_config, Contents
  <2>2. writer = "none"
    BY <1>3 DEF read_config, Promises
  <2> QED BY <1>3, <2>1, <2>2 DEF read_config, Stored
<1>4. CASE set_initial_metadata
  BY <1>4 DEF set_initial_metadata, Stored, Contents
<1>5. CASE Crash
  BY <1>5 DEF Crash, Stored
<1>6. CASE metadata_changed
  BY <1>6 DEF metadata_changed, Stored, Contents
<1>7. CASE Writer
  <2>1. manager = "up" /\ manager' = manager
    BY <1>7 DEF Writer, pop_metadata_update, NothingQueued, Apply, Applied, OpenFile, WriteFile,
                Wait, TimedOut, Promises
  <2>2. CASE pop_metadata_update \/ NothingQueued \/ Wait \/ TimedOut \/ Applied
    BY <2>1, <2>2 DEF pop_metadata_update, NothingQueued, Wait, TimedOut, Applied, Types, Stored,
                      Contents
  <2>3. CASE OpenFile
    BY <2>1, <2>3 DEF OpenFile, Stored
  <2>4. CASE WriteFile
    <3>1. file' = config /\ config' = config
      BY <2>4 DEF WriteFile
    <3>2. Contents' = config'
      BY <3>1, FileAssumption DEF Contents, Types
    <3> QED BY <2>1, <2>4, <3>2 DEF WriteFile, Stored
  <2>5. CASE Apply
    <3> DEFINE e == Head(batch)
    <3>1. /\ batch # << >> /\ config' = updated(config, e) /\ writer = "apply" /\ writer' = writer
          /\ changed' = (changed \/ (IF e.key \in PortKeys
                                        THEN e.value = Null \/ config[e.key] # e.value
                                        ELSE e.value # Null))
          /\ file' = file
      BY <2>5 DEF Apply
    <3>2. e \in ProperEvents /\ e.key \in Keys /\ e.value \in Proper(e.key)
      BY <3>1, HeadTailProperties DEF Queues, ProperEvents, Event
    <3>3. config' = [config EXCEPT ![e.key] = e.value]
      BY <3>1, <3>2, UpdatedIsConfig DEF Types
    <3> HIDE DEF e
    <3>4. ASSUME changed' = FALSE  PROVE changed = FALSE /\ config' = config
      <4>1. changed = FALSE
        BY <3>1, <3>4 DEF Types
      <4>2. e.key \in PortKeys /\ config[e.key] = e.value
        BY <3>1, <3>2, <3>4, KeysAssumption DEF Proper
      <4> QED BY <3>3, <4>1, <4>2 DEF Types, Config
    <3>5. writer' = "apply" /\ changed' = FALSE => Contents' = config'
      BY <3>1, <3>4 DEF Stored, Contents
    <3> QED BY <2>1, <3>1, <3>5 DEF Stored
  <2> QED BY <1>7, <2>2, <2>3, <2>4, <2>5 DEF Writer
<1> QED BY <1>1, <1>2, <1>3, <1>4, <1>5, <1>6, <1>7 DEF Next

LEMMA OrderNext == Types /\ Queues /\ Promises /\ InOrder /\ Stored /\ [Next]_vars => InOrder'
<1> SUFFICES ASSUME Types, Queues, Promises, InOrder, Stored, [Next]_vars  PROVE InOrder'
  OBVIOUS
<1>1. CASE SetupInputPort \/ ClearInputPort
  BY <1>1, ClientsSet, ClientOrder
<1>2. CASE Served
  BY <1>2, ServeOrder DEF Served
<1>3. CASE Reboot \/ read_config \/ set_initial_metadata \/ Crash
  BY <1>3, StartOrder
<1>4. CASE metadata_changed
  BY <1>4, ChangedOrder
<1>5. CASE Writer
  BY <1>5, WriterOrder
<1>6. CASE UNCHANGED vars
  <2>1. UNCHANGED <<metadata, onTheWay, updates, batch, manager, requests, config, lost>>
    BY <1>6 DEF vars
  <2>2. Pending' = Pending
    BY <2>1 DEF Pending
  <2> QED BY <2>1, <2>2, OrderStays
<1> QED BY <1>1, <1>2, <1>3, <1>4, <1>5, <1>6 DEF Next

(***************************************************************************)
(* FileIsMetadata, for any number of keys and of changes under way,        *)
(* through any crashes and new sessions: no event is lost or overtaken on  *)
(* its way, and the thread skips a write only when nothing has changed.    *)
(***************************************************************************)
THEOREM FileFollows == Spec => []FileIsMetadata
<1>1. Init => InOrder /\ Stored
  <2> SUFFICES ASSUME Init  PROVE InOrder /\ Stored
    OBVIOUS
  <2> QED BY DEF Init, InOrder, Stored
<1>2. InOrder /\ Stored => FileIsMetadata
  <2> SUFFICES ASSUME InOrder, Stored, Settled, NEW k \in Keys
               PROVE  \/ metadata[k] = Contents[k]
                      \/ k \in PortKeys \intersect lost /\ Contents[k] = Null
    BY DEF FileIsMetadata
  <2>1. Contents = config /\ requests = {} /\ manager = "up"
    BY DEF Settled, Stored
  <2>2. << >> \in Seq(ProperEvents)
    BY EmptySeq
  <2>3. << >> \o (<< >> \o << >>) = << >>
    BY <2>2, ConcatEmptySeq
  <2>4. Pending = << >>
    BY <2>3 DEF Settled, Pending
  <2>5. Reached(k)
    BY <2>1, <2>4, Nothing DEF InOrder
  <2> QED BY <2>1, <2>5 DEF Reached
<1>3. Types /\ Queues /\ Promises /\ InOrder /\ Stored /\ [Next]_vars => InOrder' /\ Stored'
  BY OrderNext, StoredNext
<1> QED BY <1>1, <1>2, <1>3, TypesInit, TypesNext, PromisesInit, PromisesNext, PTL DEF Spec
=============================================================================
