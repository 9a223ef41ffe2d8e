------------------------- MODULE FilterChainCtrl_proofs -------------------------
(***************************************************************************)
(* What FilterChainCtrl's runs check on an instance, proved for every      *)
(* graph, every set of paths and every capacity: type correctness, the     *)
(* reason a request may get stuck, delivery to the right node, and the     *)
(* implementation of ParameterDelivery.                                    *)
(***************************************************************************)
EXTENDS FilterChainCtrl, SequenceTheorems, TLAPS

-----------------------------------------------------------------------------
(* Typing of the operators *)

\* Every path selects one of the four filter chains.
LEMMA NodeParameterType == \A p \in Paths : NodeParameter(p) \in Chains
BY SizesAssumption DEF PathType, NodeParameter, Chains

\* A request for a path, with an id a parameter may hold, is a request.
LEMMA RequestType ==
  ASSUME NEW p \in Paths, NEW i \in Ids, NEW v \in Values
  PROVE  /\ Request(p, i, v) \in Requests
         /\ Request(p, i, v).path = p
         /\ Request(p, i, v).filter_chain_id = i
         /\ Request(p, i, v).value = v
BY DEF Request, Requests

\* The fields of a request.
LEMMA RequestFields ==
  ASSUME NEW r \in Requests
  PROVE  r.path \in Paths /\ r.filter_chain_id \in Ids /\ r.value \in Values
BY DEF Request, Requests

-----------------------------------------------------------------------------
(* Type correctness *)

LEMMA TypeInit == Init => TypeOK
<1> SUFFICES ASSUME Init PROVE TypeOK
  OBVIOUS
<1>1. globals \in Seq(Nodes) /\ queue \in Seq(Requests) /\ Len(globals) = 0 /\ Len(queue) = 0
  BY EmptySeq DEF Init
<1>2. known \in 0 .. Len(globals) /\ Len(queue) <= Capacity /\ left \in -1 .. Packets
  BY <1>1, SizesAssumption DEF Init
<1> QED
  BY <1>1, <1>2 DEF Init, TypeOK, ControllerStates

\* Each kind of step preserves the types.
LEMMA TypeProcessor == TypeOK /\ Processor => TypeOK'
<1> SUFFICES ASSUME TypeOK, Processor PROVE TypeOK'
  OBVIOUS
<1> USE DEF TypeOK, graph, processor, thread
<1>1. CASE BeginCycle
  <2>1. left' \in -1 .. Packets
    BY <1>1, SizesAssumption DEF BeginCycle
  <2> QED
    BY <1>1, <2>1 DEF BeginCycle
<1>2. ASSUME NEW p \in Paths, NEW v \in Values, ProcessPacket(p, v)
      PROVE  TypeOK'
  <2> DEFINE id == parameters[NodeParameter(p)]
  <2>1. left' \in -1 .. Packets
    BY <1>2, SizesAssumption DEF ProcessPacket
  <2>2. CASE id = Unset
    BY <1>2, <2>1, <2>2 DEF ProcessPacket
  <2>3. CASE id # Unset
    <3>1. id \in Ids
      BY <2>3, NodeParameterType
    <3>2. Request(p, id, v) \in Requests
      BY <3>1, RequestType
    <3>3. queue' \in Seq(Requests) /\ Len(queue') <= Capacity
      <4>1. Push(Request(p, id, v))
        BY <1>2, <2>3 DEF ProcessPacket
      <4>2. Len(queue) \in Nat
        BY LenProperties
      <4> QED
        BY <4>1, <4>2, <3>2, AppendProperties, SizesAssumption DEF Push
    <3> QED
      BY <1>2, <2>1, <2>3, <3>3 DEF ProcessPacket
  <2> QED
    BY <2>2, <2>3
<1>3. CASE EndCycle
  <2>1. left' \in -1 .. Packets
    BY <1>3, SizesAssumption DEF EndCycle
  <2> QED
    BY <1>3, <2>1 DEF EndCycle, notify_all, ControllerStates
<1> QED
  BY <1>1, <1>2, <1>3 DEF Processor

LEMMA TypeController == TypeOK /\ (Controller \/ SpuriousWakeUp) => TypeOK'
<1> SUFFICES ASSUME TypeOK, Controller \/ SpuriousWakeUp PROVE TypeOK'
  OBVIOUS
<1> USE DEF TypeOK, graph, processor, thread, ControllerStates
<1>1. CASE Pop
  <2>1. Head(queue) \in Requests
    BY <1>1, HeadTailProperties DEF Pop
  <2>2. queue' \in Seq(Requests) /\ Len(queue') <= Capacity
    BY <1>1, EmptySeq, SizesAssumption DEF Pop
  <2> QED
    BY <1>1, <2>1, <2>2 DEF Pop
<1>2. CASE Lookup
  <2>1. PICK i \in 1 .. known : target' = globals[i]
    BY <1>2 DEF Lookup
  <2>2. target' \in Nodes
    BY <2>1, ElementOfSeq, LenProperties
  <2> QED
    BY <1>2, <2>2, NodesAssumption DEF Lookup
<1>3. CASE NoProxy
  BY <1>3 DEF NoProxy
<1>4. CASE SetProps
  <2>1. PICK r \in Requests : message = <<r>>
    BY <1>4 DEF SetProps
  <2>2. message[1].value \in Values
    BY <2>1, RequestFields
  <2>3. control' \in [Nodes -> [Controls -> Values \union {Unset}]]
    BY <1>4, <2>2 DEF SetProps
  <2> QED
    BY <1>4, <2>3 DEF SetProps
<1>5. CASE FoundEmpty \/ TestPredicate \/ Block \/ WakeUp \/ SpuriousWakeUp
  BY <1>5 DEF FoundEmpty, TestPredicate, WaitPredicate, Block, WakeUp, SpuriousWakeUp
<1> QED
  BY <1>1, <1>2, <1>3, <1>4, <1>5 DEF Controller

LEMMA TypeMainLoop == TypeOK /\ MainLoop => TypeOK'
<1> SUFFICES ASSUME TypeOK, MainLoop PROVE TypeOK'
  OBVIOUS
<1> USE DEF TypeOK, graph, processor, thread
<1>1. ASSUME NEW n \in Nodes, NodeAdded(n) PROVE TypeOK'
  <2>1. globals' \in Seq(Nodes) /\ known \in 0 .. Len(globals')
    BY <1>1, AppendProperties, LenProperties DEF NodeAdded
  <2> QED
    BY <1>1, <2>1 DEF NodeAdded
<1>2. ASSUME NEW n \in Nodes, NodeRemoved(n) PROVE TypeOK'
  BY <1>2 DEF NodeRemoved
<1>3. ASSUME NEW n \in Nodes, SetParam(n) PROVE TypeOK'
  BY <1>3, NodesAssumption DEF SetParam, Ids
<1>5. ASSUME NEW c \in Chains, SetParamNil(c) PROVE TypeOK'
  BY <1>5 DEF SetParamNil
<1>4. CASE ProcessRegistryEvent
  <2>1. known' \in 0 .. Len(globals)
    BY <1>4, LenProperties DEF ProcessRegistryEvent
  <2> QED
    BY <1>4, <2>1 DEF ProcessRegistryEvent
<1> QED
  BY <1>1, <1>2, <1>3, <1>4, <1>5 DEF MainLoop

LEMMA TypeRestart == TypeOK /\ Restart => TypeOK'
<1> SUFFICES ASSUME TypeOK, Restart PROVE TypeOK'
  OBVIOUS
<1>1. queue' \in Seq(Requests) /\ Len(queue') <= Capacity /\ left' \in -1 .. Packets
  BY EmptySeq, SizesAssumption DEF Restart
<1>2. past' \subseteq Nodes /\ known' \in 0 .. Len(globals')
  <2>1. Len(globals) \in Nat /\ \A i \in 1 .. Len(globals) : globals[i] \in Nodes
    BY LenProperties, ElementOfSeq DEF TypeOK
  <2> QED
    BY <2>1 DEF Restart, Created
<1> QED
  BY <1>1, <1>2 DEF Restart, TypeOK, ControllerStates

LEMMA TypeStutter == TypeOK /\ UNCHANGED vars => TypeOK'
BY DEF TypeOK, vars

LEMMA TypeNext == TypeOK /\ [Next]_vars => TypeOK'
BY TypeProcessor, TypeController, TypeMainLoop, TypeRestart, TypeStutter DEF Next

(***************************************************************************)
(* The state of pmx-filter-chain-ctrl has the types of its variables: in   *)
(* particular the queue never exceeds its capacity and get_proxy is only   *)
(* ever applied to a message that was popped.                              *)
(***************************************************************************)
THEOREM TypeCorrect == Spec => []TypeOK
<1>1. Init => TypeOK
  BY TypeInit
<1>2. TypeOK /\ [Next]_vars => TypeOK'
  BY TypeNext
<1> QED
  BY <1>1, <1>2, PTL DEF Spec

-----------------------------------------------------------------------------
(* Why a request gets stuck *)

LEMMA StuckNext ==
  TypeOK /\ StuckOnlyByMissedNotify /\ [Next]_vars => StuckOnlyByMissedNotify'
<1> SUFFICES ASSUME TypeOK, StuckOnlyByMissedNotify, [Next]_vars
             PROVE  StuckOnlyByMissedNotify'
  OBVIOUS
<1> USE DEF StuckOnlyByMissedNotify, Notifies, graph, processor, thread
<1>1. CASE BeginCycle
  BY <1>1 DEF BeginCycle
<1>2. ASSUME NEW p \in Paths, NEW v \in Values, ProcessPacket(p, v)
      PROVE  StuckOnlyByMissedNotify'
  <2>1. left' >= 0
    BY <1>2, SizesAssumption DEF ProcessPacket, TypeOK
  <2>2. CASE parameters[NodeParameter(p)] = Unset
    BY <1>2, <2>1, <2>2 DEF ProcessPacket, TypeOK
  <2>3. CASE parameters[NodeParameter(p)] # Unset
    BY <1>2, <2>1, <2>3 DEF ProcessPacket
  <2> QED
    BY <2>2, <2>3
<1>3. CASE EndCycle
  BY <1>3 DEF EndCycle, notify_all
<1>4. CASE Controller \/ SpuriousWakeUp
  <2>1. CASE Pop \/ Lookup \/ NoProxy \/ SetProps \/ FoundEmpty
    BY <2>1 DEF Pop, Lookup, NoProxy, SetProps, FoundEmpty
  <2>2. CASE TestPredicate
    BY <2>2 DEF TestPredicate, WaitPredicate
  <2>3. CASE Block \/ WakeUp \/ SpuriousWakeUp
    BY <2>3 DEF Block, WakeUp, SpuriousWakeUp
  <2> QED
    BY <1>4, <2>1, <2>2, <2>3 DEF Controller
<1>5. CASE MainLoop
  BY <1>5 DEF MainLoop, NodeAdded, NodeRemoved, SetParam, SetParamNil, ProcessRegistryEvent
<1>6. CASE Restart
  BY <1>6 DEF Restart
<1>7. CASE UNCHANGED vars
  BY <1>7 DEF vars
<1> QED
  BY <1>1, <1>2, <1>3, <1>4, <1>5, <1>6, <1>7 DEF Next, Processor

(***************************************************************************)
(* For every capacity and every traffic, the controller thread sleeps on a *)
(* non-empty queue only when a notification fell into the unlocked window  *)
(* before its wait, or when the notification is still to come.             *)
(***************************************************************************)
THEOREM StuckOnlyByRace == Spec => []StuckOnlyByMissedNotify
<1>1. Init => StuckOnlyByMissedNotify
  BY DEF Init, StuckOnlyByMissedNotify
<1>2. TypeOK /\ StuckOnlyByMissedNotify /\ [Next]_vars => StuckOnlyByMissedNotify'
  BY StuckNext
<1> QED
  BY <1>1, <1>2, TypeCorrect, PTL DEF Spec

-----------------------------------------------------------------------------
(* Delivery to the right node *)

\* The announced nodes are distinct, the living ones were announced, those of the
\* past are dead, and a node whose id a later node bears is dead.
GraphInv ==
  /\ \A i, j \in 1 .. Len(globals) : globals[i] = globals[j] => i = j
  /\ \A n \in live : \E i \in 1 .. Len(globals) : globals[i] = n
  /\ \A n \in past : n \notin live /\ \E i \in 1 .. Len(globals) : globals[i] = n
  /\ \A i, j \in 1 .. Len(globals) :
       (i < j /\ IdOf[globals[i]] = IdOf[globals[j]]) => globals[i] \notin live

\* The id was given for a node of that role that has been announced to this
\* process, and whoever bore it before is gone.
Named(id, role) ==
  \E k \in 1 .. Len(globals) :
     /\ IdOf[globals[k]] = id /\ RoleOf[globals[k]] = role /\ globals[k] \notin past
     /\ \A j \in 1 .. Len(globals) :
          (j < k /\ IdOf[globals[j]] = id) => globals[j] \notin live

NamedRequest(r) == Named(r.filter_chain_id, NodeParameter(r.path))

\* The node about to be written to is gone or is the chain the path names.
TargetInv ==
  controller = "apply" =>
     /\ \E i \in 1 .. Len(globals) : globals[i] = target
     /\ target \in live => RoleOf[target] = NodeParameter(message[1].path)

NamesInv ==
  /\ \A c \in Chains : parameters[c] # Unset => Named(parameters[c], c)
  /\ \A i \in 1 .. Len(queue) : NamedRequest(queue[i])
  /\ message # << >> => NamedRequest(message[1])

OwnInv == GraphInv /\ NamesInv /\ TargetInv

LEMMA OwnInit == Init => OwnInv
<1> SUFFICES ASSUME Init PROVE OwnInv
  OBVIOUS
<1>1. Len(globals) = 0 /\ Len(queue) = 0
  BY EmptySeq DEF Init
<1> QED
  BY <1>1 DEF Init, OwnInv, GraphInv, NamesInv, TargetInv

\* A step that leaves the graph alone leaves every name as it is.
LEMMA NamedStable ==
  ASSUME UNCHANGED <<live, globals, past>>
  PROVE  \A id, role : Named(id, role)' = Named(id, role)
BY DEF Named

\* A node that appears takes no name away, a node that goes away neither.
LEMMA NamedKept ==
  ASSUME TypeOK, GraphInv, NEW n \in Nodes, NodeAdded(n) \/ NodeRemoved(n)
  PROVE  \A id, role : Named(id, role) => Named(id, role)'
<1> SUFFICES ASSUME NEW id, NEW role, Named(id, role) PROVE Named(id, role)'
  OBVIOUS
<1>1. PICK k \in 1 .. Len(globals) :
        /\ IdOf[globals[k]] = id /\ RoleOf[globals[k]] = role /\ globals[k] \notin past
        /\ \A j \in 1 .. Len(globals) :
             (j < k /\ IdOf[globals[j]] = id) => globals[j] \notin live
  BY DEF Named
<1>2. CASE NodeAdded(n)
  <2>1. /\ Len(globals') = Len(globals) + 1
        /\ \A i \in 1 .. Len(globals) : globals'[i] = globals[i]
        /\ Len(globals) \in Nat
    BY <1>2, AppendProperties, LenProperties DEF NodeAdded, TypeOK
  <2>2. \A i \in 1 .. Len(globals) : globals[i] # n
    BY <1>2 DEF NodeAdded, Created
  <2>3. live' = live \union {n} /\ past' = past
    BY <1>2 DEF NodeAdded
  <2>4. k \in 1 .. Len(globals')
    BY <2>1
  <2>5. ASSUME NEW j \in 1 .. Len(globals'), j < k, IdOf[globals'[j]] = id
        PROVE  globals'[j] \notin live'
    <3>1. j \in 1 .. Len(globals)
      BY <2>1, <2>5
    <3> QED
      BY <1>1, <2>1, <2>2, <2>3, <2>5, <3>1
  <2> QED
    BY <1>1, <2>1, <2>3, <2>4, <2>5 DEF Named
<1>3. CASE NodeRemoved(n)
  BY <1>1, <1>3 DEF NodeRemoved, Named
<1> QED
  BY <1>2, <1>3

\* The graph part is inductive by itself.
LEMMA GraphNext == TypeOK /\ GraphInv /\ [Next]_vars => GraphInv'
<1> SUFFICES ASSUME TypeOK, GraphInv, [Next]_vars PROVE GraphInv'
  OBVIOUS
<1>1. CASE UNCHANGED <<live, globals, past>>
  BY <1>1 DEF GraphInv
<1>2. ASSUME NEW n \in Nodes, NodeAdded(n) PROVE GraphInv'
  <2>1. /\ Len(globals') = Len(globals) + 1
        /\ \A i \in 1 .. Len(globals) : globals'[i] = globals[i]
        /\ globals'[Len(globals) + 1] = n
        /\ Len(globals) \in Nat
    BY <1>2, AppendProperties, LenProperties DEF NodeAdded, TypeOK
  <2>2. \A i \in 1 .. Len(globals) : globals[i] # n
    BY <1>2 DEF NodeAdded, Created
  <2>3. live' = live \union {n} /\ past' = past /\ \A m \in live : IdOf[m] # IdOf[n]
    BY <1>2 DEF NodeAdded
  <2>4. \A i, j \in 1 .. Len(globals') : globals'[i] = globals'[j] => i = j
    BY <2>1, <2>2 DEF GraphInv
  <2>5. \A m \in live' : \E i \in 1 .. Len(globals') : globals'[i] = m
    <3> SUFFICES ASSUME NEW m \in live'
                 PROVE  \E i \in 1 .. Len(globals') : globals'[i] = m
      OBVIOUS
    <3>1. CASE m = n
      BY <2>1, <3>1
    <3>2. CASE m \in live
      <4>1. PICK i \in 1 .. Len(globals) : globals[i] = m
        BY <3>2 DEF GraphInv
      <4> QED
        BY <2>1, <4>1
    <3> QED
      BY <2>3, <3>1, <3>2
  <2>6. \A i, j \in 1 .. Len(globals') :
          (i < j /\ IdOf[globals'[i]] = IdOf[globals'[j]]) => globals'[i] \notin live'
    <3> SUFFICES ASSUME NEW i \in 1 .. Len(globals'), NEW j \in 1 .. Len(globals'),
                        i < j, IdOf[globals'[i]] = IdOf[globals'[j]]
                 PROVE  globals[i] \notin live /\ globals'[i] # n /\ globals'[i] = globals[i]
      BY <2>3
    <3>1. i \in 1 .. Len(globals) /\ globals'[i] = globals[i] /\ globals[i] # n
      BY <2>1, <2>2
    <3>2. j \in 1 .. Len(globals) \/ j = Len(globals) + 1
      BY <2>1
    <3> QED
      BY <2>1, <2>3, <3>1, <3>2 DEF GraphInv
  <2>7. \A m \in past' : m \notin live' /\ \E i \in 1 .. Len(globals') : globals'[i] = m
    <3> SUFFICES ASSUME NEW m \in past
                 PROVE  m \notin live' /\ \E i \in 1 .. Len(globals') : globals'[i] = m
      BY <2>3
    <3>1. PICK i \in 1 .. Len(globals) : globals[i] = m
      BY DEF GraphInv
    <3> QED
      BY <2>1, <2>2, <2>3, <3>1 DEF GraphInv
  <2> QED
    BY <2>4, <2>5, <2>6, <2>7 DEF GraphInv
<1>3. ASSUME NEW n \in Nodes, NodeRemoved(n) PROVE GraphInv'
  BY <1>3 DEF NodeRemoved, GraphInv
<1>4. CASE Processor
  BY <1>1, <1>4 DEF Processor, BeginCycle, ProcessPacket, EndCycle, graph
<1>5. CASE Controller \/ SpuriousWakeUp
  BY <1>1, <1>5 DEF Controller, Pop, Lookup, NoProxy, SetProps, FoundEmpty, TestPredicate,
                    Block, WakeUp, SpuriousWakeUp, graph
<1>6. CASE ProcessRegistryEvent \/ (\E n \in Nodes : SetParam(n))
           \/ (\E c \in Chains : SetParamNil(c))
  BY <1>1, <1>6 DEF ProcessRegistryEvent, SetParam, SetParamNil, graph
<1>7. CASE Restart
  <2>1. UNCHANGED <<live, globals>> /\ past' = Created \ live
    BY <1>7 DEF Restart
  <2> QED
    BY <2>1 DEF GraphInv, Created
<1>8. CASE UNCHANGED vars
  BY <1>1, <1>8 DEF vars
<1> QED
  BY <1>2, <1>3, <1>4, <1>5, <1>6, <1>7, <1>8 DEF Next, MainLoop

\* A parameter is only ever set to the id of a node of its role that was announced.
LEMMA AnnouncedIsNamed ==
  ASSUME GraphInv, NEW n \in Created, n \notin past
  PROVE  Named(IdOf[n], RoleOf[n])
<1>1. PICK k \in 1 .. Len(globals) : globals[k] = n
  BY DEF Created
<1> QED
  BY <1>1 DEF GraphInv, Named

LEMMA NamesNext == TypeOK /\ GraphInv /\ NamesInv /\ [Next]_vars => NamesInv'
<1> SUFFICES ASSUME TypeOK, GraphInv, NamesInv, [Next]_vars PROVE NamesInv'
  OBVIOUS
<1> USE DEF NamesInv, NamedRequest
<1>0. ASSUME UNCHANGED <<live, globals, past>>
      PROVE  \A id, role : Named(id, role)' = Named(id, role)
  BY <1>0, NamedStable
<1>1. CASE UNCHANGED <<live, globals, past, parameters, queue, message>>
  BY <1>0, <1>1
<1>2. CASE BeginCycle \/ EndCycle
  BY <1>1, <1>2 DEF BeginCycle, EndCycle, graph, thread
<1>3. ASSUME NEW p \in Paths, NEW v \in Values, ProcessPacket(p, v) PROVE NamesInv'
  <2> DEFINE id == parameters[NodeParameter(p)]
             r == Request(p, id, v)
  <2>1. UNCHANGED <<live, globals, past, parameters, message>>
    BY <1>3 DEF ProcessPacket, graph, thread
  <2>2. CASE queue' = queue
    BY <1>1, <2>1, <2>2
  <2>3. CASE id # Unset /\ queue' = Append(queue, r)
    <3>1. id \in Ids /\ Named(id, NodeParameter(p))
      BY <2>3, NodeParameterType DEF TypeOK
    <3>2. r \in Requests /\ r.path = p /\ r.filter_chain_id = id
      BY <3>1, RequestType
    <3>3. NamedRequest(r)
      BY <3>1, <3>2
    <3>4. /\ Len(queue') = Len(queue) + 1
          /\ \A i \in 1 .. Len(queue) : queue'[i] = queue[i]
          /\ queue'[Len(queue) + 1] = r
          /\ Len(queue) \in Nat
      BY <2>3, <3>2, AppendProperties, LenProperties DEF TypeOK
    <3>5. \A i \in 1 .. Len(queue') : NamedRequest(queue'[i])
      BY <3>3, <3>4
    <3>6. \A i \in 1 .. Len(queue') : NamedRequest(queue[i])'
      BY <3>5, <1>0, <2>1
    <3> QED
      BY <1>0, <2>1, <3>6
  <2> QED
    BY <1>3, <2>2, <2>3 DEF ProcessPacket, Push
<1>4. CASE Pop
  <2>1. /\ queue # << >> /\ message' = <<Head(queue)>> /\ queue' = << >>
        /\ UNCHANGED <<live, globals, past, parameters>>
    BY <1>4 DEF Pop, graph
  <2>2. Len(queue) \in Nat \ {0} /\ message'[1] = queue[1] /\ Len(queue') = 0
    BY <2>1, LenProperties, EmptySeq DEF TypeOK
  <2>3. NamedRequest(message'[1])
    BY <2>2
  <2>4. NamedRequest(message[1])'
    BY <1>0, <2>1, <2>3
  <2> QED
    BY <1>0, <2>1, <2>2, <2>4
<1>5. CASE NoProxy \/ SetProps
  <2>1. message' = << >> /\ UNCHANGED <<live, globals, past, parameters, queue>>
    BY <1>5 DEF NoProxy, SetProps, graph
  <2> QED
    BY <1>0, <2>1
<1>6. CASE Lookup \/ FoundEmpty \/ TestPredicate \/ Block \/ WakeUp \/ SpuriousWakeUp
  BY <1>1, <1>6 DEF Lookup, FoundEmpty, TestPredicate, Block, WakeUp, SpuriousWakeUp,
                    graph, thread
<1>7. ASSUME NEW n \in Nodes, NodeAdded(n) \/ NodeRemoved(n) PROVE NamesInv'
  <2>1. \A id, role : Named(id, role) => Named(id, role)'
    BY <1>7, NamedKept
  <2>2. UNCHANGED <<parameters, queue, message>>
    BY <1>7 DEF NodeAdded, NodeRemoved, thread
  <2> QED
    BY <2>1, <2>2
<1>8. ASSUME NEW n \in Nodes, SetParam(n) PROVE NamesInv'
  <2>1. n \in Created /\ n \notin past /\ UNCHANGED <<live, globals, past, queue, message>>
        /\ parameters' = [parameters EXCEPT ![RoleOf[n]] = IdOf[n]]
    BY <1>8 DEF SetParam, graph, thread
  <2>2. Named(IdOf[n], RoleOf[n])
    BY <2>1, AnnouncedIsNamed
  <2>3. \A c \in Chains : parameters'[c] # Unset => Named(parameters'[c], c)
    BY <2>1, <2>2 DEF TypeOK
  <2>4. \A c \in Chains : (parameters[c] # Unset => Named(parameters[c], c))'
    BY <1>0, <2>1, <2>3
  <2> QED
    BY <1>0, <2>1, <2>4
<1>9. ASSUME NEW c \in Chains, SetParamNil(c) PROVE NamesInv'
  <2>1. UNCHANGED <<live, globals, past, queue, message>>
        /\ parameters' = [parameters EXCEPT ![c] = Unset]
    BY <1>9 DEF SetParamNil, graph, thread
  <2>2. \A d \in Chains : (parameters[d] # Unset => Named(parameters[d], d))'
    BY <1>0, <2>1 DEF TypeOK
  <2> QED
    BY <1>0, <2>1, <2>2
<1>12. CASE ProcessRegistryEvent
  BY <1>1, <1>12 DEF ProcessRegistryEvent, thread
<1>10. CASE Restart
  <2>1. /\ queue' = << >> /\ message' = << >> /\ Len(queue') = 0
        /\ parameters' = [c \in Chains |-> Unset]
    BY <1>10, EmptySeq DEF Restart
  <2> QED
    BY <2>1
<1>11. CASE UNCHANGED vars
  BY <1>1, <1>11 DEF vars
<1> QED
  BY <1>2, <1>3, <1>4, <1>5, <1>6, <1>7, <1>8, <1>9, <1>10, <1>11, <1>12
     DEF Next, Processor, Controller, MainLoop

\* The first proxy with a named id is a dead node or the node that was meant.
LEMMA FirstIsMeant ==
  ASSUME TypeOK, GraphInv, NEW r, NamedRequest(r), NEW i \in 1 .. known,
         get_proxy(r.filter_chain_id, i), globals[i] \in live
  PROVE  RoleOf[globals[i]] = NodeParameter(r.path)
<1>1. PICK k \in 1 .. Len(globals) :
        /\ IdOf[globals[k]] = r.filter_chain_id
        /\ RoleOf[globals[k]] = NodeParameter(r.path)
        /\ globals[k] \notin past
        /\ \A j \in 1 .. Len(globals) :
             (j < k /\ IdOf[globals[j]] = r.filter_chain_id) => globals[j] \notin live
  BY DEF NamedRequest, Named
<1>2. i \in 1 .. Len(globals) /\ k \in Nat /\ i \in Nat /\ known \in Nat
  BY LenProperties DEF TypeOK
<1>3. ~ (i < k)
  BY <1>1, <1>2 DEF get_proxy, IsProxy
<1>4. ~ (k < i)
  <2> SUFFICES ASSUME k < i PROVE FALSE
    OBVIOUS
  <2>1. k \in 1 .. known
    BY <1>2
  <2> QED
    BY <1>1, <1>2, <2>1 DEF get_proxy, IsProxy
<1> QED
  BY <1>1, <1>2, <1>3, <1>4

LEMMA TargetNext ==
  TypeOK /\ GraphInv /\ NamesInv /\ TargetInv /\ [Next]_vars => TargetInv'
<1> SUFFICES ASSUME TypeOK, GraphInv, NamesInv, TargetInv, [Next]_vars PROVE TargetInv'
  OBVIOUS
<1>1. CASE UNCHANGED <<live, globals, controller, message, target>>
  BY <1>1 DEF TargetInv
<1>2. CASE Processor
  <2>1. UNCHANGED <<live, globals, message, target>>
    BY <1>2 DEF Processor, BeginCycle, ProcessPacket, EndCycle, graph, thread
  <2>2. controller' = controller \/ controller' = "notified"
    BY <1>2 DEF Processor, BeginCycle, ProcessPacket, EndCycle, notify_all
  <2> QED
    BY <2>1, <2>2 DEF TargetInv
<1>3. CASE Lookup
  <2>1. PICK i \in 1 .. known : /\ get_proxy(message[1].filter_chain_id, i)
                                /\ target' = globals[i]
    BY <1>3 DEF Lookup
  <2>2. message # << >> /\ NamedRequest(message[1])
    BY <1>3 DEF Lookup, TypeOK, NamesInv
  <2>3. globals[i] \in live => RoleOf[globals[i]] = NodeParameter(message[1].path)
    BY <2>1, <2>2, FirstIsMeant
  <2>4. i \in 1 .. Len(globals)
    BY LenProperties DEF TypeOK
  <2> QED
    BY <1>3, <2>1, <2>3, <2>4 DEF Lookup, TargetInv, graph
<1>4. CASE Pop \/ NoProxy \/ SetProps \/ FoundEmpty \/ TestPredicate \/ Block \/ WakeUp
           \/ SpuriousWakeUp
  BY <1>4 DEF Pop, NoProxy, SetProps, FoundEmpty, TestPredicate, Block, WakeUp,
              SpuriousWakeUp, TargetInv
<1>5. ASSUME NEW n \in Nodes, NodeAdded(n) PROVE TargetInv'
  <2>1. /\ Len(globals') = Len(globals) + 1
        /\ \A i \in 1 .. Len(globals) : globals'[i] = globals[i]
        /\ Len(globals) \in Nat
    BY <1>5, AppendProperties, LenProperties DEF NodeAdded, TypeOK
  <2>2. /\ \A i \in 1 .. Len(globals) : globals[i] # n
        /\ live' = live \union {n}
        /\ UNCHANGED <<controller, message, target>>
    BY <1>5 DEF NodeAdded, Created, thread
  <2>3. ASSUME controller = "apply"
        PROVE  /\ \E i \in 1 .. Len(globals') : globals'[i] = target
               /\ target \in live' => RoleOf[target] = NodeParameter(message[1].path)
    <3>1. PICK i \in 1 .. Len(globals) : globals[i] = target
      BY <2>3 DEF TargetInv
    <3> QED
      BY <2>1, <2>2, <2>3, <3>1 DEF TargetInv
  <2> QED
    BY <2>2, <2>3 DEF TargetInv
<1>6. ASSUME NEW n \in Nodes, NodeRemoved(n) PROVE TargetInv'
  BY <1>6 DEF NodeRemoved, TargetInv, thread
<1>7. CASE ProcessRegistryEvent \/ (\E n \in Nodes : SetParam(n))
           \/ (\E c \in Chains : SetParamNil(c))
  BY <1>1, <1>7 DEF ProcessRegistryEvent, SetParam, SetParamNil, graph, thread
<1>8. CASE Restart
  BY <1>8 DEF Restart, TargetInv
<1>9. CASE UNCHANGED vars
  BY <1>1, <1>9 DEF vars
<1> QED
  BY <1>2, <1>3, <1>4, <1>5, <1>6, <1>7, <1>8, <1>9 DEF Next, Controller, MainLoop

\* The only step that writes is SetProps, and it writes where the path points.
LEMMA OwnStep == TypeOK /\ OwnInv /\ [Next]_vars => [OwnControlsStep]_vars
<1> SUFFICES ASSUME TypeOK, OwnInv, [Next]_vars PROVE OwnControlsStep
  OBVIOUS
<1>1. CASE control' = control
  BY <1>1 DEF OwnControlsStep
<1>2. CASE SetProps
  <2>1. CASE target \notin live
    BY <1>1, <1>2, <2>1 DEF SetProps
  <2>2. CASE target \in live
    <3> DEFINE p == message[1].path
    <3>1. message # << >> /\ RoleOf[target] = NodeParameter(p)
      BY <1>2, <2>2 DEF SetProps, OwnInv, TargetInv, TypeOK
    <3>2. \A n \in Nodes, c \in Controls :
            control'[n][c] # control[n][c] => n = target /\ c = ParameterName(p)
      BY <1>2, <2>2 DEF SetProps, TypeOK
    <3> QED
      BY <3>1, <3>2 DEF OwnControlsStep, MeantFor
  <2> QED
    BY <2>1, <2>2
<1>3. CASE Processor \/ MainLoop \/ SpuriousWakeUp \/ Restart
  BY <1>1, <1>3 DEF Processor, MainLoop, BeginCycle, ProcessPacket, EndCycle, NodeAdded,
                    NodeRemoved, SetParam, SetParamNil, ProcessRegistryEvent,
                    SpuriousWakeUp, Restart
<1>4. CASE Pop \/ Lookup \/ NoProxy \/ FoundEmpty \/ TestPredicate \/ Block \/ WakeUp
  BY <1>1, <1>4 DEF Pop, Lookup, NoProxy, FoundEmpty, TestPredicate, Block, WakeUp
<1>5. CASE UNCHANGED vars
  BY <1>1, <1>5 DEF vars
<1> QED
  BY <1>2, <1>3, <1>4, <1>5 DEF Next, Controller

(***************************************************************************)
(* In every graph, with ids reused in any way, a step changes only the     *)
(* control its own request names, on a node that is the chain that         *)
(* request's path is meant for: never one of the other group.              *)
(***************************************************************************)
THEOREM RightNode == Spec => OnlyOwnControls
<1>1. Init => OwnInv
  BY OwnInit
<1>2. TypeOK /\ OwnInv /\ [Next]_vars => OwnInv'
  BY GraphNext, NamesNext, TargetNext DEF OwnInv
<1>3. TypeOK /\ OwnInv /\ [Next]_vars => [OwnControlsStep]_vars
  BY OwnStep
<1> QED
  BY <1>1, <1>2, <1>3, TypeCorrect, PTL DEF Spec, OnlyOwnControls

-----------------------------------------------------------------------------
(* FilterChainCtrl implements ParameterDelivery *)

LEMMA AbstractRequestType ==
  ASSUME NEW r \in Requests
  PROVE  AbstractRequest(r) \in AbstractRequests
BY RequestFields, NodeParameterType DEF AbstractRequest, AbstractRequests, Controls

\* The abstraction works element by element, and so commutes with the queue.
LEMMA AbstractedSeq ==
  ASSUME NEW s \in Seq(Requests)
  PROVE  /\ Abstracted(s) \in Seq(AbstractRequests)
         /\ Len(Abstracted(s)) = Len(s)
         /\ \A i \in 1 .. Len(s) : Abstracted(s)[i] = AbstractRequest(s[i])
<1>1. Len(s) \in Nat /\ \A i \in 1 .. Len(s) : s[i] \in Requests
  BY LenProperties, ElementOfSeq
<1>2. \A i \in 1 .. Len(s) : AbstractRequest(s[i]) \in AbstractRequests
  BY <1>1, AbstractRequestType
<1> QED
  BY <1>1, <1>2 DEF Abstracted

LEMMA AbstractedAppend ==
  ASSUME NEW s \in Seq(Requests), NEW r \in Requests
  PROVE  Abstracted(Append(s, r)) = Append(Abstracted(s), AbstractRequest(r))
<1> DEFINE t == Append(s, r)
           u == Append(Abstracted(s), AbstractRequest(r))
<1>1. /\ t \in Seq(Requests) /\ Len(t) = Len(s) + 1 /\ Len(s) \in Nat
      /\ \A i \in 1 .. Len(s) : t[i] = s[i]
      /\ t[Len(s) + 1] = r
  BY AppendProperties, LenProperties
<1>2. /\ u \in Seq(AbstractRequests) /\ Len(u) = Len(s) + 1
      /\ \A i \in 1 .. Len(s) : u[i] = AbstractRequest(s[i])
      /\ u[Len(s) + 1] = AbstractRequest(r)
  BY AbstractedSeq, AbstractRequestType, AppendProperties
<1>3. /\ Abstracted(t) \in Seq(AbstractRequests) /\ Len(Abstracted(t)) = Len(s) + 1
      /\ \A i \in 1 .. Len(s) + 1 : Abstracted(t)[i] = AbstractRequest(t[i])
  BY <1>1, AbstractedSeq
<1>4. \A i \in 1 .. Len(s) + 1 : Abstracted(t)[i] = u[i]
  <2> SUFFICES ASSUME NEW i \in 1 .. Len(s) + 1 PROVE Abstracted(t)[i] = u[i]
    OBVIOUS
  <2>1. i \in 1 .. Len(s) \/ i = Len(s) + 1
    BY <1>1
  <2> HIDE DEF t, u
  <2> QED
    BY <2>1, <1>1, <1>2, <1>3
<1> HIDE DEF t, u
<1>5. Abstracted(t) = u
  BY <1>2, <1>3, <1>4, SeqEqual
<1> QED
  BY <1>5 DEF t, u

LEMMA AbstractedCons ==
  ASSUME NEW r \in Requests, NEW s \in Seq(Requests)
  PROVE  /\ Abstracted(<<r>> \o s) # << >>
         /\ Head(Abstracted(<<r>> \o s)) = AbstractRequest(r)
         /\ Tail(Abstracted(<<r>> \o s)) = Abstracted(s)
<1> DEFINE t == <<r>> \o s
           u == Abstracted(t)
<1>1. /\ <<r>> \in Seq(Requests) /\ Len(<<r>>) = 1 /\ <<r>>[1] = r
  OBVIOUS
<1>2. /\ t \in Seq(Requests) /\ Len(t) = Len(s) + 1 /\ Len(s) \in Nat
      /\ t[1] = r
      /\ \A i \in 1 .. Len(s) : t[i + 1] = s[i]
  <2>1. Len(s) \in Nat
    BY LenProperties
  <2>2. /\ t \in Seq(Requests) /\ Len(t) = 1 + Len(s)
        /\ \A i \in 1 .. 1 + Len(s) : t[i] = IF i <= 1 THEN <<r>>[i] ELSE s[i - 1]
    BY <1>1, ConcatProperties
  <2> QED
    BY <1>1, <2>1, <2>2
<1>3. /\ u \in Seq(AbstractRequests) /\ Len(u) = Len(s) + 1
      /\ \A i \in 1 .. Len(s) + 1 : u[i] = AbstractRequest(t[i])
  BY <1>2, AbstractedSeq
<1>4. u # << >> /\ Head(u) = AbstractRequest(r)
  BY <1>2, <1>3
<1>5. /\ Tail(u) \in Seq(AbstractRequests) /\ Len(Tail(u)) = Len(s)
      /\ \A i \in 1 .. Len(s) : Tail(u)[i] = u[i + 1]
  BY <1>2, <1>3, <1>4, HeadTailProperties
<1>6. \A i \in 1 .. Len(s) : Tail(u)[i] = Abstracted(s)[i]
  BY <1>2, <1>3, <1>5, AbstractedSeq
<1>7. Tail(u) = Abstracted(s)
  BY <1>5, <1>6, AbstractedSeq, SeqEqual
<1> QED
  BY <1>4, <1>7

\* The node about to be written to bears the id its request names.
TargetId == controller = "apply" => IdOf[target] = message[1].filter_chain_id

LEMMA TargetIdNext == TypeOK /\ TargetId /\ [Next]_vars => TargetId'
<1> SUFFICES ASSUME TypeOK, TargetId, [Next]_vars PROVE TargetId'
  OBVIOUS
<1>1. CASE Lookup
  BY <1>1 DEF Lookup, get_proxy, IsProxy, TargetId
<1>2. CASE Processor
  BY <1>2 DEF Processor, BeginCycle, ProcessPacket, EndCycle, notify_all, thread, TargetId
<1>3. CASE Pop \/ NoProxy \/ SetProps \/ FoundEmpty \/ TestPredicate \/ Block \/ WakeUp
           \/ SpuriousWakeUp
  BY <1>3 DEF Pop, NoProxy, SetProps, FoundEmpty, TestPredicate, Block, WakeUp,
              SpuriousWakeUp, TargetId
<1>4. CASE MainLoop \/ Restart \/ UNCHANGED vars
  BY <1>4 DEF MainLoop, NodeAdded, NodeRemoved, SetParam, SetParamNil, ProcessRegistryEvent,
              Restart, vars, thread, TargetId
<1> QED
  BY <1>1, <1>2, <1>3, <1>4 DEF Next, Controller

\* A step that keeps the accepted requests and the controls is a stutter.
LEMMA StutterStep ==
  ASSUME accepted' = accepted, control' = control
  PROVE  UNCHANGED Delivery!pvars
BY DEF Delivery!pvars, Abstracted, AbstractRequest, ParameterName

LEMMA DeliveryInit == Init => Delivery!Init
<1> SUFFICES ASSUME Init PROVE Delivery!Init
  OBVIOUS
<1>1. accepted = << >>
  BY DEF Init, accepted
<1>2. Abstracted(<< >>) = << >>
  BY DEF Abstracted
<1> QED
  BY <1>1, <1>2 DEF Init, Delivery!Init

LEMMA DeliveryNext ==
  TypeOK /\ TypeOK' /\ TargetId /\ [Next]_vars => [Delivery!Next]_(Delivery!pvars)
<1> SUFFICES ASSUME TypeOK, TypeOK', TargetId, [Next]_vars
             PROVE  [Delivery!Next]_(Delivery!pvars)
  OBVIOUS
<1>1. ASSUME UNCHANGED <<queue, message, control>>
      PROVE  [Delivery!Next]_(Delivery!pvars)
  BY <1>1, StutterStep DEF accepted
<1>2. ASSUME NEW p \in Paths, NEW v \in Values, ProcessPacket(p, v)
      PROVE  [Delivery!Next]_(Delivery!pvars)
  <2> DEFINE r == Request(p, parameters[NodeParameter(p)], v)
  <2>1. UNCHANGED <<message, control>>
    BY <1>2 DEF ProcessPacket, thread
  <2>2. CASE queue' = queue
    BY <1>1, <2>1, <2>2
  <2>3. CASE parameters[NodeParameter(p)] # Unset /\ queue' = Append(queue, r)
    <3>1. r \in Requests
      BY <2>3, NodeParameterType, RequestType DEF TypeOK
    <3>2. message \in Seq(Requests) /\ queue \in Seq(Requests)
      <4>1. CASE message = << >>
        BY <4>1, EmptySeq DEF TypeOK
      <4>2. CASE \E q \in Requests : message = <<q>>
        BY <4>2 DEF TypeOK
      <4> QED
        BY <4>1, <4>2 DEF TypeOK
    <3>3. accepted \in Seq(Requests)
      BY <3>2, ConcatProperties DEF accepted
    <3>4. accepted' = Append(accepted, r)
      <4>1. queue' = queue \o <<r>>
        BY <2>3, <3>1, <3>2, AppendIsConcat
      <4>2. accepted' = message \o (queue \o <<r>>)
        BY <2>1, <4>1 DEF accepted
      <4>3. <<r>> \in Seq(Requests)
        BY <3>1
      <4> HIDE DEF r
      <4>4. message \o (queue \o <<r>>) = accepted \o <<r>>
        BY <3>2, <4>3, ConcatAssociative DEF accepted
      <4> QED
        BY <3>1, <3>3, <4>2, <4>4, AppendIsConcat
    <3>5. Abstracted(accepted)' = Append(Abstracted(accepted), AbstractRequest(r))
      <4>1. Abstracted(accepted') = Append(Abstracted(accepted), AbstractRequest(r))
        BY <3>1, <3>3, <3>4, AbstractedAppend
      <4> QED
        BY <4>1 DEF Abstracted, AbstractRequest, ParameterName
    <3>6. Delivery!Accept(AbstractRequest(r))
      BY <2>1, <3>5 DEF Delivery!Accept
    <3> QED
      BY <3>1, <3>6, AbstractRequestType DEF Delivery!Next
  <2> QED
    BY <1>2, <2>2, <2>3 DEF ProcessPacket, Push
<1>3. CASE Pop
  <2> DEFINE r == Head(queue)
  <2>1. /\ message = << >> /\ queue # << >> /\ control' = control
        /\ message' = <<r>> /\ queue' = << >> /\ queue \in Seq(Requests)
    BY <1>3 DEF Pop, TypeOK
  <2>2. /\ r \in Requests /\ Tail(queue) \in Seq(Requests)
        /\ queue = <<r>> \o Tail(queue)
    <3>1. Len(queue) \in Nat \ {0}
      BY <2>1, EmptySeq
    <3>2. queue = SubSeq(queue, 1, Len(queue)) /\ Tail(queue) = SubSeq(queue, 2, Len(queue))
      BY <2>1, SubSeqFull, TailIsSubSeq
    <3>3. SubSeq(queue, 1, Len(queue)) = <<queue[1]>> \o SubSeq(queue, 2, Len(queue))
      BY <2>1, <3>1, SubSeqRecursiveFirst
    <3>4. queue[1] = r
      BY <2>1
    <3> QED
      BY <2>1, <3>2, <3>3, <3>4, HeadTailProperties
  <2>3. accepted = queue /\ accepted' = <<r>>
    BY <2>1, <2>2, ConcatEmptySeq DEF accepted
  <2> HIDE DEF r
  <2>4. /\ Abstracted(accepted) # << >>
        /\ Head(Abstracted(accepted)) = AbstractRequest(r)
    BY <2>2, <2>3, AbstractedCons
  <2>5. Abstracted(accepted)' = <<AbstractRequest(r)>>
    <3>1. Abstracted(accepted)' = Abstracted(<<r>>)
      BY <2>3 DEF Abstracted, AbstractRequest, ParameterName
    <3>2. Abstracted(<<r>>) = <<AbstractRequest(r)>>
      BY DEF Abstracted
    <3> QED
      BY <3>1, <3>2
  <2>6. Delivery!Lose
    BY <2>1, <2>4, <2>5 DEF Delivery!Lose
  <2> QED
    BY <2>6 DEF Delivery!Next
<1>4. CASE NoProxy \/ SetProps
  <2>1. PICK r \in Requests : message = <<r>>
    BY <1>4 DEF NoProxy, SetProps, TypeOK
  <2>2. message' = << >> /\ queue' = queue /\ queue \in Seq(Requests)
    BY <1>4 DEF NoProxy, SetProps, TypeOK
  <2>3. accepted = <<r>> \o queue /\ accepted' = queue
    BY <2>1, <2>2, ConcatEmptySeq DEF accepted
  <2>4. Abstracted(accepted)' = Abstracted(queue)
    BY <2>3 DEF Abstracted, AbstractRequest, ParameterName
  <2>5. /\ Abstracted(accepted) # << >>
        /\ Head(Abstracted(accepted)) = AbstractRequest(r)
        /\ Abstracted(accepted)' = Tail(Abstracted(accepted))
    BY <2>2, <2>3, <2>4, AbstractedCons
  <2>6. CASE control' = control
    BY <2>5, <2>6 DEF Delivery!GiveUp, Delivery!Next
  <2>7. CASE SetProps /\ target \in live
    <3>1. target \in Nodes /\ IdOf[target] = r.filter_chain_id
      BY <2>1, <2>7 DEF SetProps, TypeOK, TargetId
    <3>2. control' = [control EXCEPT ![target][ParameterName(r.path)] = r.value]
      BY <2>1, <2>7 DEF SetProps
    <3>3. /\ Head(Abstracted(accepted)).filter_chain_id = r.filter_chain_id
          /\ Head(Abstracted(accepted)).control = ParameterName(r.path)
          /\ Head(Abstracted(accepted)).value = r.value
      <4>1. /\ AbstractRequest(r).filter_chain_id = r.filter_chain_id
            /\ AbstractRequest(r).control = ParameterName(r.path)
            /\ AbstractRequest(r).value = r.value
        BY DEF AbstractRequest
      <4> QED
        BY <2>5, <4>1
    <3>4. Delivery!Write(target)
      BY <2>5, <3>1, <3>2, <3>3 DEF Delivery!Write
    <3> QED
      BY <3>1, <3>4 DEF Delivery!Next
  <2> QED
    BY <1>4, <2>6, <2>7 DEF NoProxy, SetProps
<1>5. CASE BeginCycle \/ EndCycle
  BY <1>1, <1>5 DEF BeginCycle, EndCycle, thread
<1>6. CASE Lookup \/ FoundEmpty \/ TestPredicate \/ Block \/ WakeUp \/ SpuriousWakeUp
  BY <1>1, <1>6 DEF Lookup, FoundEmpty, TestPredicate, Block, WakeUp, SpuriousWakeUp, thread
<1>7. CASE MainLoop \/ UNCHANGED vars
  BY <1>1, <1>7 DEF MainLoop, NodeAdded, NodeRemoved, SetParam, SetParamNil, ProcessRegistryEvent,
                    vars, thread
<1>8. CASE Restart
  <2>1. accepted' = << >> /\ control' = control
    BY <1>8 DEF Restart, accepted
  <2>2. Abstracted(accepted)' = << >>
    <3>1. Abstracted(accepted)' = Abstracted(<< >>)
      BY <2>1 DEF Abstracted, AbstractRequest, ParameterName
    <3> QED
      BY <3>1 DEF Abstracted
  <2>3. CASE Abstracted(accepted) = << >>
    BY <2>1, <2>2, <2>3 DEF Delivery!pvars
  <2>4. CASE Abstracted(accepted) # << >>
    <3>1. Delivery!Lose
      BY <2>1, <2>2, <2>4 DEF Delivery!Lose
    <3> QED
      BY <3>1 DEF Delivery!Next
  <2> QED
    BY <2>3, <2>4
<1> QED
  BY <1>2, <1>3, <1>4, <1>5, <1>6, <1>7, <1>8 DEF Next, Processor, Controller

(***************************************************************************)
(* The two threads and their queue implement ParameterDelivery: accepted   *)
(* requests are handled in the order in which they were accepted, each at  *)
(* most once, unaltered, on a node with the id they carry.                 *)
(***************************************************************************)
THEOREM ImplementsDelivery == Spec => DeliverySpec
<1>1. Init => Delivery!Init /\ TargetId
  BY DeliveryInit DEF Init, TargetId
<1>2. TypeOK /\ TargetId /\ [Next]_vars => TargetId'
  BY TargetIdNext
<1>3. TypeOK /\ TypeOK' /\ TargetId /\ [Next]_vars => [Delivery!Next]_(Delivery!pvars)
  BY DeliveryNext
<1> QED
  BY <1>1, <1>2, <1>3, TypeCorrect, PTL DEF Spec, DeliverySpec, Delivery!Spec
=============================================================================
