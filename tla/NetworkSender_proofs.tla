-------------------------- MODULE NetworkSender_proofs --------------------------
(***************************************************************************)
(* For a queue of any capacity and any number of messages: the types, why  *)
(* the thread may sleep on a message, and what becomes of the messages.    *)
(***************************************************************************)
EXTENDS NetworkSender, SequenceTheorems, TLAPS

-----------------------------------------------------------------------------
(* Type correctness *)

LEMMA TypeInit == Init => TypeOK
<1> SUFFICES ASSUME Init PROVE TypeOK
  OBVIOUS
<1>1. /\ queue \in Seq(Nat) /\ accepted \in Seq(Nat) /\ left \in Seq(Nat)
      /\ fate \in Seq({"sent", "dropped", "lost"}) /\ Len(queue) <= Capacity /\ holding \in Seq(Nat) /\ Len(holding) <= 1
  BY EmptySeq, SizesAssumption DEF Init
<1> QED
  BY <1>1 DEF Init, TypeOK, SenderStates

\* A push keeps the queue within its capacity.
LEMMA PushType ==
  ASSUME TypeOK, NEW m \in Nat, Push(m)
  PROVE  /\ queue' \in Seq(Nat) /\ Len(queue') <= Capacity
         /\ accepted' \in Seq(Nat)
<1>1. queue \in Seq(Nat) /\ accepted \in Seq(Nat) /\ Len(queue) \in Nat /\ Len(queue) <= Capacity
  BY LenProperties DEF TypeOK
<1>2. CASE Len(queue) < Capacity
  <2>1. queue' = Append(queue, m) /\ accepted' = Append(accepted, m)
    BY <1>2 DEF Push
  <2>2. /\ Append(queue, m) \in Seq(Nat) /\ Len(Append(queue, m)) = Len(queue) + 1
        /\ Append(accepted, m) \in Seq(Nat)
    BY <1>1, AppendProperties
  <2> QED
    BY <1>1, <1>2, <2>1, <2>2, SizesAssumption
<1>3. CASE ~(Len(queue) < Capacity)
  BY <1>1, <1>3 DEF Push
<1> QED
  BY <1>2, <1>3

\* What becomes of the sequences when the process ends.
LEMMA LoseType ==
  ASSUME TypeOK, Lose
  PROVE  /\ left' \in Seq(Nat) /\ fate' \in Seq({"sent", "dropped", "lost"})
         /\ queue' \in Seq(Nat) /\ Len(queue') <= Capacity
         /\ holding' = << >> /\ holding' \in Seq(Nat) /\ Len(holding') <= 1
         /\ Len(left') = Len(left) + Len(holding \o queue)
         /\ Len(fate') = Len(fate) + Len(holding \o queue)
<1> DEFINE lost == holding \o queue
           marks == [i \in 1 .. Len(lost) |-> "lost"]
<1>1. /\ lost \in Seq(Nat) /\ Len(lost) \in Nat
      /\ left' = left \o lost /\ fate' = fate \o marks
      /\ holding' = << >> /\ queue' = << >>
  BY ConcatProperties, LenProperties DEF TypeOK, Lose
<1> HIDE DEF lost
<1>2. marks \in Seq({"sent", "dropped", "lost"}) /\ Len(marks) = Len(lost)
  BY <1>1
<1> HIDE DEF marks
<1>3. /\ left' \in Seq(Nat) /\ Len(left') = Len(left) + Len(lost)
      /\ fate' \in Seq({"sent", "dropped", "lost"}) /\ Len(fate') = Len(fate) + Len(lost)
  BY <1>1, <1>2, ConcatProperties DEF TypeOK
<1>4. queue' \in Seq(Nat) /\ Len(queue') <= Capacity
      /\ holding' = << >> /\ holding' \in Seq(Nat) /\ Len(holding') <= 1
  BY <1>1, EmptySeq, SizesAssumption
<1> QED
  BY <1>3, <1>4 DEF lost

LEMMA TypeNext == TypeOK /\ [Next]_vars => TypeOK'
<1> SUFFICES ASSUME TypeOK, [Next]_vars PROVE TypeOK'
  OBVIOUS
<1> USE DEF history
<1>1. CASE Process
  <2>1. arrived + 1 \in Nat
    BY DEF TypeOK
  <2>2. /\ queue' \in Seq(Nat) /\ Len(queue') <= Capacity
        /\ accepted' \in Seq(Nat)
    BY <1>1, <2>1, PushType DEF Process
  <2> QED
    BY <1>1, <2>1, <2>2 DEF Process, TypeOK
<1>2. CASE Pop
  <2>1. /\ Head(queue) \in Nat /\ queue' \in Seq(Nat)
        /\ Len(queue') = Len(queue) - 1 /\ Len(queue) \in Nat
    BY <1>2, HeadTailProperties, LenProperties DEF Pop, TypeOK
  <2>2. Len(queue') <= Capacity
    BY <2>1, SizesAssumption DEF TypeOK
  <2> QED
    BY <1>2, <2>1, <2>2 DEF Pop, TypeOK, SenderStates
<1>3. ASSUME NEW how \in {"sent", "dropped", "lost"}, Leave(how) PROVE TypeOK'
  <2>1. /\ left' \in Seq(Nat) /\ holding' = << >> /\ holding' \in Seq(Nat)
        /\ Len(holding') <= 1
    BY <1>3, ConcatProperties, EmptySeq DEF Leave, TypeOK
  <2>2. fate' \in Seq({"sent", "dropped", "lost"})
    BY <1>3, AppendProperties DEF Leave, TypeOK
  <2> QED
    BY <1>3, <2>1, <2>2 DEF Leave, TypeOK, SenderStates
<1>9. CASE Join \/ Fail
  <2>1. Lose
    BY <1>9 DEF Join, Fail
  <2>2. /\ left' \in Seq(Nat) /\ fate' \in Seq({"sent", "dropped", "lost"})
        /\ queue' \in Seq(Nat) /\ Len(queue') <= Capacity
        /\ holding' = << >> /\ holding' \in Seq(Nat) /\ Len(holding') <= 1
    BY <2>1, LoseType
  <2> QED
    BY <1>9, <2>2 DEF Join, Fail, TypeOK, SenderStates
<1>4. CASE Test \/ FoundEmpty \/ Wait \/ WakeUp \/ SpuriousWakeUp
  BY <1>4 DEF Test, FoundEmpty, Wait, WakeUp, SpuriousWakeUp, TypeOK, SenderStates
<1>5. CASE Notify
  BY <1>5 DEF Notify, notify_all, TypeOK, SenderStates
<1>6. CASE NotifyStop
  BY <1>6 DEF NotifyStop, BetweenTestAndWait, notify_all, TypeOK, SenderStates
<1>7. CASE Quit \/ (\E p \in {"udp", "other"} : SetProtocol(p))
  BY <1>7 DEF Quit, SetProtocol, TypeOK
<1>8. CASE UNCHANGED vars
  BY <1>8 DEF vars, TypeOK
<1> QED
  BY <1>1, <1>2, <1>3, <1>4, <1>5, <1>6, <1>7, <1>8, <1>9
     DEF Next, Thread, Main, Send, Drop

(***************************************************************************)
(* The state of pmx-osc-network-sender has the types of its variables: the *)
(* queue keeps its capacity and a message is held only while it is sent.   *)
(***************************************************************************)
THEOREM TypeCorrect == Spec => []TypeOK
<1> QED
  BY TypeInit, TypeNext, PTL DEF Spec

-----------------------------------------------------------------------------
(* Why the thread may sleep on a message *)

\* Already before it waits: from its look at the queue on.
SleepInv ==
  (sender \in {"blocking", "waiting"} /\ queue # << >>) => (missed \/ processor = "notify")

LEMMA SleepNext == TypeOK /\ SleepInv /\ [Next]_vars => SleepInv'
<1> SUFFICES ASSUME TypeOK, SleepInv, [Next]_vars PROVE SleepInv'
  OBVIOUS
<1> USE DEF SleepInv, history
<1>1. CASE Process
  BY <1>1 DEF Process
<1>2. CASE Notify
  BY <1>2 DEF Notify, notify_all
<1>3. CASE Test \/ Pop \/ Send \/ Drop \/ FoundEmpty \/ Wait \/ WakeUp \/ SpuriousWakeUp
  BY <1>3 DEF Test, Pop, Send, Drop, Leave, FoundEmpty, Wait, WakeUp, SpuriousWakeUp
<1>4. CASE NotifyStop
  BY <1>4 DEF NotifyStop, BetweenTestAndWait, notify_all
<1>5. CASE Quit \/ (\E p \in {"udp", "other"} : SetProtocol(p)) \/ Join \/ Fail
  BY <1>5 DEF Quit, SetProtocol, Join, Fail, Lose
<1>6. CASE UNCHANGED vars
  BY <1>6 DEF vars
<1> QED
  BY <1>1, <1>2, <1>3, <1>4, <1>5, <1>6 DEF Next, Thread, Main

(***************************************************************************)
(* Whatever the traffic, the thread sleeps on a message only after a       *)
(* notification that came between its look at the queue and the wait.      *)
(***************************************************************************)
THEOREM SleepsOnlyByRace == Spec => []SleepsOnlyByMissedNotify
<1>1. Init => SleepInv
  BY DEF Init, SleepInv
<1>2. TypeOK /\ SleepInv /\ [Next]_vars => SleepInv'
  BY SleepNext
<1>3. SleepInv => SleepsOnlyByMissedNotify
  BY DEF SleepInv, SleepsOnlyByMissedNotify
<1> QED
  BY <1>1, <1>2, <1>3, TypeCorrect, PTL DEF Spec

-----------------------------------------------------------------------------
(* Why the application may not stop *)

\* The join waits for a thread that nobody will wake.
Hangs == main = "join" /\ sender = "waiting"

HangsOnlyByMissedNotify == Hangs => missed

\* Once told to stop the signal processor is silent; from then on the thread either finds
\* the flag cleared at its next test or is on its way to the wait.
StopInv ==
  /\ main # "run" => ~ running /\ processor = "idle"
  /\ main = "join" /\ (sender = "waiting" \/ BetweenTestAndWait) => missed

LEMMA StopNext == TypeOK /\ StopInv /\ [Next]_vars => StopInv'
<1> SUFFICES ASSUME TypeOK, StopInv, [Next]_vars PROVE StopInv'
  OBVIOUS
<1> USE DEF StopInv, BetweenTestAndWait
<1>1. CASE Process
  BY <1>1 DEF Process
<1>2. CASE Notify
  BY <1>2 DEF Notify, notify_all
<1>3. CASE Test \/ Pop \/ Send \/ Drop \/ FoundEmpty \/ Wait \/ WakeUp \/ SpuriousWakeUp
  BY <1>3 DEF Test, Pop, Send, Drop, Leave, FoundEmpty, Wait, WakeUp, SpuriousWakeUp
<1>4. CASE NotifyStop
  BY <1>4 DEF NotifyStop, notify_all
<1>5. CASE Quit \/ (\E p \in {"udp", "other"} : SetProtocol(p)) \/ Join \/ Fail
  BY <1>5 DEF Quit, SetProtocol, Join, Fail, Lose
<1>6. CASE UNCHANGED vars
  BY <1>6 DEF vars
<1> QED
  BY <1>1, <1>2, <1>3, <1>4, <1>5, <1>6 DEF Next, Thread, Main

(***************************************************************************)
(* The safety half of StopsUnlessMissed, for every capacity and traffic:   *)
(* the join waits for a sleeping thread only if the one notification of    *)
(* the main thread came between the thread's test of the flag and its      *)
(* wait; no message that is still queued changes that.                     *)
(***************************************************************************)
THEOREM HangsOnlyByRace == Spec => []HangsOnlyByMissedNotify
<1>1. Init => StopInv
  BY DEF Init, StopInv, BetweenTestAndWait
<1>2. TypeOK /\ StopInv /\ [Next]_vars => StopInv'
  BY StopNext
<1>3. StopInv => HangsOnlyByMissedNotify
  BY DEF StopInv, HangsOnlyByMissedNotify, Hangs
<1> QED
  BY <1>1, <1>2, <1>3, TypeCorrect, PTL DEF Spec

-----------------------------------------------------------------------------
(* What becomes of the messages *)

\* Sequences of messages may be regrouped.
LEMMA Regrouped ==
  ASSUME NEW s \in Seq(Nat), NEW t \in Seq(Nat), NEW u \in Seq(Nat)
  PROVE  (s \o t) \o u = s \o (t \o u)
  BY ConcatAssociative, SMTT(60)

\* The property without its last part, which follows.
InOrder == accepted = (left \o holding) \o queue /\ Len(fate) = Len(left)

\* After the end there is nothing in the process.
EndInv == main = "ended" => sender = "ended" /\ queue = << >>

LEMMA EndNext == TypeOK /\ EndInv /\ [Next]_vars => EndInv'
<1> SUFFICES ASSUME TypeOK, EndInv, [Next]_vars PROVE EndInv'
  OBVIOUS
<1> USE DEF EndInv
<1>1. CASE Process \/ Notify \/ Quit \/ NotifyStop
  BY <1>1 DEF Process, Notify, notify_all, Quit, NotifyStop
<1>2. CASE Thread \/ SpuriousWakeUp
  BY <1>2 DEF Thread, Test, Pop, Send, Drop, Leave, FoundEmpty, Wait, WakeUp, SpuriousWakeUp
<1>3. CASE (\E p \in {"udp", "other"} : SetProtocol(p)) \/ UNCHANGED vars
  BY <1>3 DEF SetProtocol, vars
<1>4. CASE Join \/ Fail
  BY <1>4 DEF Join, Fail, Lose, TypeOK
<1> QED
  BY <1>1, <1>2, <1>3, <1>4 DEF Next, Main

LEMMA InOrderNext == TypeOK /\ InOrder /\ [Next]_vars => InOrder'
<1> SUFFICES ASSUME TypeOK, InOrder, [Next]_vars PROVE InOrder'
  OBVIOUS
<1>0. /\ left \in Seq(Nat) /\ holding \in Seq(Nat) /\ queue \in Seq(Nat)
      /\ left \o holding \in Seq(Nat)
      /\ accepted = (left \o holding) \o queue /\ Len(fate) = Len(left)
  BY ConcatProperties DEF TypeOK, InOrder
<1>1. CASE UNCHANGED <<accepted, left, fate, holding, queue>>
  BY <1>1 DEF InOrder
<1>2. CASE Process
  <2> DEFINE m == arrived + 1
  <2>1. m \in Nat /\ UNCHANGED <<left, fate, holding>> /\ Push(m)
    BY <1>2 DEF Process, TypeOK
  <2> HIDE DEF m
  <2>2. CASE queue' = Append(queue, m) /\ accepted' = Append(accepted, m)
    <3>1. <<m>> \in Seq(Nat) /\ accepted \in Seq(Nat)
      BY <2>1 DEF TypeOK
    <3>2. queue' = queue \o <<m>> /\ accepted' = accepted \o <<m>>
      BY <1>0, <2>1, <2>2, <3>1, AppendIsConcat
    <3>3. ((left \o holding) \o queue) \o <<m>> = (left \o holding) \o (queue \o <<m>>)
      BY <1>0, <3>1, Regrouped, SMTT(60)
    <3>4. accepted' = (left \o holding) \o queue'
      BY <1>0, <3>2, <3>3, SMTT(30)
    <3> QED
      BY <1>0, <2>1, <3>4 DEF InOrder
  <2> QED
    BY <1>1, <2>1, <2>2 DEF Push
<1>3. CASE Pop
  <2>1. /\ holding = << >> /\ holding' = <<Head(queue)>> /\ queue' = Tail(queue)
        /\ queue # << >> /\ UNCHANGED <<accepted, left, fate>>
    BY <1>3 DEF Pop, TypeOK, history
  <2>2. Len(queue) \in Nat \ {0} /\ <<Head(queue)>> \in Seq(Nat) /\ Tail(queue) \in Seq(Nat)
    BY <1>0, <2>1, HeadTailProperties, EmptySeq
  <2>3. queue = <<Head(queue)>> \o Tail(queue)
    <3>1. queue = SubSeq(queue, 1, Len(queue)) /\ Tail(queue) = SubSeq(queue, 2, Len(queue))
      BY <1>0, <2>1, SubSeqFull, TailIsSubSeq
    <3>2. SubSeq(queue, 1, Len(queue)) = <<queue[1]>> \o SubSeq(queue, 2, Len(queue))
      BY <1>0, <2>2, SubSeqRecursiveFirst
    <3> QED
      BY <2>1, <3>1, <3>2
  <2>4. left \o holding = left
    BY <1>0, <2>1, ConcatEmptySeq
  <2>5. left \o (<<Head(queue)>> \o Tail(queue)) = (left \o <<Head(queue)>>) \o Tail(queue)
    BY <1>0, <2>2, Regrouped, SMTT(60)
  <2> QED
    BY <1>0, <2>1, <2>3, <2>4, <2>5 DEF InOrder
<1>4. ASSUME NEW how \in {"sent", "dropped", "lost"}, Leave(how) PROVE InOrder'
  <2>1. /\ left' = left \o holding /\ holding' = << >> /\ UNCHANGED <<accepted, queue>>
        /\ fate' = Append(fate, how) /\ fate \in Seq({"sent", "dropped", "lost"})
    BY <1>4 DEF Leave, TypeOK
  <2>2. (left \o holding) \o << >> = left \o holding
    BY <1>0, ConcatEmptySeq
  <2>3. Len(holding) = 1
    <3>1. holding # << >> /\ Len(holding) <= 1
      BY <1>4 DEF Leave, TypeOK
    <3>2. Len(holding) \in Nat /\ Len(holding) # 0
      BY <1>0, <3>1, EmptySeq, LenProperties
    <3> QED
      BY <3>1, <3>2
  <2>4. Len(fate') = Len(fate) + 1
    BY <2>1, AppendProperties
  <2>5. Len(left') = Len(left) + 1
    <3>1. Len(left \o holding) = Len(left) + Len(holding)
      BY <1>0, ConcatProperties
    <3> QED
      BY <2>1, <2>3, <3>1
  <2> QED
    BY <1>0, <2>1, <2>2, <2>4, <2>5 DEF InOrder
<1>5. CASE Join \/ Fail
  <2>1. Lose /\ UNCHANGED accepted
    BY <1>5 DEF Join, Fail
  <2>2. left' = left \o (holding \o queue) /\ holding' = << >> /\ queue' = << >>
    BY <2>1 DEF Lose
  <2>3. left' \in Seq(Nat) /\ Len(fate') = Len(left')
    BY <1>0, <2>1, LoseType
  <2>4. left' = accepted
    BY <1>0, <2>2, Regrouped, SMTT(60)
  <2>5. (left' \o << >>) \o << >> = left'
    BY <2>3, ConcatEmptySeq
  <2> QED
    BY <2>1, <2>2, <2>3, <2>4, <2>5 DEF InOrder
<1>6. CASE Notify \/ Test \/ FoundEmpty \/ Wait \/ WakeUp \/ SpuriousWakeUp
  BY <1>1, <1>6 DEF Notify, Test, FoundEmpty, Wait, WakeUp, SpuriousWakeUp, history
<1>7. CASE Quit \/ (\E p \in {"udp", "other"} : SetProtocol(p)) \/ NotifyStop \/ UNCHANGED vars
  BY <1>1, <1>7 DEF Quit, SetProtocol, NotifyStop, vars, history
<1> QED
  BY <1>2, <1>3, <1>4, <1>5, <1>6, <1>7 DEF Next, Thread, Main, Send, Drop

LEMMA OrderAndEnd == TypeOK /\ InOrder /\ EndInv => SentInOrder
<1> SUFFICES ASSUME TypeOK, InOrder, EndInv PROVE SentInOrder
  OBVIOUS
<1>1. /\ left \in Seq(Nat) /\ accepted = (left \o holding) \o queue
      /\ Len(fate) = Len(left)
  BY DEF TypeOK, InOrder
<1>2. ASSUME main = "ended" PROVE left = accepted
  <2>1. holding = << >> /\ queue = << >>
    BY <1>2 DEF TypeOK, EndInv
  <2> QED BY <1>1, <2>1, ConcatEmptySeq
<1> QED BY <1>1, <1>2 DEF SentInOrder

(***************************************************************************)
(* For every capacity and traffic: whatever the queue takes leaves the     *)
(* process once and in the order of arrival, with one fate each: sent,     *)
(* dropped for its protocol, or lost with the process when a send fails or *)
(* the application ends, after which nothing is left to be sent.           *)
(***************************************************************************)
THEOREM Delivered == Spec => []SentInOrder
<1>1. Init => InOrder /\ EndInv
  <2> SUFFICES ASSUME Init PROVE InOrder /\ EndInv
    OBVIOUS
  <2> QED
    BY ConcatEmptySeq, EmptySeq DEF Init, InOrder, EndInv
<1>2. TypeOK /\ InOrder /\ EndInv /\ [Next]_vars => (InOrder /\ EndInv)'
  BY InOrderNext, EndNext
<1>3. TypeOK /\ InOrder /\ EndInv => SentInOrder
  BY OrderAndEnd
<1> QED
  BY <1>1, <1>2, <1>3, TypeCorrect, PTL DEF Spec
=============================================================================
