------------------------- MODULE BoundedQueueProofs -------------------------
(* Theorems about BoundedQueue and BoundedQueueFifo, for any number of      *)
(* producers, any capacity and any objects.                                 *)
EXTENDS BoundedQueueFifo, FiniteSetTheorems, SequenceTheorems, TLAPS

-----------------------------------------------------------------------------
(* Type correctness *)

\* m_not_full is TRUE from the constructor on: Push's predicate is ~Full alone.
TypeInv == TypeOK /\ m_not_full = TRUE

\* Lemma: the constructor leaves the fields well typed.
LEMMA TypeInit == Init => TypeInv
<1> SUFFICES ASSUME Init PROVE TypeInv
  OBVIOUS
<1>1. m_queue \in Seq(Items) /\ Len(m_queue) <= Capacity
  BY CapacityAssumption DEF Init
<1>2. m_not_empty \in BOOLEAN
  BY NotEmptyInitAssumption, Zenon DEF Init
<1>3. pc \in [Threads -> {"idle", "waiting", "waking", "notify"}]
  BY DEF Init
<1>4. QED
  BY <1>1, <1>2, <1>3, Zenon DEF Init, TypeInv, TypeOK

\* Lemma: so does every step.
LEMMA TypeNext == TypeInv /\ [Next]_vars => TypeInv'
<1> SUFFICES ASSUME TypeInv, [Next]_vars PROVE TypeInv'
  OBVIOUS
<1> USE CapacityAssumption DEF TypeInv, TypeOK, Goto, CanLock, Full, Empty
<1>1. ASSUME NEW p \in Producers, PushBlocks(p) PROVE TypeInv'
  BY <1>1 DEF PushBlocks, Threads
<1>2. ASSUME NEW p \in Producers, NEW x \in Items, Push(p, x) PROVE TypeInv'
  BY <1>2 DEF Push, CanPush, Threads
<1>3. CASE PopBlocks
  BY <1>3 DEF PopBlocks, Threads
<1>4. CASE Pop
  BY <1>4 DEF Pop, Threads
<1>5. CASE PopUndefined
  BY <1>5 DEF PopUndefined
<1>6. ASSUME NEW t \in Threads, NotifyOne(t) PROVE TypeInv'
  BY <1>6 DEF NotifyOne, Waiting
<1>7. ASSUME NEW t \in Threads, SpuriousWake(t) PROVE TypeInv'
  BY <1>7 DEF SpuriousWake
<1>8. CASE UNCHANGED vars
  BY <1>8 DEF vars
<1>9. QED
  BY <1>1, <1>2, <1>3, <1>4, <1>5, <1>6, <1>7, <1>8
  DEF Next, ProducerStep, ConsumerStep

\* The fields keep their types and a queue never holds more than m_capacity
\* objects, however many threads call Push (QueueManager.h:30).
THEOREM TypeCorrect == SafeSpec => []TypeOK
<1>1. TypeInv => TypeOK
  BY DEF TypeInv
<1>2. QED
  BY <1>1, TypeInit, TypeNext, PTL DEF SafeSpec

-----------------------------------------------------------------------------
(* The flag *)

FlagInv == FlagTellsTruth /\ NeverPopsEmpty

\* Lemma: an initialised flag tells the truth at the start.
LEMMA FlagInit == NotEmptyInit = {FALSE} /\ Init => FlagInv
  BY DEF Init, FlagInv, FlagTellsTruth, NeverPopsEmpty, Empty

\* Lemma: and every step keeps it so.
LEMMA FlagNext == TypeInv /\ FlagInv /\ [Next]_vars => FlagInv'
<1> SUFFICES ASSUME TypeInv, FlagInv, [Next]_vars PROVE FlagInv'
  OBVIOUS
<1> USE DEF TypeInv, TypeOK, FlagInv, FlagTellsTruth, NeverPopsEmpty, Empty
<1>1. ASSUME NEW p \in Producers, PushBlocks(p) PROVE FlagInv'
  BY <1>1 DEF PushBlocks
<1>2. ASSUME NEW p \in Producers, NEW x \in Items, Push(p, x) PROVE FlagInv'
  <2>1. m_queue \in Seq(Items)
    BY Zenon
  <2>2. Append(m_queue, x) # <<>>
    BY <2>1, AppendProperties
  <2>3. QED
    BY <1>2, <2>2, Zenon DEF Push
<1>3. CASE PopBlocks
  BY <1>3 DEF PopBlocks
<1>4. CASE Pop
  BY <1>4 DEF Pop
<1>5. CASE PopUndefined
  BY <1>5 DEF PopUndefined
<1>6. ASSUME NEW t \in Threads, NotifyOne(t) \/ SpuriousWake(t) PROVE FlagInv'
  <2>1. UNCHANGED <<m_queue, m_not_empty, undefined>>
    BY <1>6, Zenon DEF NotifyOne, SpuriousWake
  <2>2. QED
    BY <2>1
<1>7. CASE UNCHANGED vars
  BY <1>7 DEF vars
<1>8. QED
  BY <1>1, <1>2, <1>3, <1>4, <1>5, <1>6, <1>7
  DEF Next, ProducerStep, ConsumerStep

\* If the constructor set m_not_empty to false (it does not set it at all), the
\* flag would say what Empty() says for ever (QueueManager.h:32, 48-49).
THEOREM FlagTruth ==
    ASSUME NotEmptyInit = {FALSE} PROVE SafeSpec => []FlagTellsTruth
<1>1. Init => FlagInv
  BY FlagInit
<1>2. FlagInv => FlagTellsTruth
  BY DEF FlagInv
<1>3. QED
  BY <1>1, <1>2, TypeInit, TypeNext, FlagNext, PTL DEF SafeSpec

\* ... and Pop would never call front() on an empty std::queue
\* (QueueManager.h:43-46).
THEOREM NoEmptyPop ==
    ASSUME NotEmptyInit = {FALSE} PROVE SafeSpec => []NeverPopsEmpty
<1>1. Init => FlagInv
  BY FlagInit
<1>2. FlagInv => NeverPopsEmpty
  BY DEF FlagInv
<1>3. QED
  BY <1>1, <1>2, TypeInit, TypeNext, FlagNext, PTL DEF SafeSpec

-----------------------------------------------------------------------------
(* The wake-ups *)

WaitingProducers == {p \in Producers : pc[p] = "waiting"}
NotifyingProducers == {p \in Producers : pc[p] = "notify"}

\* While the consumer sleeps nobody else does, and every object in the queue
\* comes with a producer that has yet to notify.  While it is awake, the
\* sleeping producers leave at least as many objects in the queue as they
\* exceed the places: it cannot find the queue empty and fall asleep on them.
WakeupInv ==
    IF pc[Consumer] = "waiting"
    THEN /\ WaitingProducers = {}
         /\ Len(m_queue) <= Cardinality(NotifyingProducers)
    ELSE \/ WaitingProducers = {}
         \/ Cardinality(WaitingProducers) + Capacity
                <= Cardinality(Producers) + Len(m_queue)
                       + (IF pc[Consumer] = "notify" THEN 1 ELSE 0)

\* Lemma: the sets of sleeping and of notifying producers are finite.
LEMMA ProducerSetsFinite ==
    /\ Cardinality(Producers) \in Nat
    /\ \A S \in SUBSET Producers :
           /\ IsFiniteSet(S)
           /\ Cardinality(S) \in Nat
           /\ Cardinality(S) <= Cardinality(Producers)
           /\ Cardinality(S) = 0 <=> S = {}
  BY ThreadsAssumption, FS_Subset, FS_CardinalityType, FS_EmptySet

\* Lemma: nobody sleeps at the start.
LEMMA WakeupInit == Init => WakeupInv
<1> SUFFICES ASSUME Init PROVE WakeupInv
  OBVIOUS
<1>1. pc[Consumer] # "waiting"
  BY DEF Init, Threads
<1>2. WaitingProducers = {}
  BY DEF Init, Threads, WaitingProducers
<1>3. QED
  BY <1>1, <1>2 DEF WakeupInv

\* Lemma: a producer may fall asleep without harm only because there are no
\* more producers than places.
LEMMA WakeupNext ==
    ASSUME Cardinality(Producers) <= Capacity,
           TypeInv, FlagInv, WakeupInv, [Next]_vars
    PROVE  WakeupInv'
<1> DEFINE WP == WaitingProducers
           NP == NotifyingProducers
<1> USE ThreadsAssumption, CapacityAssumption
<1>t. /\ m_queue \in Seq(Items)
      /\ Len(m_queue) \in Nat
      /\ Len(m_queue) <= Capacity
      /\ pc \in [Threads -> {"idle", "waiting", "waking", "notify"}]
      /\ m_not_full = TRUE
      /\ Producers \subseteq Threads /\ Consumer \in Threads
  BY Zenon, LenProperties DEF TypeInv, TypeOK, Threads
<1>f. /\ WP \in SUBSET Producers
      /\ NP \in SUBSET Producers
      /\ Cardinality(Producers) \in Nat
      /\ Cardinality(WP) \in Nat
      /\ Cardinality(NP) \in Nat
      /\ Cardinality(WP) = 0 <=> WP = {}
  <2>1. WP \in SUBSET Producers /\ NP \in SUBSET Producers
    BY DEF WaitingProducers, NotifyingProducers
  <2>2. QED
    BY <2>1, ProducerSetsFinite
<1>1. ASSUME NEW p \in Producers, PushBlocks(p) PROVE WakeupInv'
  <2>1. /\ pc[p] \in {"idle", "waking"}
        /\ Len(m_queue) = Capacity
        /\ m_queue' = m_queue
        /\ pc' = [pc EXCEPT ![p] = "waiting"]
    BY <1>1, <1>t DEF PushBlocks, CanLock, CanPush, Full, Goto
  <2>2. /\ WP' \in SUBSET Producers
        /\ pc'[Consumer] = pc[Consumer]
    BY <2>1, <1>t DEF WaitingProducers
  <2>3. Cardinality(WP') \in Nat /\ Cardinality(WP') <= Cardinality(Producers)
    BY <2>2, ProducerSetsFinite
  <2>4. CASE pc[Consumer] = "waiting"
    <3>1. NP \subseteq Producers \ {p}
      BY <2>1 DEF NotifyingProducers
    <3>2. /\ IsFiniteSet(Producers \ {p})
          /\ Cardinality(Producers \ {p}) = Cardinality(Producers) - 1
      BY FS_RemoveElement
    <3>3. Cardinality(NP) <= Cardinality(Producers) - 1
      BY <3>1, <3>2, FS_Subset
    <3>4. Len(m_queue) <= Cardinality(NP)
      BY <2>4 DEF WakeupInv
    <3>5. QED
      BY <2>1, <3>3, <3>4, <1>f, <1>t
  <2>5. CASE pc[Consumer] # "waiting"
    BY <2>1, <2>2, <2>3, <2>5, <1>f, <1>t DEF WakeupInv
  <2>6. QED
    BY <2>4, <2>5
<1>2. ASSUME NEW p \in Producers, NEW x \in Items, Push(p, x)
      PROVE WakeupInv'
  <2>1. /\ pc[p] \in {"idle", "waking"}
        /\ m_queue' = Append(m_queue, x)
        /\ pc' = [pc EXCEPT ![p] = "notify"]
    BY <1>2 DEF Push, CanLock, Goto
  <2>2. Len(m_queue') = Len(m_queue) + 1
    BY <2>1, <1>t, AppendProperties
  <2>3. WP' = WP /\ NP' = NP \cup {p} /\ pc'[Consumer] = pc[Consumer]
    BY <2>1, <1>t DEF WaitingProducers, NotifyingProducers
  <2>4. Cardinality(NP') = Cardinality(NP) + 1
    <3>1. p \notin NP
      BY <2>1 DEF NotifyingProducers
    <3>2. IsFiniteSet(NP)
      BY <1>f, ProducerSetsFinite
    <3>3. QED
      BY <2>3, <3>1, <3>2, FS_AddElement
  <2>5. QED
    BY <2>2, <2>3, <2>4, <1>f, <1>t DEF WakeupInv
<1>3. CASE PopBlocks
  <2>1. /\ pc[Consumer] \in {"idle", "waking"}
        /\ m_queue' = m_queue
        /\ pc' = [pc EXCEPT ![Consumer] = "waiting"]
    BY <1>3 DEF PopBlocks, CanLock, Goto
  <2>2. Len(m_queue) = 0
    <3>1. m_queue = <<>>
      BY <1>3, Zenon DEF PopBlocks, FlagInv, FlagTellsTruth, Empty
    <3>2. QED
      BY <3>1
  <2>3. WP = {}
    BY <2>1, <2>2, <1>f, <1>t DEF WakeupInv
  <2>4. WP' = WP /\ NP' = NP
    BY <2>1, <1>t DEF WaitingProducers, NotifyingProducers
  <2>5. QED
    BY <2>1, <2>2, <2>3, <2>4, <1>f DEF WakeupInv
<1>4. CASE Pop
  <2>1. /\ pc[Consumer] \in {"idle", "waking"}
        /\ m_queue # <<>>
        /\ m_queue' = Tail(m_queue)
        /\ pc' = [pc EXCEPT ![Consumer] = "notify"]
    BY <1>4 DEF Pop, CanLock, Goto, Empty
  <2>2. Len(m_queue') = Len(m_queue) - 1
    BY <2>1, <1>t, HeadTailProperties
  <2>3. WP' = WP /\ pc'[Consumer] = "notify"
    BY <2>1, <1>t DEF WaitingProducers
  <2>4. QED
    BY <2>1, <2>2, <2>3, <1>f, <1>t DEF WakeupInv
<1>5. CASE PopUndefined
  BY <1>5 DEF PopUndefined, WakeupInv, WaitingProducers, NotifyingProducers
<1>6. ASSUME NEW t \in Threads, NotifyOne(t) PROVE WakeupInv'
  <2>1. pc[t] = "notify" /\ m_queue' = m_queue
    BY <1>6 DEF NotifyOne
  <2>2. CASE Waiting = {} /\ Goto(t, "idle")
    <3>1. WP' = {} /\ pc'[Consumer] # "waiting"
      BY <2>2, <1>t DEF Goto, Waiting, WaitingProducers
    <3>2. QED
      BY <3>1 DEF WakeupInv
  <2>3. ASSUME NEW w \in Waiting,
               pc' = [pc EXCEPT ![t] = "idle", ![w] = "waking"]
        PROVE  WakeupInv'
    <3>1. pc[w] = "waiting" /\ w # t /\ w \in Threads
      BY <2>1 DEF Waiting
    <3>2. CASE w = Consumer
      <4>1. WP = {}
        BY <3>1, <3>2 DEF WakeupInv
      <4>2. WP' = {} /\ pc'[Consumer] = "waking"
        BY <2>3, <3>1, <3>2, <4>1, <1>t DEF WaitingProducers
      <4>3. QED
        BY <4>2 DEF WakeupInv
    <3>3. CASE w \in Producers
      <4>1. w \in WP
        BY <3>1, <3>3 DEF WaitingProducers
      <4>2. pc[Consumer] # "waiting"
        BY <4>1 DEF WakeupInv
      <4>3. /\ WP' = WP \ {w}
            /\ pc'[Consumer] # "waiting"
            /\ t # Consumer => pc'[Consumer] = pc[Consumer]
        BY <2>3, <2>1, <3>1, <3>3, <4>2, <1>t DEF WaitingProducers
      <4>4. Cardinality(WP') = Cardinality(WP) - 1
        <5>1. IsFiniteSet(WP)
          BY <1>f, ProducerSetsFinite
        <5>2. QED
          BY <4>1, <4>3, <5>1, FS_RemoveElement
      <4>5. CASE t = Consumer
        BY <2>1, <4>1, <4>2, <4>3, <4>4, <4>5, <1>f, <1>t DEF WakeupInv
      <4>6. CASE t # Consumer
        BY <2>1, <4>1, <4>2, <4>3, <4>4, <4>6, <1>f, <1>t DEF WakeupInv
      <4>7. QED
        BY <4>5, <4>6
    <3>4. QED
      BY <3>1, <3>2, <3>3 DEF Threads
  <2>4. QED
    BY <1>6, <2>2, <2>3 DEF NotifyOne
<1>7. ASSUME NEW t \in Threads, SpuriousWake(t) PROVE WakeupInv'
  <2>1. pc[t] = "waiting" /\ m_queue' = m_queue
                          /\ pc' = [pc EXCEPT ![t] = "waking"]
    BY <1>7 DEF SpuriousWake, Goto
  <2>2. CASE t = Consumer
    <3>1. WP = {}
      BY <2>1, <2>2 DEF WakeupInv
    <3>2. WP' = {} /\ pc'[Consumer] = "waking"
      BY <2>1, <2>2, <3>1, <1>t DEF WaitingProducers
    <3>3. QED
      BY <3>2 DEF WakeupInv
  <2>3. CASE t \in Producers
    <3>1. t \in WP
      BY <2>1, <2>3 DEF WaitingProducers
    <3>2. WP' = WP \ {t} /\ pc'[Consumer] = pc[Consumer]
      BY <2>1, <2>3, <1>t DEF WaitingProducers
    <3>3. Cardinality(WP') = Cardinality(WP) - 1
      <4>1. IsFiniteSet(WP)
        BY <1>f, ProducerSetsFinite
      <4>2. QED
        BY <3>1, <3>2, <4>1, FS_RemoveElement
    <3>4. QED
      BY <2>1, <3>1, <3>2, <3>3, <1>f, <1>t DEF WakeupInv
  <2>4. QED
    BY <2>2, <2>3 DEF Threads
<1>8. CASE UNCHANGED vars
  BY <1>8 DEF vars, WakeupInv, WaitingProducers, NotifyingProducers
<1>9. QED
  BY <1>1, <1>2, <1>3, <1>4, <1>5, <1>6, <1>7, <1>8
  DEF Next, ProducerStep, ConsumerStep

\* With one consumer and no more producers than places in the queue, notifying
\* after the unlock on one condition variable never leaves the consumer asleep
\* on an unannounced object, nor everybody asleep (QueueManager.h:30, 34-35,
\* 43, 51-52), spurious wake-ups or not.
THEOREM NoWakeupLost ==
    ASSUME NotEmptyInit = {FALSE}, Cardinality(Producers) <= Capacity
    PROVE  SafeSpec => []NoLostWakeup
<1>1. Init => FlagInv
  BY FlagInit
<1>2. TypeInv /\ FlagInv /\ WakeupInv /\ [Next]_vars => WakeupInv'
  BY WakeupNext
<1>3. TypeInv /\ WakeupInv => NoLostWakeup
  <2> SUFFICES ASSUME TypeInv, WakeupInv, pc[Consumer] = "waiting"
               PROVE  /\ ~Empty => \E t \in Threads : pc[t] = "notify"
                      /\ \A p \in Producers : pc[p] # "waiting"
    BY DEF NoLostWakeup
  <2>1. \A p \in Producers : pc[p] # "waiting"
    BY DEF WakeupInv, WaitingProducers
  <2>2. ASSUME ~Empty PROVE \E t \in Threads : pc[t] = "notify"
    <3>1. m_queue \in Seq(Items) /\ m_queue # <<>>
      BY <2>2, Zenon DEF TypeInv, TypeOK, Empty
    <3>2. Len(m_queue) \in Nat /\ Len(m_queue) > 0
      BY <3>1
    <3>3. NotifyingProducers \in SUBSET Producers
      BY DEF NotifyingProducers
    <3>4. Cardinality(NotifyingProducers) # 0
      BY <3>2, <3>3, ProducerSetsFinite DEF WakeupInv
    <3>5. NotifyingProducers # {}
      BY <3>3, <3>4, ProducerSetsFinite
    <3>6. QED
      BY <3>5 DEF NotifyingProducers, Threads
  <2>3. QED
    BY <2>1, <2>2
<1>4. QED
  BY <1>1, <1>2, <1>3, TypeInit, TypeNext, FlagNext, WakeupInit, PTL
  DEF SafeSpec

-----------------------------------------------------------------------------
(* Refinement: the queue is a FIFO channel *)

HistoryInv ==
    /\ sent \in Seq(Items)
    /\ got \in Seq(Items)
    /\ QueueIsDifference

\* Lemma: a step of the queue with its history is a step of the queue.
LEMMA HistoryStep == [NextF]_varsF => [Next]_vars
  BY DEF NextF, varsF, Next, vars, PushF, PopF, Internal, ProducerStep,
         ConsumerStep

\* Lemma: nothing was sent and nothing is queued at the start.
LEMMA HistoryInit == InitF => HistoryInv
<1> SUFFICES ASSUME InitF PROVE HistoryInv
  OBVIOUS
<1>1. sent = <<>> /\ got = <<>> /\ m_queue = <<>>
  BY DEF InitF, Init
<1>2. QED
  BY <1>1 DEF HistoryInv, QueueIsDifference

\* Lemma: pushing appends to both sides of sent = got \o m_queue.
LEMMA HistoryPush ==
    ASSUME TypeInv, HistoryInv, NEW p \in Producers, NEW x \in Items,
           PushF(p, x)
    PROVE  HistoryInv' /\ Channel!Send(x)
<1>1. /\ m_queue \in Seq(Items) /\ sent \in Seq(Items) /\ got \in Seq(Items)
      /\ sent = got \o m_queue
  BY DEF TypeInv, TypeOK, HistoryInv, QueueIsDifference
<1>2. /\ m_queue' = Append(m_queue, x)
      /\ sent' = Append(sent, x)
      /\ got' = got
      /\ Len(m_queue) # Capacity
  BY DEF PushF, Push, CanPush, Full
<1>3. Append(sent, x) = got \o Append(m_queue, x)
  <2>1. <<x>> \in Seq(Items)
    OBVIOUS
  <2>2. /\ Append(sent, x) = sent \o <<x>>
        /\ Append(m_queue, x) = m_queue \o <<x>>
    BY <1>1, AppendIsConcat
  <2>3. (got \o m_queue) \o <<x>> = got \o (m_queue \o <<x>>)
    BY <1>1, <2>1, ConcatAssociative
  <2>4. QED
    BY <1>1, <2>2, <2>3
<1>4. sent' \in Seq(Items)
  BY <1>1, <1>2, AppendProperties
<1>5. Len(sent) < Len(got) + Capacity
  <2>1. Len(sent) = Len(got) + Len(m_queue)
    BY <1>1, ConcatProperties
  <2>2. Len(m_queue) < Capacity /\ Len(m_queue) \in Nat /\ Len(got) \in Nat
    BY <1>1, <1>2, CapacityAssumption, LenProperties DEF TypeInv, TypeOK
  <2>3. QED
    BY <2>1, <2>2, CapacityAssumption
<1>6. QED
  BY <1>1, <1>2, <1>3, <1>4, <1>5
  DEF HistoryInv, QueueIsDifference, Channel!Send

\* Lemma: popping moves the head of the queue to the end of got.
LEMMA HistoryPop ==
    ASSUME TypeInv, HistoryInv, PopF
    PROVE  HistoryInv' /\ Channel!Receive
<1>1. /\ m_queue \in Seq(Items) /\ sent \in Seq(Items) /\ got \in Seq(Items)
      /\ sent = got \o m_queue
  BY DEF TypeInv, TypeOK, HistoryInv, QueueIsDifference
<1>2. /\ m_queue # <<>>
      /\ m_queue' = Tail(m_queue)
      /\ got' = Append(got, Head(m_queue))
      /\ sent' = sent
  BY DEF PopF, Pop, Empty
<1>3. Head(m_queue) \in Items /\ Tail(m_queue) \in Seq(Items)
  BY <1>1, <1>2, HeadTailProperties
<1>4. m_queue = <<Head(m_queue)>> \o Tail(m_queue)
  BY <1>1, <1>2, <1>3
<1>5. sent = Append(got, Head(m_queue)) \o Tail(m_queue)
  <2>1. <<Head(m_queue)>> \in Seq(Items)
    BY <1>3
  <2>2. Append(got, Head(m_queue)) = got \o <<Head(m_queue)>>
    BY <1>1, <1>3, AppendIsConcat
  <2>3. (got \o <<Head(m_queue)>>) \o Tail(m_queue)
          = got \o (<<Head(m_queue)>> \o Tail(m_queue))
    BY <1>1, <1>3, <2>1, ConcatAssociative
  <2>4. QED
    BY <1>1, <1>4, <2>2, <2>3
<1>6. Append(got, Head(m_queue)) \in Seq(Items)
  BY <1>1, <1>3, AppendProperties
<1>7. Len(got) < Len(sent) /\ sent[Len(got) + 1] = Head(m_queue)
  <2>1. /\ Len(sent) = Len(got) + Len(m_queue)
        /\ \A i \in 1 .. Len(got) + Len(m_queue) :
              sent[i] = IF i <= Len(got) THEN got[i] ELSE m_queue[i - Len(got)]
    BY <1>1, ConcatProperties
  <2>2. Len(got) \in Nat /\ Len(m_queue) \in Nat /\ Len(m_queue) > 0
    BY <1>1, <1>2, LenProperties
  <2>3. sent[Len(got) + 1] = m_queue[(Len(got) + 1) - Len(got)]
    BY <2>1, <2>2
  <2>4. (Len(got) + 1) - Len(got) = 1
    BY <2>2
  <2>5. m_queue[1] = Head(m_queue)
    BY <1>1, <1>2
  <2>6. QED
    BY <2>1, <2>2, <2>3, <2>4, <2>5
<1>8. QED
  BY <1>1, <1>2, <1>3, <1>5, <1>6, <1>7
  DEF HistoryInv, QueueIsDifference, Channel!Receive

\* Lemma: every step of the queue is a step of the channel or a stutter.
LEMMA HistoryNext ==
    ASSUME TypeInv, HistoryInv, [NextF]_varsF
    PROVE  HistoryInv' /\ [Channel!Next]_<<sent, got>>
<1>1. ASSUME NEW p \in Producers, NEW x \in Items, PushF(p, x)
      PROVE  HistoryInv' /\ Channel!Next
  BY <1>1, HistoryPush DEF Channel!Next
<1>2. ASSUME PopF PROVE HistoryInv' /\ Channel!Next
  BY <1>2, HistoryPop DEF Channel!Next
<1>3. ASSUME Internal \/ UNCHANGED varsF
      PROVE  UNCHANGED <<m_queue, sent, got>>
  BY <1>3 DEF Internal, varsF, vars, PushBlocks, PopBlocks, PopUndefined,
              NotifyOne, SpuriousWake
<1>4. UNCHANGED <<m_queue, sent, got>> => HistoryInv'
  BY DEF HistoryInv, QueueIsDifference
<1>5. QED
  BY <1>1, <1>2, <1>3, <1>4 DEF NextF

\* What was pushed is what was popped followed by what is in the queue.
THEOREM QueueHoldsDifference == SafeSpecF => []QueueIsDifference
<1>1. InitF => Init
  BY DEF InitF
<1>2. HistoryInv => QueueIsDifference
  BY DEF HistoryInv
<1>3. TypeInv /\ HistoryInv /\ [NextF]_varsF => HistoryInv'
  BY HistoryNext
<1>4. QED
  BY <1>1, <1>2, <1>3, HistoryStep, HistoryInit, TypeInit, TypeNext, PTL
  DEF SafeSpecF

\* The queue implements the FIFO channel of the same capacity: nothing is lost,
\* duplicated or reordered, for any number of producers and even when
\* m_not_empty starts uninitialised (QueueManager.h:27-54).
THEOREM QueueImplementsChannel == SafeSpecF => ImplementsChannel
<1>1. InitF => Channel!Init
  BY DEF InitF, Channel!Init
<1>2. InitF => Init
  BY DEF InitF
<1>3. TypeInv /\ HistoryInv /\ [NextF]_varsF
        => HistoryInv' /\ [Channel!Next]_<<sent, got>>
  BY HistoryNext
<1>4. QED
  BY <1>1, <1>2, <1>3, HistoryStep, HistoryInit, TypeInit, TypeNext, PTL
  DEF SafeSpecF, ImplementsChannel, Channel!SafeSpec

-----------------------------------------------------------------------------
(* The uninitialised flag *)

\* Once something was pushed the flag tells the truth, whatever it was at first.
FlagWritten == sent # <<>> => FlagTellsTruth

\* Lemma: after the first Push every write of the flag agrees with the queue.
LEMMA FlagWrittenNext ==
    ASSUME TypeInv, HistoryInv, FlagWritten, [NextF]_varsF
    PROVE  FlagWritten'
<1>1. ASSUME NEW p \in Producers, NEW x \in Items, PushF(p, x)
      PROVE  FlagTellsTruth'
  <2>1. m_queue \in Seq(Items)
    BY Zenon DEF TypeInv, TypeOK
  <2>2. Append(m_queue, x) # <<>>
    BY <2>1, AppendProperties
  <2>3. m_not_empty' = TRUE /\ m_queue' = Append(m_queue, x)
    BY <1>1 DEF PushF, Push
  <2>4. QED
    BY <2>2, <2>3, Zenon DEF FlagTellsTruth, Empty
<1>2. ASSUME PopF PROVE FlagTellsTruth'
  BY <1>2 DEF PopF, Pop, FlagTellsTruth, Empty
<1>3. ASSUME Internal \/ UNCHANGED varsF
      PROVE  UNCHANGED <<m_queue, m_not_empty, sent>>
  <2>1. UNCHANGED sent
    BY <1>3 DEF Internal, varsF
  <2>2. UNCHANGED <<m_queue, m_not_empty>>
    BY <1>3, Zenon DEF Internal, varsF, vars, PushBlocks, PopBlocks,
                       PopUndefined, NotifyOne, SpuriousWake
  <2>3. QED
    BY <2>1, <2>2
<1>4. UNCHANGED <<m_queue, m_not_empty, sent>> => FlagWritten'
  <2> SUFFICES ASSUME m_queue' = m_queue, m_not_empty' = m_not_empty,
                      sent' = sent
               PROVE  FlagWritten'
    OBVIOUS
  <2>1. QED
    BY Zenon DEF FlagWritten, FlagTellsTruth, Empty
<1>5. FlagTellsTruth' => FlagWritten'
  BY DEF FlagWritten
<1>6. QED
  BY <1>1, <1>2, <1>3, <1>4, <1>5 DEF NextF

\* A node thread that starts on an uninitialised m_not_empty may call front()
\* on an empty std::queue, but only before the first Push (QueueManager.h:20-24,
\* 32, 43): no later interleaving of Push and Pop leads there.
THEOREM UndefinedIsEarly == SafeSpecF => UndefinedOnlyBeforeFirstPush
<1>1. InitF => Init
  BY DEF InitF
<1>2. InitF => FlagWritten
  BY DEF InitF, FlagWritten
<1>3. TypeInv /\ HistoryInv /\ [NextF]_varsF => HistoryInv'
  BY HistoryNext
<1>4. TypeInv /\ HistoryInv /\ FlagWritten /\ [NextF]_varsF => FlagWritten'
  BY FlagWrittenNext
<1>5. FlagWritten /\ [NextF]_varsF => [undefined' => sent = <<>>]_varsF
  <2> SUFFICES ASSUME FlagWritten, NextF, undefined' PROVE sent = <<>>
    OBVIOUS
  <2>1. ~undefined
    BY DEF NextF
  <2>2. PopUndefined
    BY <2>1, Zenon DEF NextF, PushF, Push, PopF, Pop, Internal, PushBlocks,
                       PopBlocks, NotifyOne, SpuriousWake
  <2>3. m_not_empty /\ Empty
    BY <2>2, Zenon DEF PopUndefined
  <2>4. QED
    BY <2>3, Zenon DEF FlagWritten, FlagTellsTruth
<1>6. QED
  BY <1>1, <1>2, <1>3, <1>4, <1>5, HistoryStep, HistoryInit, TypeInit,
     TypeNext, PTL DEF SafeSpecF, UndefinedOnlyBeforeFirstPush
=============================================================================
