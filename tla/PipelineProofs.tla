--------------------------- MODULE PipelineProofs ---------------------------
(* Theorems about Pipeline, for any number of cameras and any capacity of   *)
(* the queues.                                                              *)
EXTENDS Pipeline, FiniteSetTheorems, SequenceTheorems, TLAPS

-----------------------------------------------------------------------------
(* Type correctness *)

\* Lemma: the nodes start at the top of their loops, the queues empty.
LEMMA TypeInit == Init => TypeOK
<1> SUFFICES ASSUME Init PROVE TypeOK
  OBVIOUS
<1>1. readable \in BOOLEAN /\ sys_quit \in BOOLEAN
  BY PipelineAssumption, Zenon DEF Init
<1>2. image \in [Loaders -> BOOLEAN]
  BY <1>1, Zenon DEF Init
<1>3. /\ detect_queue \in Seq(Loaders) /\ monitor_queue \in Seq(Loaders)
      /\ dispatch_queue \in Seq({"logger", "monitor"})
  BY EmptySeq, Zenon DEF Init
<1>4. /\ Len(detect_queue) <= Capacity /\ Len(monitor_queue) <= Capacity
      /\ Len(dispatch_queue) <= Capacity
  BY PipelineAssumption DEF Init
<1>5. lpc \in [Loaders -> {"top", "look", "reload", "reopen", "push", "done"}]
  BY DEF Init
<1>6. ahead \in Int
  BY DEF Init
<1>7. QED
  BY <1>1, <1>2, <1>3, <1>4, <1>5, <1>6, Zenon DEF Init, TypeOK

\* Lemma: a loader's step leaves everything well typed.
LEMMA LoaderTypes ==
  ASSUME TypeOK, NEW l \in Loaders, LoaderStep(l)
  PROVE  TypeOK'
<1> USE DEF TypeOK, LoaderTo, LoaderLooks, camera, detector, monitor, dispatcher
<1>1. CASE LoaderTop(l)
  BY <1>1 DEF LoaderTop, NextTurn
<1>2. CASE LoaderLook(l)
  BY <1>2 DEF LoaderLook
<1>3. CASE Reload(l)
  BY <1>3 DEF Reload
<1>4. CASE ReopenCamera(l)
  BY <1>4 DEF ReopenCamera
<1>5. CASE PushFrame(l)
  <2>1. /\ Append(detect_queue, l) \in Seq(Loaders)
        /\ Len(Append(detect_queue, l)) = Len(detect_queue) + 1
    BY AppendProperties
  <2>2. detect_queue' \in Seq(Loaders) /\ Len(detect_queue') <= Capacity
    BY <1>5, <2>1, PipelineAssumption DEF PushFrame, HasPlace
  <2>3. QED
    BY <1>5, <2>2 DEF PushFrame
<1>6. QED
  BY <1>1, <1>2, <1>3, <1>4, <1>5 DEF LoaderStep

\* Lemma: so does a step of the detector.
LEMMA DetectorTypes == TypeOK /\ DetectorStep => TypeOK'
<1> SUFFICES ASSUME TypeOK, DetectorStep PROVE TypeOK'
  OBVIOUS
<1> USE DEF TypeOK, camera, monitor, dispatcher
<1>1. CASE DetectorTop
  BY <1>1 DEF DetectorTop, NextTurn
<1>2. CASE PopFrame
  <2>1. /\ Head(detect_queue) \in Loaders /\ Tail(detect_queue) \in Seq(Loaders)
        /\ Len(Tail(detect_queue)) = Len(detect_queue) - 1
    BY <1>2, HeadTailProperties DEF PopFrame
  <2>2. dframe' \in Loaders /\ detect_queue' \in Seq(Loaders)
    BY <1>2, <2>1 DEF PopFrame
  <2>3. Len(detect_queue') <= Capacity
    BY <1>2, <2>1, LenProperties, PipelineAssumption DEF PopFrame
  <2>4. QED
    BY <1>2, <2>2, <2>3 DEF PopFrame
<1>3. CASE DetectorLook
  BY <1>3 DEF DetectorLook
<1>4. CASE PushLoggerEvent
  <2>1. /\ Append(dispatch_queue, "logger") \in Seq({"logger", "monitor"})
        /\ Len(Append(dispatch_queue, "logger")) = Len(dispatch_queue) + 1
    BY AppendProperties
  <2>2. /\ dispatch_queue' \in Seq({"logger", "monitor"})
        /\ Len(dispatch_queue') <= Capacity
    BY <1>4, <2>1, LenProperties, PipelineAssumption DEF PushLoggerEvent, HasPlace
  <2>3. QED
    BY <1>4, <2>2 DEF PushLoggerEvent
<1>5. CASE PushMetaData
  <2>1. /\ Append(monitor_queue, dframe) \in Seq(Loaders)
        /\ Len(Append(monitor_queue, dframe)) = Len(monitor_queue) + 1
    BY AppendProperties
  <2>2. monitor_queue' \in Seq(Loaders) /\ Len(monitor_queue') <= Capacity
    BY <1>5, <2>1, LenProperties, PipelineAssumption DEF PushMetaData, HasPlace
  <2>3. QED
    BY <1>5, <2>2 DEF PushMetaData
<1>6. QED
  BY <1>1, <1>2, <1>3, <1>4, <1>5 DEF DetectorStep

\* Lemma: and one of the monitor.
LEMMA MonitorTypes == TypeOK /\ MonitorStep => TypeOK'
<1> SUFFICES ASSUME TypeOK, MonitorStep PROVE TypeOK'
  OBVIOUS
<1> USE DEF TypeOK, camera, detector, dispatcher
<1>1. CASE MonitorTop
  BY <1>1 DEF MonitorTop, NextTurn
<1>2. CASE PopMetaData
  <2>1. /\ Head(monitor_queue) \in Loaders /\ Tail(monitor_queue) \in Seq(Loaders)
        /\ Len(Tail(monitor_queue)) = Len(monitor_queue) - 1
    BY <1>2, HeadTailProperties DEF PopMetaData
  <2>2. mframe' \in Loaders /\ monitor_queue' \in Seq(Loaders)
    BY <1>2, <2>1 DEF PopMetaData
  <2>3. Len(monitor_queue') <= Capacity
    BY <1>2, <2>1, LenProperties, PipelineAssumption DEF PopMetaData
  <2>4. QED
    BY <1>2, <2>2, <2>3 DEF PopMetaData
<1>3. CASE SendMsg
  <2>1. /\ Append(dispatch_queue, "monitor") \in Seq({"logger", "monitor"})
        /\ Len(Append(dispatch_queue, "monitor")) = Len(dispatch_queue) + 1
    BY AppendProperties
  <2>2. /\ dispatch_queue' \in Seq({"logger", "monitor"})
        /\ Len(dispatch_queue') <= Capacity
    BY <1>3, <2>1, LenProperties, PipelineAssumption DEF SendMsg, HasPlace
  <2>3. QED
    BY <1>3, <2>2 DEF SendMsg
<1>4. CASE ReleaseImage
  BY <1>4 DEF ReleaseImage
<1>5. QED
  BY <1>1, <1>2, <1>3, <1>4 DEF MonitorStep

\* Lemma: and one of the dispatcher.
LEMMA DispatchTypes == TypeOK /\ DispatchStep => TypeOK'
<1> SUFFICES ASSUME TypeOK, DispatchStep PROVE TypeOK'
  OBVIOUS
<1> USE DEF TypeOK, camera, detector, monitor
<1>1. CASE DispatchTop
  BY <1>1 DEF DispatchTop, NextTurn
<1>2. CASE Dispatch
  <2>1. /\ Head(dispatch_queue) \in {"logger", "monitor"}
        /\ Tail(dispatch_queue) \in Seq({"logger", "monitor"})
        /\ Len(Tail(dispatch_queue)) = Len(dispatch_queue) - 1
    BY <1>2, HeadTailProperties DEF Dispatch
  <2>2. /\ dispatch_queue' \in Seq({"logger", "monitor"})
        /\ Len(dispatch_queue') <= Capacity
    BY <1>2, <2>1, LenProperties, PipelineAssumption DEF Dispatch
  <2>3. last' \in {"none", "logger", "monitor"} /\ ahead' \in Int
    BY <1>2, <2>1 DEF Dispatch
  <2>4. QED
    BY <1>2, <2>2, <2>3 DEF Dispatch
<1>3. QED
  BY <1>1, <1>2 DEF DispatchStep

\* Lemma: every step leaves everything well typed.
LEMMA TypeNext == TypeOK /\ [Next]_vars => TypeOK'
<1> SUFFICES ASSUME TypeOK, [Next]_vars PROVE TypeOK'
  OBVIOUS
<1>1. CASE StopAll
  BY <1>1 DEF TypeOK, StopAll, camera, detector, monitor, dispatcher
<1>2. CASE FileVanishes
  BY <1>2 DEF TypeOK, FileVanishes, detector, monitor, dispatcher
<1>3. CASE UNCHANGED vars
  BY <1>3 DEF TypeOK, vars, camera, detector, monitor, dispatcher
<1>4. QED
  BY <1>1, <1>2, <1>3, LoaderTypes, DetectorTypes, MonitorTypes, DispatchTypes
  DEF Next

\* The nodes are where their loops can be, the queues hold frames and events
\* and never more than their capacity (SolutionPipeline.cpp:54, DetectorNode.cpp
\* :31-54, MonitorNode.cpp:25-61).
THEOREM TypeCorrect == SafeSpec => []TypeOK
<1>1. QED
  BY TypeInit, TypeNext, PTL DEF SafeSpec

-----------------------------------------------------------------------------
(* Counting the events of a queue *)

Events == {"logger", "monitor"}

\* Lemma: an event more is counted if it is of the kind counted.
LEMMA CountAppend ==
  ASSUME NEW q \in Seq(Events), NEW e \in Events, NEW kind
  PROVE  /\ IsFiniteSet(Places(q, kind)) /\ Count(q, kind) \in Nat
         /\ Count(Append(q, e), kind) = Count(q, kind) + IF e = kind THEN 1 ELSE 0
<1> DEFINE more == Append(q, e)
           n == Len(q) + 1
<1>1. n \in Nat /\ DOMAIN q = 1 .. n - 1
  BY LenProperties
<1>2. DOMAIN more = 1 .. n /\ more[n] = e /\ \A i \in 1 .. n - 1 : more[i] = q[i]
  BY AppendProperties, LenProperties
<1>3. IsFiniteSet(Places(q, kind)) /\ Count(q, kind) \in Nat
  <2>1. IsFiniteSet(1 .. n - 1)
    BY <1>1, FS_Interval
  <2>2. Places(q, kind) \in SUBSET (1 .. n - 1)
    BY <1>1 DEF Places
  <2>3. QED
    BY <2>1, <2>2, FS_Subset, FS_CardinalityType DEF Count
<1>4. n \notin Places(q, kind)
  BY <1>1 DEF Places
<1>5. CASE e = kind
  <2>1. Places(more, kind) = Places(q, kind) \cup {n}
    BY <1>1, <1>2, <1>5 DEF Places
  <2>2. QED
    BY <2>1, <1>3, <1>4, <1>5, FS_AddElement DEF Count
<1>6. CASE e # kind
  <2>1. Places(more, kind) = Places(q, kind)
    BY <1>1, <1>2, <1>6 DEF Places
  <2>2. QED
    BY <2>1, <1>3, <1>6 DEF Count
<1>7. QED
  BY <1>3, <1>5, <1>6

\* Lemma: the event popped is not counted any more, and the others move up.
LEMMA CountTail ==
  ASSUME NEW q \in Seq(Events), q # <<>>, NEW kind
  PROVE  Count(q, kind) = Count(Tail(q), kind) + IF Head(q) = kind THEN 1 ELSE 0
<1> DEFINE n == Len(q)
           behind == Places(q, kind) \ {1}
<1>1. n \in Nat \ {0} /\ DOMAIN q = 1 .. n /\ Head(q) = q[1]
  BY LenProperties, EmptySeq
<1>2. /\ Tail(q) \in Seq(Events) /\ DOMAIN Tail(q) = 1 .. n - 1
      /\ \A i \in 1 .. n - 1 : Tail(q)[i] = q[i + 1]
  BY HeadTailProperties, LenProperties
<1>3. IsFiniteSet(Places(q, kind)) /\ IsFiniteSet(Places(Tail(q), kind))
  BY <1>2, CountAppend DEF Events
<1>4. Cardinality(Places(Tail(q), kind)) = Cardinality(behind)
  <2> DEFINE up == [i \in Places(Tail(q), kind) |-> i + 1]
  <2>1. \A i \in Places(Tail(q), kind) : i \in 1 .. n - 1 /\ q[i + 1] = kind
    BY <1>2 DEF Places
  <2>2. \A i \in Places(Tail(q), kind) : up[i] \in behind
    BY <2>1, <1>1 DEF Places
  <2>3. \A j \in behind : j - 1 \in Places(Tail(q), kind) /\ up[j - 1] = j
    BY <1>1, <1>2 DEF Places
  <2>4. \A i, j \in Places(Tail(q), kind) : up[i] = up[j] => i = j
    BY <2>1
  <2>5. up \in Bijection(Places(Tail(q), kind), behind)
    <3>1. up \in [Places(Tail(q), kind) -> behind]
      BY <2>2
    <3>2. \A j \in behind : \E i \in Places(Tail(q), kind) : up[i] = j
      BY <2>3
    <3>3. DOMAIN up = Places(Tail(q), kind)
      OBVIOUS
    <3> HIDE DEF up, behind
    <3>4. QED
      BY <3>1, <3>2, <3>3, <2>4, Zenon DEF Bijection, Injection, IsInjective, Surjection
  <2>6. QED
    BY <2>5, <1>3, FS_Bijection DEF ExistsBijection
<1>5. Cardinality(behind) = Cardinality(Places(q, kind))
                                - IF 1 \in Places(q, kind) THEN 1 ELSE 0
  BY <1>3, FS_RemoveElement, FS_CardinalityType
<1>6. 1 \in Places(q, kind) <=> Head(q) = kind
  BY <1>1 DEF Places
<1>7. QED
  BY <1>3, <1>4, <1>5, <1>6, FS_CardinalityType DEF Count

-----------------------------------------------------------------------------
(* The events on their way, and those ahead *)

Weight(event) == IF event = "logger" THEN 1 ELSE -1

\* What ahead will have been after each event in the queue, if they are handled
\* in their order: it ends in what is unreported now, and never leaves the
\* bounds on the way.  LoggerFirst and LagBounded speak of its first value alone
\* and are not inductive.
IsForecast(forecast) ==
    /\ forecast \in [0 .. Len(dispatch_queue) -> 0 .. Capacity + 2]
    /\ forecast[0] = ahead
    /\ \A i \in 1 .. Len(dispatch_queue) :
           forecast[i] = forecast[i - 1] + Weight(dispatch_queue[i])
    /\ forecast[Len(dispatch_queue)] = Unreported

OrderInv == \E forecast \in [0 .. Len(dispatch_queue) -> 0 .. Capacity + 2] :
                IsForecast(forecast)

PipelineInv == TypeOK /\ EventsBalance /\ OrderInv

\* Lemma: what is unreported is in the monitor's queue or in a node's hand.
LEMMA UnreportedBounded == TypeOK => Unreported \in 0 .. Capacity + 2
<1> SUFFICES ASSUME TypeOK PROVE Unreported \in 0 .. Capacity + 2
  OBVIOUS
<1>1. Len(monitor_queue) \in 0 .. Capacity
  BY LenProperties, PipelineAssumption DEF TypeOK
<1> DEFINE d == IF dpc = "forward" THEN 1 ELSE 0
           m == IF mpc = "send" THEN 1 ELSE 0
<1>2. d \in 0 .. 1 /\ m \in 0 .. 1
  OBVIOUS
<1>3. Unreported = Len(monitor_queue) + d + m
  BY DEF Unreported
<1> HIDE DEF d, m
<1>4. QED
  BY <1>1, <1>2, <1>3, PipelineAssumption

\* Lemma: at the start nothing is on its way.
LEMMA PipelineInit == Init => PipelineInv
<1> SUFFICES ASSUME Init PROVE PipelineInv
  OBVIOUS
<1>1. TypeOK
  BY TypeInit
<1>2. Unreported = 0 /\ ahead = 0 /\ dispatch_queue = <<>> /\ Len(dispatch_queue) = 0
  BY DEF Init, Unreported
<1>3. ASSUME NEW kind PROVE Count(dispatch_queue, kind) = 0
  <2>1. Places(dispatch_queue, kind) = {}
    BY <1>2 DEF Places
  <2>2. QED
    BY <2>1, FS_EmptySet DEF Count
<1>4. EventsBalance
  BY <1>2, <1>3 DEF EventsBalance
<1>5. IsForecast([i \in 0 .. 0 |-> 0])
  BY <1>2, PipelineAssumption DEF IsForecast
<1>6. QED
  BY <1>1, <1>4, <1>5 DEF PipelineInv, OrderInv, IsForecast

\* Lemma: a step that handles no event and pushes none, and leaves as much
\* unreported as there was, leaves the invariant alone.
LEMMA Quiet ==
  ASSUME PipelineInv, TypeOK', Unreported' = Unreported,
         UNCHANGED <<dispatch_queue, ahead>>
  PROVE  PipelineInv'
<1>1. EventsBalance'
  BY Zenon DEF PipelineInv, EventsBalance, Count, Places
<1>2. OrderInv'
  BY Zenon DEF PipelineInv, OrderInv, IsForecast
<1>3. QED
  BY <1>1, <1>2, Zenon DEF PipelineInv

\* Lemma: an event pushed by the node that makes it adds to what is unreported
\* what its handler will add to ahead.
LEMMA Pushes ==
  ASSUME PipelineInv, TypeOK', NEW e \in Events,
         dispatch_queue' = Append(dispatch_queue, e), ahead' = ahead,
         Unreported' = Unreported + Weight(e)
  PROVE  PipelineInv'
<1> DEFINE n == Len(dispatch_queue)
<1>1. /\ dispatch_queue \in Seq(Events) /\ n \in Nat
      /\ Len(dispatch_queue') = n + 1 /\ dispatch_queue'[n + 1] = e
      /\ \A i \in 1 .. n : dispatch_queue'[i] = dispatch_queue[i]
  BY AppendProperties, LenProperties DEF PipelineInv, TypeOK, Events
<1>2. Unreported \in Int /\ Unreported' \in 0 .. Capacity + 2
  <2>1. TypeOK' => (Unreported \in 0 .. Capacity + 2)'
    BY UnreportedBounded, PTL
  <2>2. Unreported \in 0 .. Capacity + 2
    BY UnreportedBounded DEF PipelineInv
  <2>3. QED
    BY <2>1, <2>2, PipelineAssumption
<1>3. EventsBalance'
  <2>1. ASSUME NEW kind
        PROVE /\ Count(dispatch_queue, kind) \in Nat
              /\ Count(dispatch_queue, kind)'
                   = Count(dispatch_queue, kind) + IF e = kind THEN 1 ELSE 0
    <3>1. Count(dispatch_queue, kind)' = Count(Append(dispatch_queue, e), kind)
      BY DEF Count, Places
    <3>2. QED
      BY <3>1, <1>1, CountAppend
  <2>2. ahead \in Int
    BY DEF PipelineInv, TypeOK
  <2>3. QED
    BY <2>1, <2>2, <1>2 DEF PipelineInv, EventsBalance, Weight, Events
<1>4. OrderInv'
  <2>1. PICK f \in [0 .. n -> 0 .. Capacity + 2] : IsForecast(f)
    BY DEF PipelineInv, OrderInv
  <2> DEFINE g == [i \in 0 .. n + 1 |-> IF i = n + 1 THEN Unreported' ELSE f[i]]
  <2>2. g \in [0 .. n + 1 -> 0 .. Capacity + 2]
    BY <1>1, <1>2
  <2>3. g[0] = ahead
    BY <1>1, <2>1 DEF IsForecast
  <2>4. ASSUME NEW i \in 1 .. n + 1
        PROVE g[i] = g[i - 1] + Weight(dispatch_queue'[i])
    <3>1. CASE i = n + 1
      BY <3>1, <1>1, <2>1 DEF IsForecast
    <3>2. CASE i # n + 1
      <4>1. i \in 1 .. n /\ g[i] = f[i] /\ g[i - 1] = f[i - 1]
        BY <3>2, <1>1
      <4>2. QED
        BY <4>1, <1>1, <2>1 DEF IsForecast
    <3>3. QED
      BY <3>1, <3>2
  <2>5. g[n + 1] = Unreported'
    BY <1>1
  <2> HIDE DEF g
  <2>6. PICK h : h = g
    OBVIOUS
  <2>7. IsForecast(h)'
    BY <1>1, <2>2, <2>3, <2>4, <2>5, <2>6 DEF IsForecast, Weight
  <2>8. QED
    BY <2>2, <2>6, <2>7, <1>1 DEF OrderInv
<1>5. QED
  BY <1>3, <1>4, Zenon DEF PipelineInv

\* Lemma: an event handled has its weight in ahead from then on.
LEMMA Handles == PipelineInv /\ TypeOK' /\ Dispatch => PipelineInv'
<1> SUFFICES ASSUME PipelineInv, TypeOK', Dispatch PROVE PipelineInv'
  OBVIOUS
<1> DEFINE n == Len(dispatch_queue)
           e == Head(dispatch_queue)
<1>1. /\ dispatch_queue \in Seq(Events) /\ dispatch_queue # <<>>
      /\ n \in Nat \ {0} /\ e = dispatch_queue[1] /\ e \in Events
      /\ dispatch_queue' = Tail(dispatch_queue)
      /\ Len(dispatch_queue') = n - 1
      /\ \A i \in 1 .. n - 1 : dispatch_queue'[i] = dispatch_queue[i + 1]
  BY HeadTailProperties, LenProperties, EmptySeq
  DEF PipelineInv, TypeOK, Events, Dispatch
<1>2. ahead \in Int /\ ahead' = ahead + Weight(e)
  BY DEF PipelineInv, TypeOK, Dispatch, Weight
<1>3. Unreported' = Unreported /\ Unreported \in 0 .. Capacity + 2
  BY UnreportedBounded, Zenon
  DEF PipelineInv, Dispatch, Unreported, detector, monitor
<1>4. EventsBalance'
  <2>1. ASSUME NEW kind
        PROVE /\ Count(dispatch_queue, kind)' \in Nat
              /\ Count(dispatch_queue, kind)
                   = Count(dispatch_queue, kind)' + IF e = kind THEN 1 ELSE 0
    <3>1. Count(dispatch_queue, kind)' = Count(Tail(dispatch_queue), kind)
      BY <1>1 DEF Count, Places
    <3>2. Tail(dispatch_queue) \in Seq(Events)
      BY <1>1, HeadTailProperties
    <3>3. Count(Tail(dispatch_queue), kind) \in Nat
      BY <3>2, CountAppend DEF Events
    <3>4. QED
      BY <3>1, <3>3, <1>1, CountTail
  <2>2. QED
    BY <2>1, <1>1, <1>2, <1>3, PipelineAssumption
    DEF PipelineInv, EventsBalance, Weight, Events
<1>5. OrderInv'
  <2>1. PICK f \in [0 .. n -> 0 .. Capacity + 2] : IsForecast(f)
    BY DEF PipelineInv, OrderInv
  <2> DEFINE g == [i \in 0 .. n - 1 |-> f[i + 1]]
  <2>2. g \in [0 .. n - 1 -> 0 .. Capacity + 2]
    BY <1>1
  <2>3. g[0] = ahead'
    BY <1>1, <1>2, <2>1 DEF IsForecast
  <2>4. ASSUME NEW i \in 1 .. n - 1
        PROVE g[i] = g[i - 1] + Weight(dispatch_queue'[i])
    <3>1. /\ g[i] = f[i + 1] /\ g[i - 1] = f[i] /\ i + 1 \in 1 .. n
          /\ i + 1 - 1 = i
      BY <1>1
    <3>2. QED
      BY <3>1, <1>1, <2>1 DEF IsForecast
  <2>5. g[n - 1] = Unreported'
    BY <1>1, <1>3, <2>1 DEF IsForecast
  <2> HIDE DEF g
  <2>6. PICK h : h = g
    OBVIOUS
  <2>7. IsForecast(h)'
    BY <1>1, <2>2, <2>3, <2>4, <2>5, <2>6 DEF IsForecast, Weight
  <2>8. QED
    BY <2>2, <2>6, <2>7, <1>1 DEF OrderInv
<1>6. QED
  BY <1>4, <1>5, Zenon DEF PipelineInv

\* Lemma: every step keeps the events balanced and in their order.
LEMMA PipelineNext == PipelineInv /\ [Next]_vars => PipelineInv'
<1> SUFFICES ASSUME PipelineInv, [Next]_vars PROVE PipelineInv'
  OBVIOUS
<1>1. TypeOK /\ TypeOK'
  BY TypeNext DEF PipelineInv
<1> USE DEF Unreported
<1>2. ASSUME NEW l \in Loaders, LoaderStep(l) PROVE PipelineInv'
  BY <1>1, <1>2, Quiet
  DEF LoaderStep, LoaderTop, LoaderLook, Reload, ReopenCamera, PushFrame,
      LoaderLooks, detector, monitor, dispatcher
<1>3. CASE DetectorTop \/ PopFrame \/ DetectorLook
  <2>1. dpc # "forward" /\ dpc' # "forward"
    BY <1>3 DEF DetectorTop, PopFrame, DetectorLook, NextTurn
  <2>2. QED
    BY <1>1, <1>3, <2>1, Quiet
    DEF DetectorTop, PopFrame, DetectorLook, monitor, dispatcher
<1>4. CASE PushLoggerEvent
  <2>1. Unreported' = Unreported + Weight("logger")
    BY <1>1, <1>4, LenProperties
    DEF PushLoggerEvent, TypeOK, monitor, Weight
  <2>2. QED
    BY <1>1, <1>4, <2>1, Pushes DEF PushLoggerEvent, Events, dispatcher
<1>5. CASE PushMetaData
  <2>1. Len(monitor_queue') = Len(monitor_queue) + 1 /\ Len(monitor_queue) \in Nat
    BY <1>1, <1>5, AppendProperties, LenProperties DEF TypeOK, PushMetaData
  <2>2. QED
    BY <1>1, <1>5, <2>1, Quiet DEF PushMetaData, monitor, dispatcher
<1>6. CASE MonitorTop \/ ReleaseImage
  <2>1. mpc # "send" /\ mpc' # "send"
    BY <1>6 DEF MonitorTop, ReleaseImage, NextTurn
  <2>2. QED
    BY <1>1, <1>6, <2>1, Quiet
    DEF MonitorTop, ReleaseImage, detector, dispatcher
<1>7. CASE PopMetaData
  <2>1. Len(monitor_queue') = Len(monitor_queue) - 1 /\ Len(monitor_queue) \in Nat
    BY <1>1, <1>7, HeadTailProperties, LenProperties DEF TypeOK, PopMetaData
  <2>2. QED
    BY <1>1, <1>7, <2>1, Quiet DEF PopMetaData, detector, dispatcher
<1>8. CASE SendMsg
  <2>1. Unreported' = Unreported + Weight("monitor")
    BY <1>1, <1>8, LenProperties DEF SendMsg, TypeOK, detector, Weight
  <2>2. QED
    BY <1>1, <1>8, <2>1, Pushes DEF SendMsg, Events, dispatcher
<1>9. CASE DispatchTop
  BY <1>1, <1>9, Quiet DEF DispatchTop, detector, monitor
<1>10. CASE Dispatch
  BY <1>1, <1>10, Handles
<1>11. CASE StopAll \/ FileVanishes \/ UNCHANGED vars
  BY <1>1, <1>11, Quiet
  DEF StopAll, FileVanishes, vars, detector, monitor, dispatcher
<1>12. QED
  BY <1>2, <1>3, <1>4, <1>5, <1>6, <1>7, <1>8, <1>9, <1>10, <1>11
  DEF Next, DetectorStep, MonitorStep, DispatchStep

\* Lemma: the first value of the forecast is ahead.
LEMMA AheadBounded == PipelineInv => LoggerFirst /\ LagBounded
<1> SUFFICES ASSUME PipelineInv PROVE ahead \in 0 .. Capacity + 2
  BY PipelineAssumption DEF LoggerFirst, LagBounded
<1>1. PICK f \in [0 .. Len(dispatch_queue) -> 0 .. Capacity + 2] : IsForecast(f)
  BY DEF PipelineInv, OrderInv
<1>2. 0 \in 0 .. Len(dispatch_queue)
  BY LenProperties DEF PipelineInv, TypeOK
<1>3. QED
  BY <1>1, <1>2 DEF IsForecast

\* Every frame the detector lets through yields one LoggerEvent and one
\* MonitorEvent, wherever they are by now (DetectorNode.cpp:42-53,
\* MonitorNode.cpp:39-60).
THEOREM EventsBalanced == SafeSpec => []EventsBalance
<1>1. PipelineInv => EventsBalance
  BY DEF PipelineInv
<1>2. QED
  BY <1>1, PipelineInit, PipelineNext, PTL DEF SafeSpec

\* A frame's MonitorEvent is never handled before its LoggerEvent, for any
\* number of cameras and any capacity (DetectorNode.cpp:49-53).
THEOREM LoggedFirst == SafeSpec => []LoggerFirst
<1>1. PipelineInv => LoggerFirst
  BY AheadBounded
<1>2. QED
  BY <1>1, PipelineInit, PipelineNext, PTL DEF SafeSpec

\* The log is never more than the monitor's queue and two hands ahead of the
\* monitor (SolutionPipeline.cpp:54).
THEOREM LagIsBounded == SafeSpec => []LagBounded
<1>1. PipelineInv => LagBounded
  BY AheadBounded
<1>2. QED
  BY <1>1, PipelineInit, PipelineNext, PTL DEF SafeSpec

=============================================================================
