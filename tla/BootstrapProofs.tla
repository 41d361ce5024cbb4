-------------------------- MODULE BootstrapProofs --------------------------
(* Theorems about Bootstrap, for every configuration: any features, any      *)
(* inputs, any number of them.                                               *)
EXTENDS Bootstrap, SequenceTheorems, TLAPS

-----------------------------------------------------------------------------
(* The loops and the names of their nodes *)

LoopsAfter ==
    [global  |-> {"feature", "core", "input", "video", "done"},
     feature |-> {"core", "input", "video", "done"},
     core    |-> {"input", "video", "done"},
     input   |-> {"video", "done"}]

\* The main thread is through with building element i of loop l.
Reached(l, i) ==
    \/ loop \in LoopsAfter[l]
    \/ loop = l /\ i < at
    \/ loop = l /\ i = at /\ doing # "build"

Known(i) == feature_map(features[i]) # <<>>

\* Lemma: the only feature in feature_map is the monitor.
LEMMA FeatureMap ==
  ASSUME NEW f, feature_map(f) # <<>>
  PROVE  feature_map(f)[1] = "MonitorNode"
  BY DEF feature_map

\* Lemma: how long the loops are.
LEMMA Lengths ==
  ASSUME TypeOK
  PROVE  /\ Length.global = 2 /\ Length.core = 1
         /\ Length.feature = Len(features) /\ Length.feature \in Nat
         /\ Length.input = Len(inputs) /\ Length.video = Len(inputs)
         /\ Length.input \in Nat
         /\ DOMAIN features = 1 .. Length.feature
         /\ DOMAIN inputs = 1 .. Length.input
  BY LenProperties DEF Length, GlobalNames, CoreNames, TypeOK

\* Lemma: the nodes of the fixed loops and of the features.
LEMMA NodeNames ==
  /\ NodeName(<<"global", 1>>) = "DispatchNode"
  /\ NodeName(<<"global", 2>>) = "FlowRpcAsynNode"
  /\ NodeName(<<"core", 1>>) = "DetectorNode"
  /\ \A i : Known(i) => NodeName(<<"feature", i>>) = "MonitorNode"
  BY DEF NodeName, GlobalNames, CoreNames, Known, feature_map

\* Lemma: the loaders are no other nodes.
LEMMA LoaderNames ==
  ASSUME TypeOK, NEW i \in DOMAIN inputs
  PROVE  NodeName(<<"input", i>>) \in {"RtspLoaderNode", "", "LocalVideoLoaderNode"}
<1>1. inputs[i] \in Addresses
  BY LenProperties DEF TypeOK
<1>2. LoaderName(inputs[i]) \in {"RtspLoaderNode", "", "LocalVideoLoaderNode"}
  BY <1>1 DEF LoaderName, Addresses
<1>3. QED
  BY <1>2 DEF NodeName

-----------------------------------------------------------------------------
(* The inductive invariant *)

\* Where the main thread can be.  Only a node that is built and kept is started.
WhereInv ==
    /\ doing = "start" => loop \in {"global", "feature", "core"}
    /\ doing = "sleep" => loop \in {"global", "feature", "core", "video"}
    /\ doing # "build" => at <= Length[loop]
    /\ doing # "build" /\ loop # "video" => Here \in built
    /\ loop = "video" /\ at <= Length.video => <<"input", at>> \in built \ lost
    /\ loop \in LoopsAfter.global => flow

\* Every node the main thread is through with is built, but a feature that is not
\* in feature_map has none; and there is no DetectorNode with such a feature.
BuiltInv ==
    /\ \A i \in {1, 2} : Reached("global", i) => <<"global", i>> \in built
    /\ \A i \in DOMAIN features :
           Reached("feature", i) /\ Known(i) => <<"feature", i>> \in built
    /\ Reached("core", 1) => <<"core", 1>> \in built
    /\ <<"core", 1>> \in built => \A i \in DOMAIN features : Known(i)
    /\ \A n \in built : Reached(n[1], n[2]) /\ n[2] <= Length[n[1]]

\* Each node built has its queue, and found those it looked up.
QueuesInv ==
    /\ \A n \in built : NodeName(n) \in queues
    /\ NoNullQueue

\* The features that have a pipeline, and the nodes that are destroyed.
OwnersInv ==
    /\ loop \in {"global"} => pipelines = {}
    /\ \A f \in pipelines :
           \E i \in DOMAIN features :
               features[i] = f /\ (loop = "feature" => i < at)
    /\ \A n \in lost :
           \/ n[1] = "input"
           \/ n[1] = "feature" /\ Repeated(n[2])

\* Loaders run in the last loop but one at the earliest, and none is destroyed
\* from then on.
ThreadsInv ==
    \A t \in running : t[2][1] = "input" =>
        loop \in {"video", "done"} /\ t[2] \notin lost

\* While threads are punctual, nothing moves before a thread has its node.
PunctualInv == punctual =>
    /\ pending \subseteq {Started}
    /\ pending # {} => doing = "sleep"
    /\ \A t \in running : t[1] = t[2]
    /\ \A n \in built : n[1] # "input" =>
           Runs(n) \/ n \in pending \/ (n = Here /\ doing = "start")

BootInv ==
    /\ TypeOK /\ WhereInv /\ BuiltInv /\ QueuesInv /\ OwnersInv
    /\ ThreadsInv /\ PunctualInv

\* Lemma: nothing is built at the start.
LEMMA BootInit == Init => BootInv
<1> SUFFICES ASSUME Init PROVE BootInv
  OBVIOUS
<1>1. features \in Seq(FeatureNames) /\ inputs \in Seq(Addresses)
  BY ConfigurationAssumption, SeqDef DEF Init, UpTo
<1>2. TypeOK
  <2>1. punctual \in BOOLEAN /\ flow \in BOOLEAN /\ undefined \in BOOLEAN
    BY Zenon DEF Init
  <2>2. DOMAIN uses = built
    BY DEF Init
  <2>3. loop \in Loops /\ at \in Nat \ {0} /\ doing \in {"build", "start", "sleep"}
    BY DEF Init, Loops
  <2>4. QED
    BY <1>1, <2>1, <2>2, <2>3, Zenon DEF Init, TypeOK
<1>3. WhereInv
  BY DEF Init, WhereInv, LoopsAfter
<1>4. BuiltInv
  BY DEF Init, BuiltInv, Reached, LoopsAfter
<1>5. QueuesInv /\ OwnersInv /\ ThreadsInv /\ PunctualInv
  BY DEF Init, QueuesInv, NoNullQueue, OwnersInv, ThreadsInv, PunctualInv
<1>6. QED
  BY <1>2, <1>3, <1>4, <1>5 DEF BootInv

-----------------------------------------------------------------------------
(* The steps that follow a bad pointer, and steps of no variable *)

\* Lemma: what undefined says is nobody's business.
LEMMA OnlyUndefined ==
  ASSUME BootInv, undefined' \in BOOLEAN,
         UNCHANGED <<config, main, nodes, owners, flow, pending, running>>
  PROVE  BootInv'
<1> USE DEF BootInv, config, main, nodes, owners
<1>1. TypeOK'
  BY DEF TypeOK
<1>2. NodeName(Here)' = NodeName(Here) /\ \A n \in built : NodeName(n)' = NodeName(n)
  BY DEF NodeName, Here
<1>3. WhereInv' /\ BuiltInv'
  BY DEF WhereInv, BuiltInv, Here, Reached, Known, Length
<1>4. QueuesInv'
  BY <1>2 DEF QueuesInv, NoNullQueue
<1>5. OwnersInv' /\ ThreadsInv'
  BY DEF OwnersInv, ThreadsInv, Repeated
<1>6. PunctualInv'
  BY DEF PunctualInv, Started, Here, Runs
<1>7. QED
  BY <1>1, <1>3, <1>4, <1>5, <1>6

-----------------------------------------------------------------------------
(* Building a node *)

\* Lemma: the node a DetectorNode, a MonitorNode or a loader looks up is there.
LEMMA Finds ==
  ASSUME BootInv, Build, NEW q \in LooksUp(NodeName(Here))
  PROVE  q \in queues'
<1> DEFINE name == NodeName(Here)
<1> USE DEF BootInv
<1>1. /\ loop \in {"global", "feature", "core", "input"} /\ at <= Length[loop]
      /\ ~Barren /\ ~Misled(name) /\ name \in Registered
      /\ at \in Nat \ {0} /\ queues' = queues \cup {name}
  BY DEF Build, Builds, TypeOK, Loops
<1>2. loop # "global" => "DispatchNode" \in queues
  <2>1. loop # "global" => <<"global", 1>> \in built
    BY <1>1 DEF BuiltInv, Reached, LoopsAfter
  <2>2. QED
    BY <2>1, NodeNames DEF QueuesInv
<1>3. loop = "input" => "DetectorNode" \in queues
  <2>1. loop = "input" => <<"core", 1>> \in built
    BY <1>1 DEF BuiltInv, Reached, LoopsAfter
  <2>2. QED
    BY <2>1, NodeNames DEF QueuesInv
<1>4. CASE loop = "global"
  <2>1. at \in {1, 2}
    BY <1>1, <1>4, Lengths
  <2>2. name \in {"DispatchNode", "FlowRpcAsynNode"}
    BY <1>4, <2>1, NodeNames DEF Here
  <2>3. QED
    BY <1>1, <2>2 DEF LooksUp
<1>5. CASE loop = "feature"
  <2>1. name = "MonitorNode"
    BY <1>1, <1>5, NodeNames DEF Barren, Known, Here
  <2>2. QED
    BY <1>1, <1>2, <1>5, <2>1 DEF LooksUp
<1>6. CASE loop = "core"
  <2>1. name = "DetectorNode"
    <3>1. at = 1
      BY <1>1, <1>6, Lengths
    <3>2. QED
      BY <3>1, <1>6, NodeNames DEF Here
  <2>2. ASSUME NEW i \in DOMAIN features
        PROVE feature_map(features[i])[1] \in queues
    <3>1. Known(i)
      BY <1>1, <2>1, <2>2 DEF Misled, Known
    <3>2. <<"feature", i>> \in built
      BY <3>1, <2>2, <1>6 DEF BuiltInv, Reached, LoopsAfter
    <3>3. feature_map(features[i])[1] = "MonitorNode"
      BY <3>1, FeatureMap DEF Known
    <3>4. QED
      BY <3>1, <3>2, <3>3, NodeNames DEF QueuesInv
  <2>3. q \in {"DetectorNode", "DispatchNode"}
            \cup {feature_map(features[i])[1] : i \in DOMAIN features}
    BY <2>1 DEF LooksUp
  <2>4. QED
    BY <1>1, <1>2, <1>6, <2>1, <2>2, <2>3
<1>7. CASE loop = "input"
  <2>1. name \in {"RtspLoaderNode", "LocalVideoLoaderNode"}
    <3>1. at \in DOMAIN inputs
      BY <1>1, <1>7, Lengths
    <3>2. QED
      BY <3>1, <1>1, <1>7, LoaderNames DEF Here, Registered
  <2>2. q = "DetectorNode"
    BY <2>1 DEF LooksUp
  <2>3. QED
    BY <1>1, <1>3, <1>7, <2>2
<1>8. QED
  BY <1>1, <1>4, <1>5, <1>6, <1>7

\* Lemma: a node that runs goes on running while others are built and started.
LEMMA RunsOn ==
  ASSUME NEW n, Runs(n), built \subseteq built', running \subseteq running'
  PROVE  Runs(n)'
  BY DEF Runs

\* Lemma: after a node is built it is the one to be started, unless it is a
\* loader's.
LEMMA BuildKeeps == BootInv /\ Build => BootInv'
<1> SUFFICES ASSUME BootInv, Build PROVE BootInv'
  OBVIOUS
<1> USE DEF BootInv
<1>1. /\ loop \in {"global", "feature", "core", "input"} /\ at <= Length[loop]
      /\ ~Barren /\ ~Misled(NodeName(Here)) /\ NodeName(Here) \in Registered
      /\ at \in Nat \ {0} /\ doing = "build"
      /\ queues' = queues \cup {NodeName(Here)} /\ built' = built \cup {Here}
      /\ UNCHANGED <<config, loop, pipelines, flow, pending, running, undefined>>
  BY DEF Build, Builds, TypeOK, Loops
<1>2. /\ loop = "input" => at' = at + 1 /\ doing' = "build"
      /\ loop # "input" => at' = at /\ doing' = "start"
  BY <1>1 DEF Build
<1>3. /\ Here \in Node /\ Here[1] = loop /\ Here[2] = at
  BY <1>1 DEF Here, Node
<1>4. /\ \A n : NodeName(n)' = NodeName(n) /\ Length' = Length
      /\ \A i : Known(i)' = Known(i)
  BY <1>1 DEF NodeName, Length, Known, config
<1>5. lost' = lost \cup ReplacedBy(Here) /\ ReplacedBy(Here) \subseteq built
  BY DEF Build, ReplacedBy
<1>6. \A m \in ReplacedBy(Here) : m[1] = "input" /\ loop = "input"
  BY <1>3 DEF ReplacedBy
<1>7. /\ DOMAIN uses' = built'
      /\ \A n \in built' : uses'[n] \subseteq Registered \cup {"null"}
      /\ \A n \in built' : "null" \notin uses'[n]
  <2>1. /\ DOMAIN uses' = built \cup {Here}
        /\ uses'[Here] = {Lookup(q, queues') : q \in LooksUp(NodeName(Here))}
        /\ \A n \in built \ {Here} : uses'[n] = uses[n]
    BY DEF Build, TypeOK
  <2>2. \A q \in LooksUp(NodeName(Here)) : Lookup(q, queues') \in queues'
    BY Finds DEF Lookup
  <2>3. queues' \subseteq Registered /\ "null" \notin Registered
    BY <1>1 DEF TypeOK, Registered
  <2>4. uses'[Here] \subseteq queues'
    BY <2>1, <2>2
  <2>5. QED
    BY <1>1, <2>1, <2>3, <2>4 DEF QueuesInv, NoNullQueue, TypeOK
<1>8. TypeOK'
  <2>1. built' \subseteq Node /\ pending' \subseteq built' /\ lost' \subseteq built'
    BY <1>1, <1>3, <1>5 DEF TypeOK
  <2>2. running' \subseteq built' \X built'
    BY <1>1 DEF TypeOK
  <2>3. at' \in Nat \ {0} /\ doing' \in {"build", "start", "sleep"} /\ loop' \in Loops
    BY <1>1, <1>2 DEF TypeOK
  <2>4. queues' \subseteq Registered
    BY <1>1 DEF TypeOK
  <2>5. QED
    BY <1>1, <1>7, <2>1, <2>2, <2>3, <2>4, Zenon DEF TypeOK, config
<1>9. WhereInv'
  BY <1>1, <1>2, <1>4 DEF WhereInv, Here
<1>10. BuiltInv'
  <2>1. \A l \in {"global", "feature", "core"} : \A i :
            Reached(l, i)' => Reached(l, i) \/ <<l, i>> = Here
    BY <1>1, <1>2 DEF Reached, Here
  <2>2. \A l \in {"global", "feature", "core", "input"}, i \in Nat :
            Reached(l, i) => Reached(l, i)'
    BY <1>1, <1>2 DEF Reached
  <2>3. \A l, i : l = loop /\ i = at => Reached(l, i)'
    BY <1>1, <1>2 DEF Reached
  <2>4. ASSUME <<"core", 1>> \in built', NEW i \in DOMAIN features PROVE Known(i)
    <3>1. CASE Here = <<"core", 1>>
      <4>1. NodeName(Here) = "DetectorNode"
        BY <3>1, NodeNames
      <4>2. QED
        BY <4>1, <1>1, <2>4 DEF Misled, Known
    <3>2. CASE Here # <<"core", 1>>
      BY <3>2, <1>1, <2>4 DEF BuiltInv
    <3>3. QED
      BY <3>1, <3>2
  <2>5. \A n \in built : /\ n[1] \in {"global", "feature", "core", "input"}
                          /\ n[2] \in Nat
    BY DEF TypeOK, Node
  <2>6. features' = features
    BY <1>1 DEF config
  <2>7. ASSUME NEW n \in built' PROVE Reached(n[1], n[2])' /\ n[2] <= Length[n[1]]
    <3>1. CASE n = Here
      BY <3>1, <1>1, <1>3, <2>3
    <3>2. CASE n # Here
      BY <3>2, <1>1, <2>2, <2>5 DEF BuiltInv
    <3>3. QED
      BY <3>1, <3>2
  <2>8. QED
    BY <1>1, <1>4, <2>1, <2>4, <2>6, <2>7 DEF BuiltInv
<1>11. QueuesInv'
  BY <1>1, <1>4, <1>7 DEF QueuesInv, NoNullQueue
<1>12. OwnersInv'
  BY <1>1, <1>2, <1>5, <1>6 DEF OwnersInv, Repeated, config
<1>13. ThreadsInv'
  BY <1>1 DEF ThreadsInv
<1>14. PunctualInv'
  <2> SUFFICES ASSUME punctual PROVE PunctualInv'
    BY <1>1, Zenon DEF PunctualInv, config
  <2>1. pending = {}
    BY <1>1 DEF PunctualInv
  <2>2. ASSUME NEW n \in built, n[1] # "input" PROVE Runs(n)'
    <3>1. Runs(n)
      BY <1>1, <2>1, <2>2 DEF PunctualInv
    <3>2. QED
      BY <3>1, <1>1, RunsOn
  <2>3. Here[1] # "input" => Here' = Here /\ doing' = "start"
    BY <1>1, <1>2, <1>3 DEF Here
  <2>4. QED
    BY <1>1, <2>1, <2>2, <2>3 DEF PunctualInv
<1>15. QED
  BY <1>8, <1>9, <1>10, <1>11, <1>12, <1>13, <1>14

-----------------------------------------------------------------------------
(* The next element of a loop *)

\* Lemma: SafeAdd destroys a feature's node only if the feature was named before.
LEMMA Adds ==
  ASSUME BootInv, loop = "feature", at <= Length.feature, AddPipeline,
         loop' = loop, at' = at + 1, UNCHANGED <<config, built>>
  PROVE  /\ OwnersInv'
         /\ pipelines' \subseteq FeatureNames /\ lost' \subseteq built
         /\ \A n \in lost' \ lost : n[1] = "feature"
<1> USE DEF BootInv
<1>1. at \in DOMAIN features /\ at \in Nat \ {0} /\ DOMAIN features \subseteq Nat
  BY Lengths DEF TypeOK
<1>2. /\ pipelines' = pipelines \cup {features[at]}
      /\ features' = features
  BY DEF AddPipeline, config
<1>3. features[at] \in FeatureNames
  BY <1>1, LenProperties DEF TypeOK
<1>4. \A n \in lost' \ lost : n = Here /\ n \in built /\ features[at] \in pipelines
  BY DEF AddPipeline, Keeps
<1>5. features[at] \in pipelines => Repeated(at)
  <2> SUFFICES ASSUME features[at] \in pipelines PROVE Repeated(at)
    OBVIOUS
  <2>1. PICK i \in DOMAIN features : features[i] = features[at] /\ i < at
    BY DEF OwnersInv
  <2>2. i \in 1 .. at - 1
    BY <1>1, <2>1, Lengths
  <2>3. QED
    BY <2>1, <2>2 DEF Repeated
<1>6. \A n \in lost' : n[1] = "input" \/ (n[1] = "feature" /\ Repeated(n[2]))
  BY <1>4, <1>5 DEF OwnersInv, Here
<1>7. \A f \in pipelines' :
          \E i \in DOMAIN features : features[i] = f /\ i < at + 1
  BY <1>1, <1>2 DEF OwnersInv
<1>8. OwnersInv'
  BY <1>2, <1>6, <1>7 DEF OwnersInv, Repeated
<1>9. QED
  BY <1>2, <1>3, <1>4, <1>8 DEF TypeOK, Here

\* Lemma: a feature that has no node costs a turn of the loop and no more.
LEMMA SkipKeeps == BootInv /\ SkipFeature => BootInv'
<1> SUFFICES ASSUME BootInv, SkipFeature PROVE BootInv'
  OBVIOUS
<1> USE DEF BootInv
<1>1. /\ loop = "feature" /\ ~Known(at) /\ at <= Length.feature /\ doing = "build"
      /\ AddPipeline /\ at' = at + 1 /\ at \in Nat \ {0}
      /\ UNCHANGED <<features, inputs, punctual, loop, doing, queues, built, uses,
                     flow, pending, running, undefined>>
  BY DEF SkipFeature, Builds, Barren, Known, TypeOK, config, nodes
<1>2. /\ OwnersInv' /\ pipelines' \subseteq FeatureNames /\ lost' \subseteq built
  BY <1>1, Adds DEF config
<1>3. /\ \A n : NodeName(n)' = NodeName(n) /\ Length' = Length
      /\ \A i : Known(i)' = Known(i)
  BY <1>1 DEF NodeName, Length, Known
<1>4. TypeOK'
  BY <1>1, <1>2 DEF TypeOK
<1>5. WhereInv'
  BY <1>1 DEF WhereInv
<1>6. BuiltInv'
  <2>1. \A i \in {1, 2} :
            /\ Reached("global", i)' => Reached("global", i)
            /\ Reached("core", i)' => Reached("core", i)
    BY <1>1 DEF Reached
  <2>2. \A i \in DOMAIN features : Reached("feature", i)' /\ Known(i) => Reached("feature", i)
    BY <1>1, Lengths DEF Reached
  <2>3. \A n \in built : Reached(n[1], n[2])'
    BY <1>1 DEF Reached, BuiltInv, TypeOK, Node
  <2>4. QED
    BY <1>1, <1>3, <2>1, <2>2, <2>3 DEF BuiltInv
<1>7. QueuesInv'
  BY <1>1, <1>3 DEF QueuesInv, NoNullQueue
<1>8. ThreadsInv'
  BY <1>1 DEF ThreadsInv
<1>9. PunctualInv'
  <2> SUFFICES ASSUME punctual PROVE PunctualInv'
    BY <1>1, Zenon DEF PunctualInv
  <2>1. pending = {}
    BY <1>1 DEF PunctualInv
  <2>2. \A n : Runs(n)' = Runs(n)
    BY <1>1 DEF Runs
  <2>3. QED
    BY <1>1, <2>1, <2>2 DEF PunctualInv
<1>10. QED
  BY <1>2, <1>4, <1>5, <1>6, <1>7, <1>8, <1>9

\* Lemma: the main thread goes on to an element only when a punctual thread has
\* its node.
LEMMA SleepKeeps == BootInv /\ Sleep => BootInv'
<1> SUFFICES ASSUME BootInv, Sleep PROVE BootInv'
  OBVIOUS
<1> USE DEF BootInv
<1>1. /\ loop \in {"global", "feature", "core", "video"} /\ at <= Length[loop]
      /\ doing = "sleep" /\ doing' = "build" /\ at \in Nat \ {0}
      /\ UNCHANGED <<features, inputs, punctual, loop, queues, built, uses,
                     flow, pending, running, undefined>>
      /\ Rested
  BY DEF Sleep, WhereInv, TypeOK, config, nodes
<1>2. /\ \A n : NodeName(n)' = NodeName(n) /\ Length' = Length
      /\ \A i : Known(i)' = Known(i)
  BY <1>1 DEF NodeName, Length, Known
<1>3. /\ loop # "video" => at' = at + 1
      /\ loop = "video" => at' \in NextLoader
  BY DEF Sleep
<1>4. loop = "video" =>
          /\ at' \in Nat \ {0}
          /\ at' <= Length.video => <<"input", at'>> \in built \ lost
  BY <1>3, Lengths DEF NextLoader, Unstarted
<1>5. /\ OwnersInv' /\ pipelines' \subseteq FeatureNames /\ lost' \subseteq built
      /\ loop # "feature" => lost' = lost
  <2>1. CASE loop = "feature"
    BY <2>1, <1>1, <1>3, Adds DEF Sleep, config
  <2>2. CASE loop # "feature"
    <3>1. UNCHANGED <<pipelines, lost>>
      BY <2>2 DEF Sleep, owners
    <3>2. QED
      BY <2>2, <3>1, <1>1 DEF OwnersInv, Repeated, TypeOK
  <2>3. QED
    BY <2>1, <2>2
<1>6. TypeOK'
  BY <1>1, <1>3, <1>4, <1>5 DEF TypeOK
<1>7. WhereInv'
  BY <1>1, <1>2, <1>4, <1>5 DEF WhereInv
<1>8. BuiltInv'
  <2>1. \A l \in {"global", "feature", "core", "input"}, i \in Nat :
            Reached(l, i)' <=> Reached(l, i)
    BY <1>1, <1>3 DEF Reached, LoopsAfter
  <2>2. \A n \in built : /\ n[1] \in {"global", "feature", "core", "input"}
                         /\ n[2] \in Nat
    BY DEF TypeOK, Node
  <2>3. DOMAIN features \subseteq Nat /\ features' = features
    BY <1>1, Lengths
  <2>4. QED
    BY <1>1, <1>2, <2>1, <2>2, <2>3 DEF BuiltInv
<1>9. QueuesInv'
  BY <1>1, <1>2 DEF QueuesInv, NoNullQueue
<1>10. ThreadsInv'
  BY <1>1, <1>5 DEF ThreadsInv
<1>11. PunctualInv'
  <2> SUFFICES ASSUME punctual PROVE PunctualInv'
    BY <1>1, Zenon DEF PunctualInv
  <2>1. pending = {}
    BY <1>1 DEF Rested
  <2>2. \A n : Runs(n)' = Runs(n)
    BY <1>1 DEF Runs
  <2>3. QED
    BY <1>1, <2>1, <2>2 DEF PunctualInv
<1>12. QED
  BY <1>5, <1>6, <1>7, <1>8, <1>9, <1>10, <1>11

\* Lemma: the end of a loop leaves the next one all it needs.
LEMMA EndLoopKeeps == BootInv /\ EndLoop => BootInv'
<1> SUFFICES ASSUME BootInv, EndLoop PROVE BootInv'
  OBVIOUS
<1> USE DEF BootInv
<1>1. /\ loop \in {"global", "feature", "core", "input", "video"}
      /\ at > Length[loop] /\ at \in Nat \ {0}
      /\ doing = "build" /\ loop' = NextLoop[loop]
      /\ UNCHANGED <<features, inputs, punctual, doing, queues, built, uses,
                     pipelines, lost, pending, running, undefined>>
  BY DEF EndLoop, TypeOK, Loops, config, nodes, owners
<1>2. /\ \A n : NodeName(n)' = NodeName(n) /\ Length' = Length
      /\ \A i : Known(i)' = Known(i)
  BY <1>1 DEF NodeName, Length, Known
<1>3. /\ loop = "global" => loop' = "feature"
      /\ loop = "feature" => loop' = "core"
      /\ loop = "core" => loop' = "input"
      /\ loop = "input" => loop' = "video"
      /\ loop = "video" => loop' = "done"
  BY <1>1 DEF EndLoop, NextLoop
<1>4. flow' = (flow \/ loop = "global")
  BY Zenon DEF EndLoop
<1>5. /\ loop # "input" => at' = 1
      /\ loop = "input" => at' \in NextLoader
  BY <1>1, <1>3 DEF EndLoop
<1>6. loop = "input" =>
          /\ at' \in Nat \ {0}
          /\ at' <= Length.video => <<"input", at'>> \in built \ lost
  BY <1>5, Lengths DEF NextLoader, Unstarted
<1>7. TypeOK'
  <2>1. loop' \in Loops /\ at' \in Nat \ {0}
    BY <1>1, <1>3, <1>5, <1>6 DEF Loops
  <2>2. flow' \in BOOLEAN
    BY <1>4, Zenon DEF TypeOK
  <2>3. QED
    BY <1>1, <2>1, <2>2, Zenon DEF TypeOK
<1>8. WhereInv'
  <2>1. loop' \in LoopsAfter.global => flow'
    <3>1. loop \in LoopsAfter.global => flow
      BY DEF WhereInv
    <3>2. loop = "global" \/ loop \in LoopsAfter.global
      BY <1>1 DEF LoopsAfter
    <3>3. QED
      BY <1>4, <3>1, <3>2, Zenon
  <2>2. loop' = "video" /\ at' <= Length'.video => <<"input", at'>> \in built' \ lost'
    BY <1>1, <1>2, <1>3, <1>6
  <2>3. QED
    BY <1>1, <2>1, <2>2 DEF WhereInv, LoopsAfter
<1>9. BuiltInv'
  <2>1. \A l \in {"global", "feature", "core", "input"}, i \in Nat :
            Reached(l, i) => Reached(l, i)'
    BY <1>1, <1>3 DEF Reached, LoopsAfter
  <2>2. \A l \in {"global", "feature", "core"}, i \in Nat \ {0} :
            i <= Length[l] /\ Reached(l, i)' => Reached(l, i)
    BY <1>1, <1>3, <1>5, Lengths DEF Reached, LoopsAfter
  <2>3. \A n \in built : /\ n[1] \in {"global", "feature", "core", "input"}
                         /\ n[2] \in Nat
    BY DEF TypeOK, Node
  <2>4. /\ \A i \in DOMAIN features : i \in Nat \ {0} /\ i <= Length["feature"]
        /\ \A i \in {1, 2} : i \in Nat \ {0} /\ i <= Length["global"]
        /\ 1 <= Length["core"] /\ features' = features
    BY <1>1, Lengths
  <2>5. \A n \in built : Reached(n[1], n[2])'
    BY <2>1, <2>3 DEF BuiltInv
  <2>6. QED
    BY <1>1, <1>2, <2>2, <2>4, <2>5 DEF BuiltInv
<1>10. QueuesInv'
  BY <1>1, <1>2 DEF QueuesInv, NoNullQueue
<1>11. OwnersInv'
  BY <1>1, <1>3 DEF OwnersInv, Repeated
<1>12. ThreadsInv'
  BY <1>1, <1>3 DEF ThreadsInv
<1>13. PunctualInv'
  <2> SUFFICES ASSUME punctual PROVE PunctualInv'
    BY <1>1, Zenon DEF PunctualInv
  <2>1. pending = {}
    BY <1>1 DEF PunctualInv
  <2>2. \A n : Runs(n)' = Runs(n)
    BY <1>1 DEF Runs
  <2>3. QED
    BY <1>1, <2>1, <2>2 DEF PunctualInv
<1>14. QED
  BY <1>7, <1>8, <1>9, <1>10, <1>11, <1>12, <1>13

-----------------------------------------------------------------------------
(* Threads *)

\* Lemma: only a node that is built and kept is given a thread.
LEMMA StartKeeps == BootInv /\ StartThread => BootInv'
<1> SUFFICES ASSUME BootInv, StartThread PROVE BootInv'
  OBVIOUS
<1> USE DEF BootInv
<1>1. /\ loop \in {"global", "feature", "core", "video"} /\ at <= Length[loop]
      /\ loop = "video" => doing = "build"
      /\ loop # "video" => doing = "start"
      /\ doing' = "sleep" /\ pending' = pending \cup {Started}
      /\ UNCHANGED <<features, inputs, punctual, loop, at, queues, built, uses,
                     pipelines, lost, flow, running, undefined>>
  BY DEF StartThread, WhereInv, config, nodes, owners
<1>2. /\ \A n : NodeName(n)' = NodeName(n) /\ Length' = Length
      /\ \A i : Known(i)' = Known(i)
      /\ Here' = Here /\ Started' = Started /\ \A n : Runs(n)' = Runs(n)
  BY <1>1 DEF NodeName, Length, Known, Here, Started, Runs
<1>3. Started \in built
  BY <1>1 DEF Started, WhereInv
<1>4. TypeOK'
  <2>1. pending' \subseteq built'
    BY <1>1, <1>3 DEF TypeOK
  <2>2. QED
    BY <1>1, <2>1, Zenon DEF TypeOK
<1>5. WhereInv'
  BY <1>1, <1>2 DEF WhereInv
<1>6. BuiltInv'
  <2>1. \A l \in {"global", "feature", "core", "input"} : \A i :
            Reached(l, i)' <=> Reached(l, i)
    BY <1>1 DEF Reached
  <2>2. \A n \in built : n[1] \in {"global", "feature", "core", "input"}
    BY DEF TypeOK, Node
  <2>3. QED
    BY <1>1, <1>2, <2>1, <2>2 DEF BuiltInv
<1>7. QueuesInv' /\ OwnersInv' /\ ThreadsInv'
  BY <1>1, <1>2 DEF QueuesInv, NoNullQueue, OwnersInv, Repeated, ThreadsInv
<1>8. PunctualInv'
  <2> SUFFICES ASSUME punctual PROVE PunctualInv'
    BY <1>1, Zenon DEF PunctualInv
  <2>1. pending = {}
    BY <1>1 DEF PunctualInv
  <2>2. \A n \in built : n = Here /\ doing = "start" => n \in pending'
    BY <1>1 DEF Started
  <2>3. QED
    BY <1>1, <1>2, <2>1, <2>2 DEF PunctualInv
<1>9. QED
  BY <1>4, <1>5, <1>6, <1>7, <1>8

\* Lemma: the reference a punctual thread reads is to its own node.
LEMMA RefersToIts ==
  ASSUME BootInv, punctual, NEW n \in pending
  PROVE  n \in built /\ Refers(n, n) /\ \A m : Refers(n, m) => m = n
<1>1. n = Started /\ doing = "sleep" /\ n \in built
  BY DEF BootInv, PunctualInv, TypeOK
<1>2. CASE loop = "video"
  BY <1>1, <1>2 DEF BootInv, WhereInv, Refers, Started
<1>3. CASE loop # "video"
  BY <1>1, <1>3 DEF BootInv, WhereInv, Refers, Started, Here
<1>4. QED
  BY <1>2, <1>3

\* Lemma: a thread takes a node that nobody destroys, or one named twice.
LEMMA RunKeeps ==
  ASSUME BootInv, NEW n \in pending, ThreadRuns(n)
  PROVE  BootInv'
<1> USE DEF BootInv
<1>1. /\ UNCHANGED <<features, inputs, punctual, loop, at, doing, queues, built,
                     uses, pipelines, lost, flow>>
      /\ pending' = pending \ {n} /\ n \in built
  BY DEF ThreadRuns, config, main, nodes, owners, TypeOK
<1>2. /\ \A k : NodeName(k)' = NodeName(k) /\ Length' = Length
      /\ \A i : Known(i)' = Known(i) /\ Here' = Here /\ Started' = Started
  BY <1>1 DEF NodeName, Length, Known, Here, Started
<1>3. \/ /\ running' = running
         /\ undefined' = TRUE
         /\ \A m \in built : ~Refers(n, m)
      \/ \E m \in built : /\ Refers(n, m)
                          /\ running' = running \cup {<<n, m>>}
                          /\ undefined' = Unusable(m)
  BY DEF ThreadRuns
<1>4. running \subseteq running' /\ running' \subseteq built \X built
  BY <1>1, <1>3 DEF TypeOK
<1>5. \A t \in running' \ running : t[1] = n /\ t[2] \in built /\ Refers(n, t[2])
  BY <1>3
<1>6. TypeOK'
  <2>1. undefined' \in BOOLEAN
    BY <1>3 DEF Unusable
  <2>2. pending' \subseteq built
    BY <1>1 DEF TypeOK
  <2>3. QED
    BY <1>1, <1>4, <2>1, <2>2, Zenon DEF TypeOK
<1>7. WhereInv'
  BY <1>1, <1>2 DEF WhereInv
<1>8. BuiltInv'
  BY <1>1, <1>2 DEF BuiltInv, Reached
<1>9. QueuesInv' /\ OwnersInv'
  BY <1>1, <1>2 DEF QueuesInv, NoNullQueue, OwnersInv, Repeated
<1>10. ThreadsInv'
  <2>1. ASSUME NEW m, Refers(n, m), m[1] = "input"
        PROVE loop = "video" /\ m \notin lost
    BY <2>1 DEF Refers, WhereInv
  <2>2. QED
    BY <1>1, <1>5, <2>1 DEF ThreadsInv
<1>11. PunctualInv'
  <2> SUFFICES ASSUME punctual PROVE PunctualInv'
    BY <1>1, Zenon DEF PunctualInv
  <2>1. n \in built /\ Refers(n, n) /\ \A m : Refers(n, m) => m = n
    BY RefersToIts
  <2>2. running' = running \cup {<<n, n>>}
    BY <1>3, <2>1
  <2>3. Runs(n)'
    BY <1>1, <2>1, <2>2 DEF Runs
  <2>4. \A k \in built : Runs(k) => Runs(k)'
    BY <1>1, <1>4 DEF Runs
  <2>5. pending' = {}
    BY <1>1 DEF PunctualInv
  <2>6. QED
    BY <1>1, <1>2, <2>2, <2>3, <2>4, <2>5 DEF PunctualInv
<1>12. QED
  BY <1>6, <1>7, <1>8, <1>9, <1>10, <1>11

\* Lemma: every step keeps the invariant.
LEMMA BootNext == BootInv /\ [Next]_vars => BootInv'
<1> SUFFICES ASSUME BootInv, [Next]_vars PROVE BootInv'
  OBVIOUS
<1>1. CASE BuildUnregistered \/ RunsDestroyed
  BY <1>1, OnlyUndefined DEF BuildUnregistered, RunsDestroyed
<1>2. CASE UNCHANGED vars
  BY <1>2, OnlyUndefined DEF vars, BootInv, TypeOK
<1>3. CASE Build \/ SkipFeature \/ StartThread \/ Sleep \/ EndLoop
  BY <1>3, BuildKeeps, SkipKeeps, StartKeeps, SleepKeeps, EndLoopKeeps
<1>4. CASE \E n \in pending : ThreadRuns(n)
  BY <1>4, RunKeeps
<1>5. QED
  BY <1>1, <1>2, <1>3, <1>4 DEF Next, MainStep

\* Lemma: the invariant holds throughout.
LEMMA BootAlways == SafeSpec => []BootInv
<1>1. QED
  BY BootInit, BootNext, PTL DEF SafeSpec

-----------------------------------------------------------------------------
(* The theorems *)

\* The main thread is in one of its loops, at one of its steps; only nodes that
\* were built have threads or are destroyed (ServiceDaemon.cpp:29-50).
THEOREM TypeCorrect == SafeSpec => []TypeOK
<1>1. BootInv => TypeOK
  BY DEF BootInv
<1>2. QED
  BY <1>1, BootAlways, PTL

\* Whatever the configuration names, no node gets a null queue from QueueManager
\* in its init() (SolutionPipeline.cpp:56, DetectorNode.cpp:17-26,
\* MonitorNode.cpp:19-20).
THEOREM QueuesFound == SafeSpec => []NoNullQueue
<1>1. BootInv => NoNullQueue
  BY DEF BootInv, QueuesInv
<1>2. QED
  BY <1>1, BootAlways, PTL

\* However late the threads, no loader runs before every node on the way of its
\* frames is built and FlowRpcAsynNode_flow is set (ServiceDaemon.cpp:31-47).
THEOREM FramesFindNodes == SafeSpec => []BuiltBeforeFrames
<1>1. BootInv => BuiltBeforeFrames
  <2> SUFFICES ASSUME BootInv, FramesMayEnter PROVE flow /\ OnTheWay \subseteq built
    BY Zenon DEF BuiltBeforeFrames
  <2>1. loop \in {"video", "done"}
    BY DEF FramesMayEnter, Runs, BootInv, ThreadsInv
  <2>2. flow
    BY <2>1 DEF BootInv, WhereInv, LoopsAfter
  <2>3. {<<"global", 1>>, <<"global", 2>>, <<"core", 1>>} \subseteq built
    BY <2>1 DEF BootInv, BuiltInv, Reached, LoopsAfter
  <2>4. \A i \in DOMAIN features : <<"feature", i>> \in built
    BY <2>1, <2>3 DEF BootInv, BuiltInv, Reached, LoopsAfter
  <2>5. QED
    BY <2>2, <2>3, <2>4 DEF OnTheWay
<1>2. QED
  BY <1>1, BootAlways, PTL

\* With punctual threads the nodes on the way run by then, one and all.
THEOREM FramesFindRunners == SafeSpec => []RunningBeforeFrames
<1>1. BootInv /\ BuiltBeforeFrames => RunningBeforeFrames
  <2> SUFFICES ASSUME BootInv, BuiltBeforeFrames, punctual, FramesMayEnter,
                      NEW n \in OnTheWay
               PROVE  Runs(n)
    BY Zenon DEF RunningBeforeFrames
  <2>1. n \in built /\ n[1] # "input"
    BY DEF BuiltBeforeFrames, OnTheWay
  <2>2. loop \in {"video", "done"}
    BY DEF FramesMayEnter, Runs, BootInv, ThreadsInv
  <2>3. doing # "start"
    BY <2>2 DEF BootInv, WhereInv
  <2>4. n \notin pending
    BY <2>1, <2>2 DEF BootInv, PunctualInv, WhereInv, Started
  <2>5. QED
    BY <2>1, <2>3, <2>4 DEF BootInv, PunctualInv
<1>2. QED
  BY <1>1, BootAlways, FramesFindNodes, PTL

\* A punctual thread runs the node it was started for: the reference it reads is
\* still to that node (SolutionPipeline.cpp:134-139, 154-160, 175-180, 192-198).
THEOREM OwnNode == SafeSpec => []RunsItsNode
<1>1. BootInv => RunsItsNode
  BY DEF BootInv, PunctualInv, RunsItsNode
<1>2. QED
  BY <1>1, BootAlways, PTL

\* The only nodes destroyed under their threads are those of a feature that the
\* configuration names again (ServiceDaemon.cpp:37-42).
THEOREM NodesOutlive == SafeSpec => []NodeOutlivesThread
<1>1. BootInv => NodeOutlivesThread
  BY DEF BootInv, OwnersInv, ThreadsInv, NodeOutlivesThread
<1>2. QED
  BY <1>1, BootAlways, PTL

=============================================================================
