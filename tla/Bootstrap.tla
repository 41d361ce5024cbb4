----------------------------- MODULE Bootstrap -----------------------------
(* How ServiceDaemon::Loop brings the pipeline up (src/app/ServiceDaemon.cpp *)
(* and src/SolutionPipeline.cpp).  The main thread builds the nodes, loop    *)
(* after loop, makes a queue of each node's name, lets the node look up the  *)
(* queues it uses, and starts a detached thread for it.  That thread is      *)
(* handed its node by reference to a local variable of the loop; all that    *)
(* keeps the variable in place until it is read is a sleep(1).               *)
EXTENDS Naturals, Sequences, FiniteSets

CONSTANTS
    FeatureNames,   \* the features a configuration may name
    RtspUrls,       \* and the inputs, by what their addresses look like
    DevPaths,
    RtmpUrls,
    VideoFiles,
    MaxFeatures,    \* how many of each it names: bounds
    MaxInputs

ASSUME ConfigurationAssumption == MaxFeatures \in Nat /\ MaxInputs \in Nat

Addresses == RtspUrls \cup DevPaths \cup RtmpUrls \cup VideoFiles

VARIABLES
    features,       \* "feature" in the configuration
    inputs,         \* "data_input"
    punctual,       \* whether every thread comes to run within the second
    loop,           \* the loop the main thread is in, see TypeOK
    at,             \* and the element it is at
    doing,          \* and what it does with it: "build", "start" or "sleep"
    queues,         \* the names QueueManager knows
    built,          \* the nodes built so far
    uses,           \* uses[n]: the queues node n looked up, "null" if there
                    \* was none
    pipelines,      \* the features SolutionPipelineManager knows
    lost,           \* the nodes nobody owns any more: they are destroyed
    flow,           \* FlowRpcAsynNode_flow is set
    pending,        \* threads started that have not read their reference yet,
                    \* by the node they were started for
    running,        \* <<m, n>>: the thread started for m runs n
    undefined       \* a null, dangling or past-the-end pointer was followed

config == <<features, inputs, punctual>>
main == <<loop, at, doing>>
nodes == <<queues, built, uses>>
owners == <<pipelines, lost>>
vars == <<config, main, nodes, owners, flow, pending, running, undefined>>

\* global_executor_names_, feature_map and global_core_executor_names_.
GlobalNames == <<"DispatchNode", "FlowRpcAsynNode">>
CoreNames == <<"DetectorNode">>
feature_map(f) == IF f = "monitor" THEN <<"MonitorNode">> ELSE <<>>

\* There is no node for a device or an rtmp stream.
LoaderName(address) ==
    CASE address \in RtspUrls              -> "RtspLoaderNode"
      [] address \in DevPaths \cup RtmpUrls -> ""
      [] address \in VideoFiles            -> "LocalVideoLoaderNode"

\* The nodes are named by the loop that builds them and their place in it.
NodeName(n) ==
    CASE n[1] = "global"  -> GlobalNames[n[2]]
      [] n[1] = "feature" -> feature_map(features[n[2]])[1]
      [] n[1] = "core"    -> CoreNames[n[2]]
      [] n[1] = "input"   -> LoaderName(inputs[n[2]])

\* What NodeFactory can create.
Registered == {"DispatchNode", "FlowRpcAsynNode", "DetectorNode", "MonitorNode",
               "RtspLoaderNode", "LocalVideoLoaderNode"}

Length ==
    [global |-> Len(GlobalNames), feature |-> Len(features),
     core |-> Len(CoreNames), input |-> Len(inputs), video |-> Len(inputs)]

Loops == {"global", "feature", "core", "input", "video", "done"}

UpTo(max, S) == UNION {[1 .. k -> S] : k \in 0 .. max}

Init ==
    /\ features \in UpTo(MaxFeatures, FeatureNames)
    /\ inputs \in UpTo(MaxInputs, Addresses)
    /\ punctual \in BOOLEAN
    /\ loop = "global" /\ at = 1 /\ doing = "build"
    /\ queues = {} /\ built = {} /\ uses = <<>> /\ flow = FALSE
    /\ pipelines = {} /\ lost = {}
    /\ pending = {} /\ running = {}
    /\ undefined = FALSE

\* The order of the loops.
InputsBeforeFeatures ==
    [global |-> "core", core |-> "input", input |-> "video", video |-> "feature",
     feature |-> "done"]
CoreBeforeFeatures ==
    [global |-> "core", core |-> "feature", feature |-> "input",
     input |-> "video", video |-> "done"]
NextLoop ==
    [global |-> "feature", feature |-> "core", core |-> "input",
     input |-> "video", video |-> "done"]

-----------------------------------------------------------------------------
(* Building a node *)

\* SafeGet leaves the pointer null when there is no such name.
Lookup(name, known) == IF name \in known THEN name ELSE "null"

\* The queues the init() of a node looks up.  DetectorNode asks for the first
\* node of every feature.
LooksUp(name) ==
    CASE name = "DispatchNode"    -> {"DispatchNode"}
      [] name = "FlowRpcAsynNode" -> {}
      [] name = "MonitorNode"     -> {"MonitorNode", "DispatchNode"}
      [] name = "DetectorNode"    ->
             {"DetectorNode", "DispatchNode"}
                 \cup {feature_map(features[i])[1] : i \in DOMAIN features}
      [] OTHER                    -> {"DetectorNode"}

\* A feature that is not in feature_map has no first node for DetectorNode.
Misled(name) ==
    name = "DetectorNode" /\ \E i \in DOMAIN features : feature_map(features[i]) = <<>>

\* The main thread is at this element of this loop.
Here == <<loop, at>>

\* The loop over the features builds nothing for one that is not in feature_map.
Barren == loop = "feature" /\ feature_map(features[at]) = <<>>

Builds == doing = "build" /\ loop \notin {"video", "done"} /\ at <= Length[loop]

\* MakeSharedNode returns null for a name nobody registered, and buildNode goes
\* on to call the node.
BuildUnregistered ==
    /\ Builds /\ ~Barren
    /\ NodeName(Here) \notin Registered \/ Misled(NodeName(Here))
    /\ undefined' = TRUE
    /\ UNCHANGED <<config, main, nodes, owners, flow, pending, running>>

\* buildNode, which adds the queue (SafeAdd keeps the old one when the name is
\* taken), then init.  The loop over the inputs keeps the last node of each
\* address.
ReplacedBy(n) ==
    {m \in built : m[1] = "input" /\ n[1] = "input" /\ inputs[m[2]] = inputs[n[2]]}

Build ==
    /\ Builds /\ ~Barren
    /\ NodeName(Here) \in Registered /\ ~Misled(NodeName(Here))
    /\ queues' = queues \cup {NodeName(Here)}
    /\ built' = built \cup {Here}
    /\ uses' = [n \in DOMAIN uses \cup {Here} |->
                    IF n = Here
                    THEN {Lookup(q, queues') : q \in LooksUp(NodeName(Here))}
                    ELSE uses[n]]
    /\ lost' = lost \cup ReplacedBy(Here)
    /\ IF loop = "input"
       THEN at' = at + 1 /\ UNCHANGED doing
       ELSE doing' = "start" /\ UNCHANGED at
    /\ UNCHANGED <<config, loop, pipelines, flow, pending, running, undefined>>

\* SolutionPipelineManager::SafeAdd takes the pipeline of a feature and with it
\* the nodes; one of a name it knows dies, with its nodes, at the end of the
\* turn of the loop.
KeepsNothing(feature) == FALSE
Keeps(feature) == feature \notin pipelines

AddPipeline ==
    /\ pipelines' = pipelines \cup {features[at]}
    /\ lost' = IF Keeps(features[at]) THEN lost ELSE lost \cup ({Here} \cap built)

SkipFeature ==
    /\ Builds /\ Barren
    /\ AddPipeline
    /\ at' = at + 1
    /\ UNCHANGED <<config, loop, doing, nodes, flow, pending, running, undefined>>

-----------------------------------------------------------------------------
(* Starting a node *)

\* The loop over the loaders starts what the loop over the inputs built and kept,
\* in the order in which an unordered_map happens to list it.
HasThread(n) == n \in pending \/ \E t \in running : t[1] = n
Unstarted ==
    {i \in DOMAIN inputs : <<"input", i>> \in built \ lost /\ ~HasThread(<<"input", i>>)}
NextLoader == IF Unstarted = {} THEN {Length.video + 1} ELSE Unstarted

StartedAsListed == Here
Started == IF loop = "video" THEN <<"input", at>> ELSE Here

StartThread ==
    /\ \/ doing = "start"
       \/ doing = "build" /\ loop = "video" /\ at <= Length.video
    /\ pending' = pending \cup {Started}
    /\ doing' = "sleep"
    /\ UNCHANGED <<config, loop, at, nodes, owners, flow, running, undefined>>

\* A second is enough for the thread, or it is not.
NeverRests == TRUE
Rested == punctual => pending = {}

\* sleep(1) is over: the next element.
Sleep ==
    /\ doing = "sleep" /\ Rested
    /\ IF loop = "video" THEN at' \in NextLoader ELSE at' = at + 1
    /\ IF loop = "feature" THEN AddPipeline ELSE UNCHANGED owners
    /\ doing' = "build"
    /\ UNCHANGED <<config, loop, nodes, flow, pending, running, undefined>>

\* The end of a loop: BuildAndStartGlobal then publishes FlowRpcAsynNode.
EndLoop ==
    /\ loop # "done" /\ doing = "build" /\ at > Length[loop]
    /\ loop' = NextLoop[loop]
    /\ IF loop' = "video" THEN at' \in NextLoader ELSE at' = 1
    /\ flow' = (flow \/ loop = "global")
    /\ UNCHANGED <<config, doing, nodes, owners, pending, running, undefined>>

MainStep ==
    BuildUnregistered \/ Build \/ SkipFeature \/ StartThread \/ Sleep \/ EndLoop

\* What the reference captured for node n refers to by now: the node the main
\* thread has in hand as long as it is in the same turn of the loop or, where
\* the reference is to the iterator of the loop over the loaders, in that loop
\* at all.
Refers(n, m) ==
    \/ n[1] # "input" /\ Here = n /\ m = n
    \/ n[1] = "input" /\ loop = "video" /\ at <= Length.video /\ m = <<"input", at>>

\* The reads of a loader that has no capture_.
Unusable(m) == NodeName(m) = "LocalVideoLoaderNode"

ThreadRuns(n) ==
    /\ n \in pending
    /\ pending' = pending \ {n}
    /\ \/ \E m \in built :
              /\ Refers(n, m)
              /\ running' = running \cup {<<n, m>>}
              /\ undefined' = Unusable(m)
       \/ /\ \A m \in built : ~Refers(n, m)
          /\ undefined' = TRUE
          /\ UNCHANGED running
    /\ UNCHANGED <<config, main, nodes, owners, flow>>

\* The thread of a node that is destroyed goes on in its run.
RunsDestroyed ==
    /\ \E t \in running : t[2] \in lost
    /\ undefined' = TRUE
    /\ UNCHANGED <<config, main, nodes, owners, flow, pending, running>>

Next ==
    ~undefined /\ (MainStep \/ RunsDestroyed \/ \E n \in pending : ThreadRuns(n))

SafeSpec == Init /\ [][Next]_vars

\* The main thread and the threads it starts are scheduled.
Spec == SafeSpec /\ WF_vars(Next)

-----------------------------------------------------------------------------
(* Properties *)

Node == {"global", "feature", "core", "input"} \X (Nat \ {0})

TypeOK ==
    /\ features \in Seq(FeatureNames) /\ inputs \in Seq(Addresses)
    /\ punctual \in BOOLEAN
    /\ loop \in Loops /\ at \in Nat \ {0}
    /\ doing \in {"build", "start", "sleep"}
    /\ queues \subseteq Registered
    /\ pipelines \subseteq FeatureNames /\ lost \subseteq built
    /\ built \subseteq Node /\ pending \subseteq built
    /\ DOMAIN uses = built
    /\ \A n \in built : uses[n] \subseteq Registered \cup {"null"}
    /\ running \subseteq built \X built
    /\ flow \in BOOLEAN /\ undefined \in BOOLEAN

Runs(n) == \E m \in built : <<m, n>> \in running

FramesMayEnter == \E n \in built : n[1] = "input" /\ Runs(n)

\* The nodes on the way from a loader to the uplink.
OnTheWay ==
    {<<"global", 1>>, <<"global", 2>>, <<"core", 1>>}
        \cup {<<"feature", i>> : i \in DOMAIN features}

\* Every queue a node looked up in init() was there: whatever it pushes to or
\* pops from exists (SolutionPipeline.cpp:56, DetectorNode.cpp:17-26,
\* MonitorNode.cpp:19-20).  The order of the loops is what makes it so.
NoNullQueue == \A n \in built : "null" \notin uses[n]

\* No frame enters before all the nodes on its way are built and FlowPub has a
\* FlowRpcAsynNode to call (ServiceDaemon.cpp:31-47, Event.cpp:15-18), however
\* late the threads are.
BuiltBeforeFrames == FramesMayEnter => flow /\ OnTheWay \subseteq built

\* A feature named before in the configuration.
Repeated(i) == \E j \in 1 .. i - 1 : features[j] = features[i]

\* The starts that go well: known features, each named once, rtsp inputs,
\* punctual threads.
Regular ==
    /\ punctual
    /\ \A i \in DOMAIN features : feature_map(features[i]) # <<>> /\ ~Repeated(i)
    /\ \A i \in DOMAIN inputs : inputs[i] \in RtspUrls

\* ... nor, when the threads are punctual, before those nodes run: the image of
\* the first frame finds nobody absent (ServiceDaemon.cpp:31-47).
RunningBeforeFrames == punctual /\ FramesMayEnter => \A n \in OnTheWay : Runs(n)

\* A thread that is punctual runs the node it was started for: the sleep
\* outlives the reference (SolutionPipeline.cpp:134-139, 154-160, 175-180,
\* 192-198), whatever is configured.
RunsItsNode == punctual => \A t \in running : t[1] = t[2]

\* A node is not destroyed under the thread that runs it, unless its feature is
\* named twice (ServiceDaemon.cpp:37-42, ObjectManager.h SafeAdd); an address
\* named twice costs its first node, which no thread ever runs
\* (SolutionPipeline.cpp:112, 187).
NodeOutlivesThread ==
    \A t \in running : t[2] \in lost => t[2][1] = "feature" /\ Repeated(t[2][2])

\* A regular start ends with the main thread past its last loop and every node
\* that is left running: no pointer was followed that leads nowhere
\* (SolutionPipeline.cpp:51, 134-136, 175-177, 192-194; DetectorNode.cpp:23).
ComesUp ==
    Regular => <>[](loop = "done" /\ pending = {} /\ \A n \in built \ lost : Runs(n))
=============================================================================
