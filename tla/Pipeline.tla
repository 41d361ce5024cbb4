------------------------------ MODULE Pipeline ------------------------------
(* The node threads of the running pipeline and the queues between them:    *)
(*                                                                          *)
(*   RtspLoaderNode ... --> DetectorNode --> MonitorNode                    *)
(*                                 |             |                          *)
(*                                 +-------------+--> DispatchNode          *)
(*                                                                          *)
(* Every queue is the FIFO channel that BoundedQueue implements: a Push     *)
(* waits for a place, a Pop for an object.  A loader owns one AlgoFrame and *)
(* pushes a pointer to it again and again, so the same frame may be in the  *)
(* queues many times, and the image in it is the loader's to fill and the   *)
(* monitor's to release.  Nodes look at sys_quit at the top of their loops. *)
EXTENDS Integers, Sequences, FiniteSets

CONSTANTS
    Loaders,        \* one RtspLoaderNode for each configured rtsp input
    Capacity,       \* __MAX_IMAGE_QUEUE_SIZE__ (10)
    MayVanish,      \* whether the file the cameras are read from may vanish
    MayQuit         \* whether a signal may set sys_quit

ASSUME PipelineAssumption ==
    /\ Capacity \in Nat \ {0}
    /\ MayVanish \in BOOLEAN
    /\ MayQuit \in BOOLEAN

VARIABLES
    readable,           \* imread of the file yields an image
    image,              \* image[l]: the frame of loader l has an image
    lpc,                \* lpc[l]: where loader l is
    detect_queue,       \* frames, by their loader
    dpc, dframe,        \* DetectorNode: where it is, and its frame
    monitor_queue,      \* MetaData, by the loader of its frame_
    mpc, mframe,        \* MonitorNode: where it is, and its message's frame
    dispatch_queue,     \* events, by kind
    xpc,                \* DispatchNode: where it is
    last,               \* kind of the last event handled
    ahead,              \* LoggerEvents handled less MonitorEvents handled
    sys_quit

camera == <<readable, image>>
detector == <<dpc, dframe>>
monitor == <<mpc, mframe>>
dispatcher == <<xpc, last, ahead>>
vars == <<camera, lpc, detect_queue, detector, monitor_queue, monitor,
          dispatch_queue, dispatcher, sys_quit>>

Init ==
    /\ readable \in {TRUE, ~MayVanish}
    /\ image = [l \in Loaders |-> readable]
    /\ lpc = [l \in Loaders |-> "top"]
    /\ detect_queue = <<>> /\ monitor_queue = <<>> /\ dispatch_queue = <<>>
    /\ dpc = "top" /\ dframe \in Loaders
    /\ mpc = "top" /\ mframe \in Loaders
    /\ xpc = "top" /\ last = "none" /\ ahead = 0
    /\ sys_quit = FALSE

HasPlaceOrOne(queue) == Len(queue) <= Capacity
HasPlace(queue) == Len(queue) < Capacity

\* The top of a node's loop.
TurnsForEver(then) == then
NextTurn(then) == IF sys_quit THEN "done" ELSE then

-----------------------------------------------------------------------------
(* RtspLoaderNode *)

LoaderTo(l, place) == lpc' = [lpc EXCEPT ![l] = place]

LoaderLooks(l, place) ==
    /\ LoaderTo(l, place)
    /\ UNCHANGED <<camera, detect_queue, detector, monitor_queue, monitor,
                   dispatch_queue, dispatcher, sys_quit>>

LoaderTop(l) == lpc[l] = "top" /\ LoaderLooks(l, NextTurn("look"))

\* Frames without an image are not pushed.
LoaderLook(l) ==
    lpc[l] = "look" /\ LoaderLooks(l, IF image[l] THEN "push" ELSE "reload")

ReloadNothing(l) ==
    lpc[l] = "reload" /\ LoaderLooks(l, "reopen")

Reload(l) ==
    /\ lpc[l] = "reload"
    /\ image' = [image EXCEPT ![l] = readable]
    /\ LoaderTo(l, "reopen")
    /\ UNCHANGED <<readable, detect_queue, detector, monitor_queue, monitor,
                   dispatch_queue, dispatcher, sys_quit>>

\* reopenCamera: imread, into a frame of its own, until it returns an image.
\* A turn that yields none changes nothing, and sys_quit is not looked at.
ReopenCamera(l) == lpc[l] = "reopen" /\ readable /\ LoaderLooks(l, "top")

PushFrame(l) ==
    /\ lpc[l] = "push"
    /\ HasPlace(detect_queue)
    /\ detect_queue' = Append(detect_queue, l)
    /\ LoaderTo(l, "top")
    /\ UNCHANGED <<camera, detector, monitor_queue, monitor, dispatch_queue,
                   dispatcher, sys_quit>>

LoaderStep(l) ==
    LoaderTop(l) \/ LoaderLook(l) \/ Reload(l) \/ ReopenCamera(l) \/ PushFrame(l)

-----------------------------------------------------------------------------
(* DetectorNode *)

DetectorTop ==
    /\ dpc = "top"
    /\ dpc' = NextTurn("pop")
    /\ UNCHANGED <<camera, lpc, detect_queue, dframe, monitor_queue, monitor,
                   dispatch_queue, dispatcher, sys_quit>>

PopFrame ==
    /\ dpc = "pop"
    /\ detect_queue # <<>>
    /\ dframe' = Head(detect_queue)
    /\ detect_queue' = Tail(detect_queue)
    /\ dpc' = "look"
    /\ UNCHANGED <<camera, lpc, monitor_queue, monitor, dispatch_queue,
                   dispatcher, sys_quit>>

\* A frame whose image is gone by now is dropped.
DetectorLook ==
    /\ dpc = "look"
    /\ dpc' = IF image[dframe] THEN "logger" ELSE "top"
    /\ UNCHANGED <<camera, lpc, detect_queue, dframe, monitor_queue, monitor,
                   dispatch_queue, dispatcher, sys_quit>>

\* The other way round: the data first, and its event when there is a place.
PushLoggerEventLast ==
    \/ /\ dpc = "logger"
       /\ HasPlace(monitor_queue)
       /\ monitor_queue' = Append(monitor_queue, dframe)
       /\ dpc' = "late"
       /\ UNCHANGED <<camera, lpc, detect_queue, dframe, monitor, dispatch_queue,
                      dispatcher, sys_quit>>
    \/ /\ dpc = "late"
       /\ HasPlace(dispatch_queue)
       /\ dispatch_queue' = Append(dispatch_queue, "logger")
       /\ dpc' = "top"
       /\ UNCHANGED <<camera, lpc, detect_queue, dframe, monitor_queue, monitor,
                      dispatcher, sys_quit>>

PushLoggerEvent ==
    /\ dpc = "logger"
    /\ HasPlace(dispatch_queue)
    /\ dispatch_queue' = Append(dispatch_queue, "logger")
    /\ dpc' = "forward"
    /\ UNCHANGED <<camera, lpc, detect_queue, dframe, monitor_queue, monitor,
                   dispatcher, sys_quit>>

\* feature_map names one feature, whose first node is MonitorNode.
PushMetaData ==
    /\ dpc = "forward"
    /\ HasPlace(monitor_queue)
    /\ monitor_queue' = Append(monitor_queue, dframe)
    /\ dpc' = "top"
    /\ UNCHANGED <<camera, lpc, detect_queue, dframe, monitor, dispatch_queue,
                   dispatcher, sys_quit>>

DetectorStep ==
    DetectorTop \/ PopFrame \/ DetectorLook \/ PushLoggerEvent \/ PushMetaData

-----------------------------------------------------------------------------
(* MonitorNode *)

MonitorTop ==
    /\ mpc = "top"
    /\ mpc' = NextTurn("pop")
    /\ UNCHANGED <<camera, lpc, detect_queue, detector, monitor_queue, mframe,
                   dispatch_queue, dispatcher, sys_quit>>

PopMetaData ==
    /\ mpc = "pop"
    /\ monitor_queue # <<>>
    /\ mframe' = Head(monitor_queue)
    /\ monitor_queue' = Tail(monitor_queue)
    /\ mpc' = "send"
    /\ UNCHANGED <<camera, lpc, detect_queue, detector, dispatch_queue,
                   dispatcher, sys_quit>>

SendMsg ==
    /\ mpc = "send"
    /\ HasPlace(dispatch_queue)
    /\ dispatch_queue' = Append(dispatch_queue, "monitor")
    /\ mpc' = "release"
    /\ UNCHANGED <<camera, lpc, detect_queue, detector, monitor_queue, mframe,
                   dispatcher, sys_quit>>

ReleaseImage ==
    /\ mpc = "release"
    /\ image' = [image EXCEPT ![mframe] = FALSE]
    /\ mpc' = "top"
    /\ UNCHANGED <<readable, lpc, detect_queue, detector, monitor_queue, mframe,
                   dispatch_queue, dispatcher, sys_quit>>

MonitorStep == MonitorTop \/ PopMetaData \/ SendMsg \/ ReleaseImage

-----------------------------------------------------------------------------
(* DispatchNode *)

DispatchTop ==
    /\ xpc = "top"
    /\ xpc' = NextTurn("pop")
    /\ UNCHANGED <<camera, lpc, detect_queue, detector, monitor_queue, monitor,
                   dispatch_queue, last, ahead, sys_quit>>

\* An event popped when another is behind it, and lost.
DispatchDroppingFirst ==
    /\ xpc = "pop"
    /\ dispatch_queue # <<>>
    /\ IF Len(dispatch_queue) > 1
       THEN UNCHANGED <<last, ahead>>
       ELSE /\ last' = Head(dispatch_queue)
            /\ ahead' = ahead + (IF last' = "logger" THEN 1 ELSE -1)
    /\ dispatch_queue' = Tail(dispatch_queue)
    /\ xpc' = "top"
    /\ UNCHANGED <<camera, lpc, detect_queue, detector, monitor_queue, monitor,
                   sys_quit>>

\* The handler hands the event over to FlowRpcAsynNode and returns.
Dispatch ==
    /\ xpc = "pop"
    /\ dispatch_queue # <<>>
    /\ last' = Head(dispatch_queue)
    /\ ahead' = ahead + (IF last' = "logger" THEN 1 ELSE -1)
    /\ dispatch_queue' = Tail(dispatch_queue)
    /\ xpc' = "top"
    /\ UNCHANGED <<camera, lpc, detect_queue, detector, monitor_queue, monitor,
                   sys_quit>>

DispatchStep == DispatchTop \/ Dispatch

-----------------------------------------------------------------------------

StopAll ==
    /\ MayQuit /\ ~sys_quit
    /\ sys_quit' = TRUE
    /\ UNCHANGED <<camera, lpc, detect_queue, detector, monitor_queue, monitor,
                   dispatch_queue, dispatcher>>

\* Nothing in the program writes the file; whoever does may take it away.
FileVanishes ==
    /\ MayVanish /\ readable
    /\ readable' = FALSE
    /\ UNCHANGED <<image, lpc, detect_queue, detector, monitor_queue, monitor,
                   dispatch_queue, dispatcher, sys_quit>>

Next ==
    \/ \E l \in Loaders : LoaderStep(l)
    \/ DetectorStep \/ MonitorStep \/ DispatchStep
    \/ StopAll \/ FileVanishes

SafeSpec == Init /\ [][Next]_vars

\* Each node is a thread of its own that the system schedules.  A thread in
\* Push or Pop is only promised to go on when it can go on for good: whom the
\* queue wakes first is anybody's guess.
Spec ==
    /\ SafeSpec
    /\ \A l \in Loaders : WF_vars(LoaderStep(l))
    /\ WF_vars(DetectorStep) /\ WF_vars(MonitorStep) /\ WF_vars(DispatchStep)

-----------------------------------------------------------------------------
(* Properties *)

TypeOK ==
    /\ readable \in BOOLEAN
    /\ image \in [Loaders -> BOOLEAN]
    /\ lpc \in [Loaders -> {"top", "look", "reload", "reopen", "push", "done"}]
    /\ detect_queue \in Seq(Loaders) /\ Len(detect_queue) <= Capacity
    /\ monitor_queue \in Seq(Loaders) /\ Len(monitor_queue) <= Capacity
    /\ dispatch_queue \in Seq({"logger", "monitor"})
    /\ Len(dispatch_queue) <= Capacity
    /\ dpc \in {"top", "pop", "look", "logger", "forward", "done"}
    /\ dframe \in Loaders
    /\ mpc \in {"top", "pop", "send", "release", "done"}
    /\ mframe \in Loaders
    /\ xpc \in {"top", "pop", "done"}
    /\ last \in {"none", "logger", "monitor"}
    /\ ahead \in Int
    /\ sys_quit \in BOOLEAN

Places(queue, kind) == {i \in DOMAIN queue : queue[i] = kind}
Count(queue, kind) == Cardinality(Places(queue, kind))

\* What the detector logged and the monitor has not reported yet.
Unreported ==
    Len(monitor_queue) + (IF dpc = "forward" THEN 1 ELSE 0)
                       + (IF mpc = "send" THEN 1 ELSE 0)

\* Every frame the detector lets through yields one LoggerEvent and one
\* MonitorEvent: what one queue holds and the other does not is with the
\* detector, with the monitor or between them (DetectorNode.cpp:42-53,
\* MonitorNode.cpp:39-60).
EventsBalance ==
    ahead + Count(dispatch_queue, "logger")
        = Count(dispatch_queue, "monitor") + Unreported

\* The MonitorEvent of a frame reaches the server's queue after its LoggerEvent,
\* though it goes the longer way: no more of the one than of the other have
\* been handled (DetectorNode.cpp:49-53).
LoggerFirst == ahead >= 0

\* The frames known to the log and not to the monitor are bounded by the places
\* of the monitor's queue and the hands of the two nodes: a LoggerEvent handled
\* had every MonitorEvent before it handled first, so DispatchNode's queue adds
\* nothing, and the pipeline pushes back (SolutionPipeline.cpp:54).
LagBounded == ahead <= Capacity + 2

\* The pipeline never comes to a standstill while there is something to see:
\* frames keep being logged and keep being monitored, though the monitor takes
\* the image from under a frame that is still in the queues and may leave many
\* empty ones there (MonitorNode.cpp:45-48, RtspLoaderNode.cpp:69-73,
\* DetectorNode.cpp:42-46).
KeepsReporting ==
    \/ <>(sys_quit \/ ~readable)
    \/ ([]<>(last = "logger")) /\ ([]<>(last = "monitor"))

\* Where a node is when nothing it does can change anything: gone, asleep in a
\* Push or Pop that nobody will end, or turning in reopenCamera.
LoaderSettled(l) ==
    \/ lpc[l] = "done"
    \/ lpc[l] = "push" /\ ~HasPlace(detect_queue)
    \/ lpc[l] = "reopen" /\ ~readable
DetectorSettled ==
    \/ dpc = "done"
    \/ dpc = "pop" /\ detect_queue = <<>>
    \/ dpc = "logger" /\ ~HasPlace(dispatch_queue)
    \/ dpc = "forward" /\ ~HasPlace(monitor_queue)
MonitorSettled ==
    \/ mpc = "done"
    \/ mpc = "pop" /\ monitor_queue = <<>>
    \/ mpc = "send" /\ ~HasPlace(dispatch_queue)
DispatchSettled == xpc = "done" \/ (xpc = "pop" /\ dispatch_queue = <<>>)
Settled ==
    /\ \A l \in Loaders : LoaderSettled(l)
    /\ DetectorSettled /\ MonitorSettled /\ DispatchSettled

\* Once sys_quit is set or the cameras have nothing more to show, the pipeline
\* comes to rest.  After StopAll nodes leave at the top of their loops, and the
\* others are left asleep in the queue their neighbour no longer serves, or
\* turning in reopenCamera, which does not look at sys_quit.  Without a quit
\* they are at rest only when every queue is empty, so that each frame logged
\* has been reported (SolutionPipeline.cpp:184, QueueManager.h:30, 43,
\* RtspLoaderNode.cpp:26-53).
ComesToRest == (sys_quit \/ ~readable) ~> []Settled
=============================================================================
