\* Any configuration of up to two features and three inputs; threads that are
\* punctual, and threads that are not.
CONSTANTS
    FeatureNames = {"monitor", "other"}
    RtspUrls = {"rtsp1", "rtsp2"}
    DevPaths = {"dev"}
    RtmpUrls = {"rtmp"}
    VideoFiles = {"file"}
    MaxFeatures = 2
    MaxInputs = 3

SPECIFICATION Spec
INVARIANTS TypeOK NoNullQueue BuiltBeforeFrames RunningBeforeFrames
           RunsItsNode NodeOutlivesThread
PROPERTIES ComesUp
\* The main thread then only polls sys_quit.
CHECK_DEADLOCK FALSE
