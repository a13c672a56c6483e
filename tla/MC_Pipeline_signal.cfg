CONSTANTS
    BatchSize = 2
    MaxFrames = 2
    FrameKinds <- MCFrameKinds
    RpcCanFail = FALSE
    MaxSignals = 1
SPECIFICATION FairSpec
CHECK_DEADLOCK FALSE
PROPERTY SignalStopsMain
