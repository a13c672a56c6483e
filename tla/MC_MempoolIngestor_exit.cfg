CONSTANTS
    BatchSize = 2
    MaxFrames = 4
    FrameKinds <- MCFrameKinds
    RpcCanFail = FALSE
SPECIFICATION Spec
CHECK_DEADLOCK FALSE
INVARIANT ExitsOnlyOnStop
