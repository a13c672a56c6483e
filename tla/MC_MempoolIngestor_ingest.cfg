CONSTANTS
    BatchSize = 2
    MaxFrames = 4
    FrameKinds <- MCFrameKinds
    RpcCanFail = TRUE
SPECIFICATION FairSpec
CHECK_DEADLOCK FALSE
INVARIANT TypeOK
INVARIANT HashesForwardedInOrder
PROPERTY ReceivedEventuallyForwarded
