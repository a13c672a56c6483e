CONSTANTS
    NumWorkers = 2
    BatchSize = 2
    Cap = 1
    IdStride = 10
    MaxStarts = 1
    NTx = 3
    IsSwap <- MCIsSwap
    OppsOf <- MCOppsOf
SPECIFICATION FairSpec
CHECK_DEADLOCK FALSE
INVARIANT TypeOK
INVARIANT IdsMonotonePerWorker
PROPERTY InputEventuallyProcessed
PROPERTY ShutdownCompletes
