CONSTANTS
    NumWorkers = 2
    BatchSize = 2
    Cap = 1
    IdStride = 10
    MaxStarts = 2
    NTx = 3
    IsSwap <- MCIsSwap
    OppsOf <- MCOppsOf
SPECIFICATION Spec
CHECK_DEADLOCK FALSE
INVARIANT UniqueIds
