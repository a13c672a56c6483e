CONSTANT SizingLow = 2
SPECIFICATION SpecSearch
INVARIANT TypeOK
INVARIANT SwapOutBelowReserve
INVARIANT TwoHopOptimal
INVARIANT OpportunityWellFormed
