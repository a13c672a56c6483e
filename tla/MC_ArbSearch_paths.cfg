CONSTANT SizingLow = 2
SPECIFICATION SpecPaths
INVARIANT OpportunityIsCycle
