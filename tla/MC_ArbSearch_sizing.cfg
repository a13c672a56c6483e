CONSTANT SizingLow = 10
SPECIFICATION SpecSizing
INVARIANT SizingContract
