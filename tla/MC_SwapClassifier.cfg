SPECIFICATION Spec
INVARIANT SwapIffKnownSelector
