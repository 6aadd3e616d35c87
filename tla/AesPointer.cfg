SPECIFICATION Spec
INVARIANT PointerMatches
