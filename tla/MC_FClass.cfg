SPECIFICATION Spec
INVARIANT FClassMatchesRef
CHECK_DEADLOCK FALSE
