\* What context.go:66-73 says of calls not marked as served under a dated name.
SPECIFICATION CallsSpec
CONSTANT AskedCalls <- MCAskedCalls
INVARIANT UnmarkedRecordedAsAsked
CHECK_DEADLOCK FALSE
