SPECIFICATION Spec
INVARIANT SystemCallsHaveAGate
CHECK_DEADLOCK FALSE
