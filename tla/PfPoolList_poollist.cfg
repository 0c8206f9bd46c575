SPECIFICATION Spec
CONSTANT MaxAddrs = 2
INVARIANT PointersValid
CHECK_DEADLOCK FALSE
