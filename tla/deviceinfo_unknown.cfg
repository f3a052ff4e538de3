CONSTANT NPaths = 3
SPECIFICATION Spec
INVARIANT FallsBack
CHECK_DEADLOCK FALSE
