SPECIFICATION Spec
CONSTANT Lengths = {2, 3, 4, 5, 6, 7, 8}
INVARIANT Interpolates
CHECK_DEADLOCK FALSE
