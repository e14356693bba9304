SPECIFICATION Spec
CONSTANT MaxChanges = 3
INVARIANT PermutationsConverge
CHECK_DEADLOCK FALSE
