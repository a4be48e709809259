CONSTANT Messages <- MCMessages
SPECIFICATION Spec
INVARIANTS BufferChecked ValueChecked
CHECK_DEADLOCK FALSE
