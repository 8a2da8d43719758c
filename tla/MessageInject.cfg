SPECIFICATION Spec
CONSTANTS
    Messages <- MCMessages
    Patterns <- MCPatterns
INVARIANT NextFieldIsBuilt
CHECK_DEADLOCK FALSE
