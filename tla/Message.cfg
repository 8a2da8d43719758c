SPECIFICATION Spec
CONSTANTS
    Messages <- MCMessages
    Patterns <- MCPatterns
INVARIANTS
    ParsesWhatIsMeant
    RoundTrip
\* A program that has parsed its message is done.
CHECK_DEADLOCK FALSE
