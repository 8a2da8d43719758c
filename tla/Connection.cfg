\* Two calls each way, of which one is synchronous and one is refused.
CONSTANTS
    MaxCalls <- MCMaxCalls
    SyncCalls <- MCSyncCalls
    Errors <- MCErrors
    Disowned <- MCDisowned
    Closers <- MCClosers
    Starts <- MCStarts
    Capacity = 1
SPECIFICATION LiveSpec
CHECK_DEADLOCK FALSE
INVARIANTS
    TypeOK
    AnswersBelong
    HandledInOrder
    NoOtherDeadlock
PROPERTIES
    KeepsPromise
    EveryCallEnds
