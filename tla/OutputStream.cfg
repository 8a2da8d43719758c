\* Five messages: one being written, others waiting or in the hands of
\* fail_pending, and one or two that callbacks write meanwhile.
CONSTANTS
    MaxMessages = 5
SPECIFICATION LiveSpec
CHECK_DEADLOCK FALSE
INVARIANTS
    TypeOK
    SingleWriter
    NeverForgotten
    InOnePlace
    WireInOrder
PROPERTIES
    FailureIsBarrier
    KeepsPromise
    WritesComplete
