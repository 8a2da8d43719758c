\* Five additions, enough for bsearch to go both ways twice, of three methods,
\* so that a method has several handlers.
CONSTANTS
    Methods = {1, 2, 3}
    MaxHandlers = 5
SPECIFICATION Spec
\* A server that was disposed does nothing more.
CHECK_DEADLOCK FALSE
INVARIANTS
    TypeOK
    DispatchIsExact
    DataLivesWhileRegistered
