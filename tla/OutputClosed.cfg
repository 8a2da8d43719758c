\* One message is written, two wait when the program closes the stream.
CONSTANTS
    MaxMessages = 3
SPECIFICATION LiveSpec
CHECK_DEADLOCK FALSE
PROPERTIES
    EveryWriteCompletes
