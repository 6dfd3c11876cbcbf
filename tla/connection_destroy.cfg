SPECIFICATION Spec
CONSTANTS
    c1 = c1
    c2 = c2
    c3 = c3
    Calls <- MCTwo
    Oneway <- MCOneway
    Hello = Hello
    M = 3
    MaxNoise = 1
    DestroyWhen = {"Error"}
    NoCall = NoCall
    NoSerial = NoSerial
    NoMsg = NoMsg
\* After Error or the destruction of the connection nothing has to happen.
CHECK_DEADLOCK FALSE
INVARIANTS NoUseAfterDestroy
