SPECIFICATION FairSpec
CONSTANTS
    HeaderSize = 2
    Alignment = 2
    Kinds <- MCKinds
    MaxMessages = 3
    NoHeader = NoHeader
\* The stream is bounded: when it has been read nothing is left to do.
CHECK_DEADLOCK FALSE
INVARIANTS
    TypeOK
    NoByteLost
    NeverPastTheEnd
PROPERTIES
    WholeMessagesArrive
    IsAChannel
