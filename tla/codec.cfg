SPECIFICATION Spec
CONSTANTS
    PeerMessages <- MCPeerMessages
    Types <- MCTypes
    Texts <- MCTexts
    Serials <- MCSerials
    MaxSets = 5
    MaxChanges = 2
    NoMessage = NoMessage
\* A message that was refused, or waits for bytes nobody sends, goes nowhere.
CHECK_DEADLOCK FALSE
INVARIANTS
    TypeOK
    LittleEndianWhole
    NeverMisread
    AgreesWithExample
    ItemsInOrder
    SentIsRead
