SPECIFICATION FairSpec
CONSTANTS
    Wires <- MCWires
    Need = 3
    ReadMax = 2
    RecordMax = 2
    WriteMax = 5
    MaxGiven = 5
    DomainUnits = 2
INVARIANTS
    StreamIsPayload
    StreamIsWhole
    MaskedIsTransparent
PROPERTIES
    MaskingReleases
CHECK_DEADLOCK FALSE
