SPECIFICATION FairSpec
CONSTANTS
    Streams <- MCStreams
    HighWater = 1
    Scripts <- MCScripts
INVARIANTS
    UpstreamInOrder
    FramesArePackets
    UpstreamComplete
    DownstreamComplete
    NothingAfterClose
    TransportReleased
PROPERTY
    BridgeEnds
CHECK_DEADLOCK FALSE
