CONSTANTS
    Streams <- MCStreams
    Pids <- MCPids
    SrcNode = 1
    IsoInitOk = {TRUE, FALSE}
    Be64 = FALSE
    MaxPutFailures = 1
    MaxCycles = 60
    PacingSlack = 2
    Huge = 1000000000
SPECIFICATION Spec
INVARIANTS
    PcrPacing
    WindowsSent
PROPERTIES
    ImplementsTsStream
    QueuedPacketsLeave
    SentIsDelivered
