\* Two PAL streams in one process.
CONSTANTS
    s1 = s1
    s2 = s2
    Streams <- MCTwoStreams
    Systems <- MCPal
    MaxDropped = 0
    MaxCycles = 40
INIT Init
NEXT Next
INVARIANT DvDbcContinuity
