\* One stream of either system, no dropped slots, failing
\* callbacks; 3300 cycles are eleven PAL or twelve NTSC frames.
CONSTANTS
    s1 = s1
    s2 = s2
    Streams <- MCOneStream
    Systems <- MCSystems
    MaxDropped = 0
    MaxCycles = 3300
INIT Init
NEXT Next
INVARIANTS
    TypeOK
    DvDbcContinuity
    DvSytMarksFrameStart
    DvFrameRate
