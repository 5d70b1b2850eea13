\* Three frames of either system, up to two lost packets anywhere (also
\* frame starts), failing application callbacks.
CONSTANTS
    Systems <- MCSystems
    Headers <- MCNoHeaders
    MaxFrames = 3
    MaxLost = 2
INIT Init
NEXT Next
INVARIANTS
    TypeOK
    FbLayout
    FbCompleteIffIntact
