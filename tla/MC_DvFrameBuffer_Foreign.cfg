\* A foreign talker whose first-block IDs are out of the standard's range.
CONSTANTS
    Systems <- MCSystems
    Headers <- MCForeignHeaders
    MaxFrames = 1
    MaxLost = 0
INIT Init
NEXT NextForeign
INVARIANT FbInBounds
