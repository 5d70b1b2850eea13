CONSTANTS
    Rates <- MCRates
    Formats <- MCFormats
    Modes <- MCModes
    Dimensions <- MCDimensions
    SampleFormats <- MCSampleFormats
    MaxDropped = 0
    MaxStarts = 1
SPECIFICATION Spec
INVARIANT TypeOK
 
INVARIANT DbcContinuity
INVARIANT SytInWindow
INVARIANT SytOnSytIntervalBoundary
