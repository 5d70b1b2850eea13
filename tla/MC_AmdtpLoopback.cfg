\* Blocking modes, the rates and sample formats both sides agree on, one
\* receiver overrun, failing callbacks on both sides, a receiver restart.
CONSTANTS
    Rates <- MCLowRates
    Formats <- MCFormats
    Modes <- MCBlockingModes
    Dimensions <- MCDimensions
    SampleFormats <- MCLeFormats
    MaxDropped = 0
    MaxStarts = 1
    WireCap = 1
    MaxOverruns = 1
    MaxRecvStarts = 2
    MaxPackets = 30
INIT LInit
NEXT LNext
INVARIANTS
    LTypeOK
    RateRoundTrip
    FormatRoundTrip
    NoEventLost
