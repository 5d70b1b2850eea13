CONSTANTS
    Controllers = {c1, c2, c3}
    NOPlugs = 1
    NIPlugs = 2
    Nodes <- MCBothOnly
    BcastInit = {FALSE}
    InitFree <- MCInitFree
    BwInit <- MCBwInit
    Payload = 97
    OverheadId = 0
    Skip = {FALSE}
    MaxConnects = 1
    FailSites = {}
    MaxFailures = 0
    IReadOk = {TRUE}
    MaxResets = 1
    ResetClears = {TRUE}
    RcSites = {}
SPECIFICATION Spec
INVARIANT
    PlugCount
