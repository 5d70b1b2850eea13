CONSTANTS
    Controllers = {c1, c2}
    NOPlugs = 1
    NIPlugs = 2
    Nodes <- MCBothOnly
    BcastInit = {FALSE}
    InitFree <- MCInitFree
    BwInit <- MCBwInit
    Payload = 97
    OverheadId = 0
    Skip = {FALSE}
    MaxConnects = 1
    FailSites = {}
    MaxFailures = 0
    IReadOk = {TRUE}
    MaxResets = 0
    ResetClears = {TRUE}
    RcSites = {}
SPECIFICATION Spec
INVARIANT
    AllReleased
