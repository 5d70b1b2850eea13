CONSTANTS
    Controllers = {c1, c2}
    NOPlugs = 1
    NIPlugs = 2
    Nodes <- MCNodes
    BcastInit = {FALSE}
    InitFree <- MCInitFree
    BwInit <- MCBwInit
    Payload = 97
    OverheadId = 0
    Skip = {FALSE}
    MaxConnects = 2
    FailSites <- MCConnectSites
    MaxFailures = 1
    IReadOk = {TRUE}
    MaxResets = 1
    ResetClears = {TRUE}
    RcSites = {}
SPECIFICATION Spec
INVARIANTS
    PlugCount
    ChannelAgreement
