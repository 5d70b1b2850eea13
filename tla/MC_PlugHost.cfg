\* Two plugctl processes racing on oPCR[0] and iMPR with equal values, the
\* host starting (or failing to) and closing at any time, two busy answers.
CONSTANTS
    Ctl = {"p1", "p2"}
    Prog <- MCProg
    NPcr = 1
    ArmOk = {TRUE, FALSE}
    MaxTries = 2
    MaxBusy = 2
SPECIFICATION Spec
INVARIANTS
    TypeOK
    ExitZeroMeansSet
