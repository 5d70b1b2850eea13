\* Two plugctl processes setting different fields of oPCR[0] at once.
CONSTANTS
    Ctl = {"p1", "p2"}
    Prog <- MCProgRace
    NPcr = 1
    ArmOk = {TRUE}
    MaxTries = 2
    MaxBusy = 0
SPECIFICATION Spec
INVARIANT
    ExitZeroMeansSet
