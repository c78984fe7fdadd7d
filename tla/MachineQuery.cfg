\* Power queries against power requests; guests that power off and QEMUs that hang.
SPECIFICATION MachineSpec
CONSTANTS
    Callers = {c1, c2}
    MaxGen = 2
    Targets = {"None"}
    Images = {}
    NoMedia = NoMedia
    Hangs = {1}
    BootStates = {"running"}
    NoShutdown = TRUE
    Requests = {"On", "ForceOff", "ForceRestart", "GetPowerState", "GetQMPStatus"}
    Overrides = {}
SYMMETRY MCCallers
INVARIANT OffReportIsTrue
PROPERTY QmpExchangesAreAtomic
