\* PowerCycle over a QEMU whose QMP socket was never reached.
SPECIFICATION MachineSpec
CONSTANTS
    Callers = {c1}
    MaxGen = 2
    Targets = {"None"}
    Images = {}
    NoMedia = NoMedia
    Hangs = {}
    BootStates = {"running"}
    NoShutdown = FALSE
    Requests = {"On", "PowerCycle"}
    Overrides = {}
INVARIANT PowerCycleRestarts
