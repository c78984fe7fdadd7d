\* Two callers switch a VM on, off and over; two successive VMs.
SPECIFICATION MachineSpec
CONSTANTS
    Callers = {c1, c2}
    MaxGen = 2
    Targets = {"None"}
    Images = {}
    NoMedia = NoMedia
    Hangs = {}
    BootStates = {"running"}
    NoShutdown = FALSE
    Requests = {"On", "ForceOff", "PowerCycle", "GracefulRestart"}
    Overrides = {}
SYMMETRY MCCallers
INVARIANT MachineTypeOK
 
INVARIANT OffIsOff
 
