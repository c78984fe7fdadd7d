\* Liveness of power requests with a QEMU that answers.
SPECIFICATION MachineFairSpec
CONSTANTS
    Callers = {c1, c2}
    MaxGen = 1
    Targets = {"None"}
    Images = {}
    NoMedia = NoMedia
    Hangs = {}
    BootStates = {"running"}
    NoShutdown = FALSE
    Requests = {"On", "ForceOff", "GracefulRestart"}
    Overrides = {}
PROPERTY RequestsAnswered
PROPERTY ForceOffEndsVm
