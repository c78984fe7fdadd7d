\* A BMC that starts with or without a VM and is shut down under load.
SPECIFICATION BmcFairSpec
CONSTANTS
    Callers = {main, c1}
    Main = main
    MaxGen = 1
    Targets = {"None", "Pxe"}
    Images = {}
    NoMedia = NoMedia
    Hangs = {}
    BootStates = {"running"}
    NoShutdown = FALSE
    Requests = {"On", "PowerCycle", "GracefulShutdown"}
    Overrides <- MCOverrides
CHECK_DEADLOCK FALSE
PROPERTY ServersStartConnected
PROPERTY OnceNeedsABoot
PROPERTY ImplementsService
PROPERTY ShutdownEnds
