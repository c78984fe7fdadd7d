\* Two goroutines race over two successive QEMU processes.
SPECIFICATION ProcessFairSpec
CONSTANTS
    Callers = {c1, c2}
    MaxGen = 2
    Targets = {None}
    Images = {}
    NoMedia = NoMedia
INVARIANT NoOrphan
INVARIANT ExitChClosedOnce
INVARIANT WaitSound
INVARIANT StopSettles
PROPERTY ImplementsSingleVm
PROPERTY StopEndsProcess
