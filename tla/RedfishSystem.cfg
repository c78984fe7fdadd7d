\* PATCHes of the system by two clients, or insertions and ejections by two
\* clients, over a VM that starts, pauses and ends.
SPECIFICATION RedfishSpec
CONSTANTS
    MaxChanges = 3
    Patchers = {c1, c2}
    Bodies <- MCBodies
    MediaClients = {c1, c2}
    Urls = {u1, u2}
    LocalImages = {"l1"}
    MaxFiles = 4
    Overrides = {}
SYMMETRY MCSymmetry
 
INVARIANT PatchDoesAsAsked
INVARIANT MediaAgree
INVARIANT ColdStartFindsImage
PROPERTY RefusedChangesNothing
