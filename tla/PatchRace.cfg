\* Two conditional PATCHes with the ETag of one system.
SPECIFICATION RedfishSpec
CONSTANTS
    MaxChanges = 3
    Patchers = {c1, c2}
    Bodies <- MCBodies
    MediaClients = {c1, c2}
    Urls = {u1, u2}
    LocalImages = {"l1"}
    MaxFiles = 4
    Overrides = {}
SYMMETRY MCSymmetry
PROPERTY ConditionalPatchAtomic
