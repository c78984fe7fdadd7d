\* One client configures and updates, two reset, all at once.
SPECIFICATION SettingsSpec
CONSTANTS
    Configurers = {c1}
    Resetters = {r1, r2}
    Attrs = {phone, boot}
    ResetRequired = {boot}
    TargetSets = {{}, {"BIOS"}}
    MaxTasks = 2
    MaxWrites = 3
SYMMETRY MCResetters
INVARIANT ResetAppliesSettings
INVARIANT ResetActivatesUpdates
INVARIANT FollowerFindsUpdate
