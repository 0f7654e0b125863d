SPECIFICATION SnmpSpec
CONSTANTS
    core = core
    core2 = core2
    user = user
    scalars = scalars
    Member <- MCMember
    Scope <- MCScope
    Value = {1, 2}
    Secret = {1, 2}
    Default = 1
    Elsewhere <- MCElsewhere
    Written <- MCWritten
    Scalars = scalars
    Nothing = Nothing
INVARIANTS
    SnmpConfigInv
    ExportAppliesBack
PROPERTIES
    NoSecretIsErased
CHECK_DEADLOCK FALSE
