SPECIFICATION FairLifespanSpec
CONSTANTS
    old = old
    new = new
    broken = broken
    sound = sound
    None = None
    Processes = {old, new}
    Release <- TwoReleases
    Tenants <- BrokenFirst
    Unreachable = {broken}
    MaxWork = 1
    MaxFaults = 2
INVARIANTS
    MigrationsInOrder
    AdminOpenWhilePolled
PROPERTIES
    ServesOwnSchema
    TenantsAreServed
    LifespanMoves
