SPECIFICATION Spec
CONSTANTS
    Accounts = {a1, a2}
    Keys = {k1, k2}
    Handlers = {h1, h2}
    DiskFails = TRUE
    NoKey = NoKey
    NoAccount = NoAccount
    NoFile = NoFile
    Truncated = Truncated
    Garbled = Garbled
SYMMETRY Symmetry
INVARIANTS
    StoreInv
    SavedWhenIdle
PROPERTY
    ImplementsLedger
