SPECIFICATION MCSpec
CONSTANTS
    Thread <- mcThread
    Pointer <- mcPointer
    Owner <- mcOwner
    Entry <- mcEntry
    Null = Null
    NaN = NaN
INVARIANTS
    PoolInv
    SetFaithful
    RepositoryFaithful
PROPERTY
    SuccessorsRight
