\* Two threads with three requests each; event handlers may panic.
CONSTANTS
    Callers = {c1, c2}
    NoCaller = NoCaller
    MaxSends = 3
    HandlerMayPanic = TRUE
SPECIFICATION FairSpec
INVARIANTS
    TypeOK
    LockHeldOnlyInCalls
    TokenStableDuringCall
PROPERTY
    SendReturns
