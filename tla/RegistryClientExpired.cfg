\* One thread with one request; the client may have a token from before.
CONSTANTS
    Callers = {c1}
    NoCaller = NoCaller
    MaxSends = 1
    HandlerMayPanic = FALSE
SPECIFICATION Spec
INVARIANT
    ChallengeIsFollowed
