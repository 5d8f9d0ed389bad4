\* Texts of up to six symbols, composed references and challenges.
CONSTANTS
    HashBytes <- MCHashBytes
    MaxLen <- MCMaxLen
    Symbol <- MCSymbol
SPECIFICATION Spec
INVARIANTS
    DigestsAreExact
    ReferencesAreStable
    PartsAreFound
    ChallengesAreSent
CHECK_DEADLOCK FALSE
