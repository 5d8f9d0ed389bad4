\* The same calls as in MCUnpacker.cfg: the umask when calls overlap.
CONSTANTS
    a1 = a1
    a2 = a2
    b1 = b1
    Calls = {a1, a2, b1}
    Threads = {"A", "B"}
    ThreadOf <- MCThreadOf
    Required = {a1, b1}
    Targets = {t1, t2}
    NoCall = NoCall
    Others = Others
SPECIFICATION Spec
SYMMETRY TargetSymmetry
INVARIANT
    UmaskGivenBack
