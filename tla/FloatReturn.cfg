SPECIFICATION Spec
CONSTANTS
    Sigs <- MCSigs
    RegSlots = 2
    Narrow = 4
    WordSize = 8
    MaxWrites = 2
    MaxOriginals = 1
    Classes <- MCClasses
    MaxFields = 2
    MaxMethods = 2
    Cells = {1, 2, 3}
    Unaligned = {2}
    Walkers = {w1, w2}
    Limits = {1, 3}
    MaxHits = 2
INVARIANT FloatReturnArrives
