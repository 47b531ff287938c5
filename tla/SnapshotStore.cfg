SPECIFICATION FairSpec
CONSTANTS
    Keys = {k1, k2}
    Replaced = {k2}
    Savers = {w1, w2}
    MaxEdits = 2
    NoRow = NoRow
INVARIANTS TypeOK AnsweredLoads KeptOrForgottenWhole
PROPERTIES SavesEnd SavesAreAtomic
CHECK_DEADLOCK FALSE
