SPECIFICATION Spec
CONSTANTS
    r1 = r1
    r2 = r2
    c1 = c1
    c2 = c2
    h1 = h1
    h2 = h2
    Calls = {r1}
    Callers = {c1}
    NoCaller = NoCaller
    Handlers = {h1, h2}
    Attempts = {}
    Prices = {0, 2}
    Deposit = 2
    BalanceCap = 4
    MaxVersion = 2
    Offered <- Binding
    Overlap <- Everything
    StoreFaults <- NoFaults
    ClientClock = TRUE
    Crashes = TRUE
SYMMETRY HandlerSymmetry
INVARIANTS TypeOK VersionPinned AnsweredIsSaved
CHECK_DEADLOCK FALSE
