SPECIFICATION Spec
CONSTANTS
    r1 = r1
    r2 = r2
    c1 = c1
    c2 = c2
    h1 = h1
    h2 = h2
    Calls = {r1}
    Callers = {c1, c2}
    NoCaller = NoCaller
    Handlers = {h1, h2}
    Attempts = {a1}
    Prices = {1, 2}
    Deposit = 2
    BalanceCap = 4
    MaxVersion = 1
    Offered <- Ops
    Overlap <- IssueBesideRelease
    StoreFaults <- AllButDebit
    ClientClock = TRUE
    Crashes = FALSE
VIEW WithoutSnapshot
SYMMETRY HandlerSymmetry
INVARIANTS Conserved Accounting NeverOverRefunded OneOwner
PROPERTIES SettledStays
CHECK_DEADLOCK FALSE
