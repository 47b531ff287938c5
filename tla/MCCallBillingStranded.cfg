SPECIFICATION Spec
CONSTANTS
    r1 = r1
    r2 = r2
    c1 = c1
    c2 = c2
    h1 = h1
    h2 = h2
    Calls = {r1}
    Callers = {c1}
    NoCaller = NoCaller
    Handlers = {h1, h2}
    Attempts = {a1}
    Prices = {2}
    Deposit = 2
    BalanceCap = 4
    MaxVersion = 1
    Offered <- Ops
    Overlap <- OneAtATime
    StoreFaults <- RefundFaults
    ClientClock = TRUE
    Crashes = FALSE
VIEW WithoutSnapshot
SYMMETRY HandlerSymmetry
INVARIANTS StrandedIsNoticed
CHECK_DEADLOCK FALSE
