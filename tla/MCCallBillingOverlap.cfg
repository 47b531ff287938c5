SPECIFICATION FairSpec
CONSTANTS
    r1 = r1
    r2 = r2
    c1 = c1
    c2 = c2
    h1 = h1
    h2 = h2
    Calls = {r1}
    Callers = {c1}
    NoCaller = NoCaller
    Handlers = {h1, h2}
    Attempts = {}
    Prices = {2}
    Deposit = 2
    BalanceCap = 8
    MaxVersion = 1
    Offered <- Ending
    Overlap <- ReportBesideAny
    StoreFaults <- NoFaults
    ClientClock = FALSE
    Crashes = FALSE
INVARIANTS ClosedHoldsNothing
PROPERTIES OnlyDeliverySettles LapsedIsReleased
CHECK_DEADLOCK FALSE
