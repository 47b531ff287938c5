SPECIFICATION Spec
CONSTANTS
    Tenants = {t1}
    Clients = {c1, c2}
    RechargeIds = {p1}
    Holds = {1}
    Refunds = {1}
    Credits = {2}
    MaxCasRetries = 2
    MonthDays = 2
    MaxDay = 2
    ClientDays = {2}
    MaxRows = 3
    NoTenant = NoTenant
    NoRecharge = NoRecharge
SYMMETRY Alike
INVARIANTS ReadsOneMoment UsageIsSpending
PROPERTIES WindowsForward
CHECK_DEADLOCK FALSE
