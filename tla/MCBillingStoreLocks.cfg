SPECIFICATION Spec
CONSTANTS
    Tenants = {t1, t2}
    Clients = {c1, c2, c3}
    RechargeIds = {p1}
    Holds = {1}
    Refunds = {1}
    Credits = {2}
    MaxCasRetries = 2
    MonthDays = 1
    MaxDay = 0
    ClientDays = {}
    MaxRows = 2
    NoTenant = NoTenant
    NoRecharge = NoRecharge
SYMMETRY Alike
INVARIANTS TypeOK Locking CasNeverMisses NoCircularWait
PROPERTIES Implements
CHECK_DEADLOCK FALSE
