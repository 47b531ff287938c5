SPECIFICATION FairRelaySpec
CONSTANTS
    Receivers = {r1}
    m1 = m1
    m2 = m2
    Messages = {m1, m2}
    Consumers = {c1, c2}
    Admins = {c1}
    Leaseless = {}
    Leases = {l1, l2, l3, l4, l5, l6}
    Deployments <- MCDeployments
    TokenTtl = 1
    Secrets = {s1, s2}
    Limit = 2
    MaxSends = 2
    Absent = Absent
    NoLease = NoLease
    NoToken = NoToken
    NoSecret = NoSecret
INVARIANTS RelayTypeOK OneLiveLease
PROPERTIES OnlyHandledIsDeleted LeaseRunsOut
\* Sends are bounded: the relay stops when all were handled.
CHECK_DEADLOCK FALSE
