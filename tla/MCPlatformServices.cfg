\* Seven services, one of which moves.
SPECIFICATION Spec
CONSTANTS
    \* HotlineCatalog
    Hotlines = {h1}
    Responders = {d1}
    Owners = {o1, o2}
    Registered = {o1}
    SigningKeys = {k1, k2}
    Contracts = {a, b, c}
    CompleteContracts = {a, b}
    Quota = 2
    MaxSubmissions = 2
    Nobody = Nobody
    \* Accounts
    Users = {u1}
    Devices = {d1}
    Keys = {k1, k2, k3}
    AdminKeys = {ak1, ak2}
    Unset = Unset
    NoKey = NoKey
    NoRecord = NoRecord
    Unknown = Unknown
    \* ReviewTest
    Requests = {q1}
    Tests = {t1, t2}
    MaxTestFailures = 2
    None = None
    \* CallTimeline
    EventCap = 3
    ProgressCap = 1
    Seqs = {1, 2}
    Attempts = {1}
    Handlers = {x1, x2}
    Idle = Idle
    \* ArtifactChannel
    Contents = {a, b}
    Uploads = {u1}
    Patient = TRUE
    NoBytes = NoBytes
    \* AlertLoop
    Problems = {p1, p2}
    MaxAlertFailures = 2
    \* GatewaySession
    Passphrases = {pp1, pp2}
    StoredKeys = {ak1, ak2}
    Tokens = {t1, t2}
    Clients = {y1, y2}
    NoValue = NoValue
INVARIANTS
    TypeOK
    OnlyApprovedIsPublished ItemKeyIsKnown
    RevokedStaysOut OneAdminKey
    AuditEndsWithVerdict NothingRunsAfterTheEnd ServedAsCommitted UnlockedIsCurrent
PROPERTIES
    VersionsFrozen TestsEnd ProblemIsTold
\* The bounds on submissions, failures and keys let a service stop.
CHECK_DEADLOCK FALSE
