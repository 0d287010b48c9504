\* One user, four requests, two at a time; tokens live for two seconds and
\* are signed in the first two; the clock runs until every one has expired.
CONSTANTS
    ann = ann
    r1 = r1
    r2 = r2
    User = {ann}
    Request = {r1, r2}
    TicksPerSecond = 2
    Lifetime = 2
    MaxTime = 7
    LoginsUntil = 1
    MaxRequests = 4
CHECK_DEADLOCK FALSE
SPECIFICATION FairSpec
INVARIANTS
    AccountsTypeOK
    LoggedOutStaysOut
    DeletedUserStaysOut
    StaleRoleExpires
PROPERTIES
    BlacklistPruned
