\* The cron on a pool of one connection, with a run cut short and a manual change.
CONSTANTS
    t1 = t1
    t2 = t2
    r1 = r1
    r2 = r2
    u1 = u1
    Nobody = Nobody
    User = {u1}
    UserId = {u1}
    Ticket = {t1, t2}
    Request = {r1}
    NewTicket <- OverdueRows
    Dto <- ByHand
    PoolSize = 1
    MaxLeaks = 0
    MaxFailures = 1
SPECIFICATION EscalationFairSpec
INVARIANTS
    EscalationTypeOK
    OverdueOnlyCritical
    ReadsStayValid
PROPERTIES
    OverdueReachesCritical
    PatchAndCronAtomic
