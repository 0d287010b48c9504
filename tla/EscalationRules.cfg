\* The cron writes from a stale read of a ticket changed meanwhile.
CONSTANTS
    t1 = t1
    t2 = t2
    r1 = r1
    r2 = r2
    u1 = u1
    Nobody = Nobody
    User = {u1}
    UserId = {u1}
    Ticket = {t1}
    Request = {r1}
    NewTicket <- OverdueRows
    Dto <- Bodies
    PoolSize = 2
    MaxLeaks = 0
    MaxFailures = 0
SPECIFICATION EscalationSpec
PROPERTIES
    EscalatesByTheRules
