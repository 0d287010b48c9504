\* A removal is cut short and sent again.
CONSTANTS
    p1 = p1
    p2 = p2
    t1 = t1
    t2 = t2
    t3 = t3
    c1 = c1
    c2 = c2
    r1 = r1
    r2 = r2
    r3 = r3
    Project = {p1}
    Ticket = {t1, t2}
    Comment = {c1, c2}
    ProjectOf <- Projects
    TicketOf <- OneEach
    Request = {r1, r2}
    MaxFailures = 1
SPECIFICATION RetrySpec
SYMMETRY Interchangeable
CHECK_DEADLOCK FALSE
PROPERTIES
    ProjectRemovalCascades
