\* Overlapping requests on two projects, one failure or crash at any point.
CONSTANTS
    p1 = p1
    p2 = p2
    t1 = t1
    t2 = t2
    t3 = t3
    c1 = c1
    c2 = c2
    r1 = r1
    r2 = r2
    r3 = r3
    Project = {p1, p2}
    Ticket = {t1, t2, t3}
    Comment = {c1, c2}
    ProjectOf <- Projects
    TicketOf <- Tickets
    Request = {r1, r2}
    MaxFailures = 1
SPECIFICATION Spec
SYMMETRY Interchangeable
CHECK_DEADLOCK FALSE
INVARIANTS
    SoftDeleteTypeOK
    DeletedTicketHidesComments
PROPERTIES
    CleanRemovalCascades
