\* Adds one at a time, removals and soft deletes at any time.
CONSTANTS
    t1 = t1
    t2 = t2
    t3 = t3
    t4 = t4
    r1 = r1
    r2 = r2
    r3 = r3
    projectId <- Projects
    Ticket = {t1, t2, t3}
    Request = {r1, r2, r3}
    Call <- Both
    Stored <- Empty
SPECIFICATION SerialSpec
SYMMETRY Interchangeable
INVARIANTS
    TypeOK
    Acyclic
PROPERTIES
    AtomicAdds
