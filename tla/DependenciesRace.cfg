\* Two concurrent adds close a cycle.
CONSTANTS
    t1 = t1
    t2 = t2
    t3 = t3
    t4 = t4
    r1 = r1
    r2 = r2
    r3 = r3
    projectId <- Projects
    Ticket = {t1, t2}
    Request = {r1, r2}
    Call <- Adds
    Stored <- Empty
SPECIFICATION Spec
INVARIANTS
    Acyclic
