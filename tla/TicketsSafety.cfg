\* Two patches of two tickets, every failure and a crash at any point.
CONSTANTS
    t1 = t1
    t2 = t2
    t3 = t3
    r1 = r1
    r2 = r2
    r3 = r3
    u1 = u1
    u2 = u2
    Nobody = Nobody
    User = {u1}
    UserId = {u1, u2}
    Ticket = {t1, t2}
    Request = {r1, r2}
    NewTicket <- FreshRows
    Dto <- Bodies
    PoolSize = 2
    MaxLeaks = 1
SYMMETRY Interchangeable
SPECIFICATION Spec
INVARIANTS
    TypeOK
    ReadsStayValid
    AnswerMatchesEffect
    HoldersNeverWait
PROPERTIES
    DoneOnlyWhenUnblocked
    DoneIsFrozen
    StatusMovesForward
    AtomicPatch
