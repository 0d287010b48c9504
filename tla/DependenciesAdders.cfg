\* Concurrent adds with every kind of refusal, on a graph that may be cyclic.
CONSTANTS
    t1 = t1
    t2 = t2
    t3 = t3
    t4 = t4
    r1 = r1
    r2 = r2
    r3 = r3
    projectId <- Projects
    Ticket = {t1, t2, t3, t4}
    Request = {r1, r2}
    Call <- SomeAdds
    Stored <- ChainOrCycle
SPECIFICATION FairSpec
INVARIANTS
    CycleRefusalJustified
PROPERTIES
    EveryCallAnswered
