SPECIFICATION MCSpec
CONSTANTS
    Parts = {"console"}
    Threads = {t1, t2}
    Values = {v1, v2, v3}
    Blocks = {b1, b2}
    Writers = {w1, w2}
    Readers = {r1, r2}
    w1 = w1
    w2 = w2
    r1 = r1
    r2 = r2
    e1 = e1
    e2 = e2
    e3 = e3
    e4 = e4
    e5 = e5
    e6 = e6
    l = l
    m = m
    ZeroSector = ZeroSector
    TornSector = TornSector
    NULL = NULL
    NoThread = NoThread
INVARIANTS
    WaitAsserted
