SPECIFICATION Spec
CONSTANTS
    s1 = s1
    s2 = s2
    k1 = k1
    k2 = k2
    v1 = v1
    v2 = v2
    big = big
    None = None
    Coord = Coord
    Reader = {r1}
    Caller = {Coord, r1}
    Slave = {s1, s2}
    Key = {k1}
    Value = {v1, big}
    Oversized = {big}
    Connections = 2
    SlowNetwork = FALSE
    TornFlush = FALSE
    Replicas <- MCReplicas1
    CacheSet <- MCCacheSet1
    MaxFaults = 1
    MaxTxns = 2
INVARIANT
    ReplicasAgree
