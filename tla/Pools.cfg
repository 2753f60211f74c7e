SPECIFICATION LiveSpec
CONSTANTS
    Tasks = {t1, t2, t3}
    Rounds = {1, 2, 3}
    None = 0
    MaxCalls = 3
    Users = {u1, u2, u3}
    Conns = {c1, c2, c3}
    NoConn = NoConn
    Keys = {k1, k2}
    MapUsers = {m1, m2, m3}
    MaxPools = 3
INVARIANTS PoolSafe CacheSafe MapSafe
PROPERTIES CallsEnd
