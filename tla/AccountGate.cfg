CONSTANTS
    Keys = {k1, k2}
    Callers = {c1, c2, c3}
    Objects = {g1, g2, g3}
    Nobody = Nobody
SPECIFICATION FairSpec
INVARIANT GatesAreCounted
PROPERTIES MutexSpec GateIsReached
