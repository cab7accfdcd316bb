SPECIFICATION CacheFairSpec
CONSTANTS
    Replicas = {s1, s2}
    Readers = {r1, r2}
    Writers = {w1}
    MaxRow = 4
INVARIANTS CacheTypeOK StaleNeedsCause
PROPERTIES OldAnswerNeedsCause StalenessEnds
