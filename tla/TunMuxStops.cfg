SPECIFICATION Spec
CONSTANTS
    None = None
    Profiles = {work, home}
    Tuns = {t1, t2}
    Buffers = {b1, b2}
    QueueCap = 1
    BatchSize = 2
INVARIANTS
    StopsAreIsolated
CHECK_DEADLOCK FALSE
