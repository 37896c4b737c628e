SPECIFICATION LiveSpec
CONSTANTS
    work = work
    home = home
    t1 = t1
    t2 = t2
    b1 = b1
    b2 = b2
    None = None
    Profiles = {work}
    Tuns = {t1, t2}
    Buffers = {b1, b2}
    QueueCap = 1
    BatchSize = 2
    SupProfiles = {work, home}
    Requests = {"add", "enable", "restart", "patch", "up", "policy"}
    Faults = {"crash"}
    MaxChanges = 2
    MaxVersion = 2
    MaxRequests = 3
    MaxFaults = 2
INVARIANTS
    PacketsOwned
    TunClosesLast
PROPERTIES
    QueuesGiveWay
    ChangesArePublished
    UpdatesArrive
CHECK_DEADLOCK FALSE
