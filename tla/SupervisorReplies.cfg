SPECIFICATION DaemonSpec
CONSTANTS
    MaxVersion = 3
    MaxRequests = 4
    MaxFaults = 3
    work = work
    home = home
    Profiles = {work, home}
    MaxChanges = 0
    QueueCap = 1
    Parts = {"supervisor"}
    Requests = {"enable", "disable", "restart"}
    Faults = {"reconcile"}
INVARIANTS
    RepliesAreTrue
CHECK_DEADLOCK FALSE
