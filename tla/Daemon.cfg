SPECIFICATION DaemonSpec
CONSTANTS
    MaxVersion = 3
    MaxRequests = 4
    MaxFaults = 3
    work = work
    home = home
    Profiles = {work, home}
    MaxChanges = 0
    QueueCap = 1
    Parts = {"update", "supervisor"}
    Requests = {"add", "enable", "disable", "restart", "patch", "remove", "up", "down", "policy"}
    Faults = {"reconcile", "start", "watch", "crash"}
SYMMETRY ProfileSymmetry
INVARIANTS
    SafeToRestart
    RestartIsScheduled
    SettledPlan
    RuntimesMatchDesired
PROPERTIES
    NeverDowngrades
    OptOutIsHonoured
    WithdrawnBeforeStop
CHECK_DEADLOCK FALSE
