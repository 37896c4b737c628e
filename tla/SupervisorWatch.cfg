SPECIFICATION SupervisorSpec
CONSTANTS
    MaxVersion = 3
    MaxRequests = 4
    MaxFaults = 3
    work = work
    home = home
    Profiles = {work, home}
    MaxChanges = 1
    QueueCap = 2
    Parts = {"supervisor"}
    Requests = {"policy"}
    Faults = {"watch"}
PROPERTIES
    ChangesArePublished
CHECK_DEADLOCK FALSE
