SPECIFICATION GpuSpec
CONSTANTS
    utilization = utilization
    violation = violation
    ecc = ecc
    Order <- ThreeCommands
    Unencoded = {ecc}
    Iids = {0, 1}
    NoJob = NoJob
    MaxJobs = 6
    Limits = {lo, hi}
    Unread = Unread
    NoLimit = NoLimit
    Caps = {low, high}
    Unset = Unset
    NoValue = NoValue
    MaxWrites = 3
    MaxPolls = 1
    MaxFailures = 1
    MaxQueued = 2
PROPERTY ClockReadBackOpensGate
CHECK_DEADLOCK FALSE
