SPECIFICATION DaemonsSpec
CONSTANTS
    Daemons = {"adc", "fan", "hwmon", "psu", "external", "plx", "leak", "nvme", "exitair",
               "ipmb", "mcu", "satellite", "smbpbi", "dleak"}
    Objects = {"vdd", "cpuvdd"}
    NeedsCpu = {"cpuvdd"}
    EndsWith <- CpuVddHasVdd
    MaxEvents = 2
    MaxScans = 2
    MaxInventoryDataSize = 200
    Instances = {0, 32}
    MaxVersion = 2
    MaxOutstanding = 2
    Configured <- JumperAndGpu
    MaxChanges = 3
    Retries = 2
    ErrorThreshold = 2
    MaxWrites = 2
    MaxShmEvents = 1
    MaxPolicyEvents = 3
    MaxVoltageEvents = 3
    MaxLineEvents = 5
    MaxChassisEvents = 5
    TotalPSU = 4
    RedundantPSU = 3
    SufficientPSU = 1
    MaxSupplyEvents = 5
    Sockets = {1, 2}
    MaxUploads = 3
    MaxInfoEvents = 3
    Drives = {1, 2}
    DriveErrors = 2
    ScanDelayTicks = 2
    MaxDriveEvents = 3
    MiErrors = 2
    MaxFailures = 2
    ErrorTicks = 2
    StatusTicks = 2
    MaxDiscoveries = 2
    MaxMiEvents = 3
    PingThreshold = 2
    MaxPings = 2
    MaxHealthEvents = 3
    PoolStarts = {8, 9}
    PoolSize = 2
    PoolIndex = 1
    MaxPoolEvents = 8
    MaxAttempts = 2
    MaxBeatEvents = 4
    RecoveryThreshold = 2
    MaxNews = 2
    MaxUsbEvents = 4
    Cpus = {1, 2}
    MaxCpuEvents = 2
    MaxGadgetEvents = 4
    IpmbFormats = {"nineBit", "tenBit", "linearElevenBit"}
    Words = {255, 256, 1024, 32769, 65535}
    MaxIpmbEvents = 3
    Cables = {"left"}
    MaxCableEvents = 4
    WriteTimeout <- Timeouts
    MaxExternalWrites = 4
    ForwardedPorts = 2
    MaxSessions = 1
    MaxForwardEvents = 6
    FanNames = {"front", "rear"}
    AllowedFailures = 1
    MaxFanEvents = 3
INVARIANTS
    DaemonsTypeOK
    ShownIsTrue
    EndpointsAreWatched
    ServiceGoesOn
    StoreSurvives
PROPERTIES
    OnlySignalledChange
    ShutdownsAreDue
    DaemonsSettle
CHECK_DEADLOCK FALSE
