SPECIFICATION SensorsSpec
CONSTANTS
    Readings = {1, 4, 5, 9}
    Thresholds = {5}
    NaN = NaN
    Broken = Broken
    Hysteresis = 2
    Publish = 1
    ErrorThreshold = 2
    MaxDelays = 2
    MaxSignals = 3
    MaxWrites = 2
    failure1 = failure1
    failure2 = failure2
    fan = fan
    Failure = Failure
    FanFault = FanFault
    Paths = {failure1, failure2, fan}
    Events = {Failure, FanFault}
    WarnAfter = 2
    MaxChanges = 5
PROPERTY AssertedIsShown
CHECK_DEADLOCK FALSE
