SPECIFICATION ControlSpec
CONSTANTS
    Profiles <- MCProfiles
    CLI <- MCCLI
    MaxWorlds = 3
    MaxClock = 3
    Workers = 2
    Requests = 4
    Node = {1, 2}
    MaxLoad = 2
    Bounds <- MCBounds
    SpiralWindow = 3
    AccelWindow = 2
    Stretch = 1
    Sigma = 2
    MinMonotonicRun = 2
    RoleChangeWindow = 1
    MinSamples = 3
    Slack = 1
INVARIANTS
    RunIsTruthful
    NoWorldOnALeak
    SleeperHasAWaker
    TelemetryIsHonest
PROPERTIES
    BatchReturns
    SamplerStops
CHECK_DEADLOCK FALSE
