SPECIFICATION Spec
CONSTANTS
    d1 = d1
    d2 = d2
    r1 = r1
    r2 = r2
    DeviceIp = {d1, d2}
    RemoteIp = {r1, r2}
    AnyIp = AnyIp
    SystemRules <- NoRules
    MaxRules = 10
    Redirects <- NoRules
    Pattern <- ExactPattern
    InitialConfigs <- ShortConfigs
INVARIANTS
    TypeOK
    RemainingLines
    RemovesAll
    KeepsOthers
CHECK_DEADLOCK FALSE
