SPECIFICATION Spec
CONSTANTS
    d1 = d1
    d2 = d2
    r1 = r1
    r2 = r2
    DeviceIp = {d1, d2}
    RemoteIp = {r1, r2}
    AnyIp = AnyIp
    SystemRules <- NoRules
    MaxRules = 11
    Redirects <- NoRules
    Pattern <- ExactPattern
    InitialConfigs <- ElevenRules
INVARIANT RemovesAll
CHECK_DEADLOCK FALSE
