SPECIFICATION Spec
CONSTANTS
    d1 = d1
    d2 = d2
    r1 = r1
    r2 = r2
    r3 = r3
    m1 = m1
    m2 = m2
    u = u
    n1 = n1
    n2 = n2
    in = in
    out = out
    none = none
    DeviceIp = {d1, d2}
    RemoteIp = {r1, r2, r3}
    AnyIp = AnyIp
    Mac = {m1, m2}
    Url = {u}
    NoUrl = NoUrl
    NoEvent = NoEvent
    NoMudFile = NoMudFile
    Domain = {n1, n2}
    AclName = {in, out, none}
    Answers <- OneAnswer
    SystemRules <- OneSystemRule
    Redirects <- NoRules
    Pattern <- ExactPattern
    MaxRules = 10
    FailRoom = 4
    MudFiles <- OneFile
    Events <- ComeAndGo
    NoFailOnMudValidation = TRUE
    Faults = {"fetch", "create", "append", "remove", "json", "reboot"}
INVARIANTS
    AllOrNothing
    TransactionClosed
