SPECIFICATION FetchSpec
CONSTANTS
    d1 = d1
    d2 = d2
    r1 = r1
    r2 = r2
    r3 = r3
    m1 = m1
    m2 = m2
    u = u1
    u1 = u1
    u2 = u2
    u3 = u3
    n1 = n1
    n2 = n2
    in = in
    out = out
    none = none
    DeviceIp = {d1}
    RemoteIp = {r1, r2, r3}
    AnyIp = AnyIp
    Mac = {m1}
    Url = {u1, u2, u3}
    NoUrl = NoUrl
    NoEvent = NoEvent
    NoMudFile = NoMudFile
    Domain = {n1, n2}
    AclName = {in, out, none}
    Answers <- SameAnswer
    SystemRules <- OneSystemRule
    Redirects <- NoRules
    Pattern <- ExactPattern
    MaxRules = 10
    FailRoom = 4
    MudFiles <- VersionFiles
    Events <- ManyUrls
    NoFailOnMudValidation = FALSE
    Faults = {"fetch", "json", "kill", "reboot"}
    NoExt = NoExt
    P7s = "p7s"
    Parts <- ThreeUrls
    Stem <- Stems
    Published <- Versions
    ErrorPage = ErrorPage
    NoContent = NoContent
INVARIANTS
    FetchTypeOK
    ParsedIsGenuine
PROPERTIES
    ImplementsMudManager
    UnservedHasCause
