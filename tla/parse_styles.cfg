SPECIFICATION FairSpec
CONSTANTS
    n1 = n1
    n2 = n2
    in = in
    out = out
    third = third
    Null = Null
    MaxPolicies = 2
    MaxAcls = 2
    MaxAces = 2
    DeviceIp = {}
    RemoteIp = {}
    AnyIp = AnyIp
    Pattern <- ExactPattern
    SystemRules <- NoRules
    Redirects <- NoRules
    MaxRules = 0
    Domain = {n1, n2}
    AclName = {in, out, third}
    MudFiles <- NoFiles
    Answers <- OneAnswer
    Documents <- AllDocuments
INVARIANTS
    TypeOK
    ParsedIsWritten
    StoresStayInside
PROPERTY FileIsParsed
CHECK_DEADLOCK FALSE
