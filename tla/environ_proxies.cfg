SPECIFICATION Spec
CONSTANTS
    None = None
    Off = Off
    a = a
    b = b
    p1 = p1
    p2 = p2
    open = open
    off = off
    t1 = t1
    t2 = t2
    Hosts = {a, b}
    Schemes = {"http"}
    Proxies = {p1, p2}
    AuthProxies = {}
    TrustEnv = TRUE
    NoProxy <- MCUpperNoProxy
    EnvProxies <- MCEnvProxies
    SessionProxies <- MCSessionProxies
    Threads = {t1, t2}
    Dicts = {open, off}
    Given <- MCGiven
    NoProxyOf <- MCNoProxyOf
    LowerNoProxy = None
    UpperNoProxy <- MCUpperNoProxy
    MaxCalls = 2
    Octets = 2
    OctetBits = 2
    Letters <- MCLetters
    NoSlash = NoSlash
    Colon = Colon
    LittleEndian = TRUE
    Netloc <- MCNetloc
    x = x
    y = y
    port = port
INVARIANTS
    TypeOK
    NothingLeftBehind
    AsIfAlone
    ArgumentProtects
    OwnersChoiceKept
    NetworksMatch
CHECK_DEADLOCK FALSE
