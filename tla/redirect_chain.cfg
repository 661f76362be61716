SPECIFICATION Spec
CONSTANTS
    None = None
    Expired = Expired
    Off = Off
    a = a
    b = b
    c1 = c1
    c2 = c2
    p1 = p1
    p2 = p2
    Hosts = {a, b}
    Schemes = {"http", "https", "gopher"}
    Mounted = {"http", "https"}
    CookieValues = {c1, c2}
    Proxies = {p1, p2}
    AuthProxies = {p2}
    TrustEnv = TRUE
    NoProxy = {b}
    EnvProxies <- MCEnvProxies
    SessionProxies <- MCNoProxies
    NetrcHosts = {b}
    MaxRedirects = 2
    Calls <- MCCalls
    SessionJars <- MCJars
    Replies <- MCReplies
INVARIANTS
    TypeOK
    RedirectLimit
    HistoryComplete
    CredentialsStayHome
    CookiesFollow
    EnvironmentProxyUsed
    NextAgrees
    ConnectionsReturned
    BodyFollows
    FramingMatchesBody
    TellableBodyWhole
PROPERTIES
    SessionCookiesFromServers
    Termination
