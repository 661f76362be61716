SPECIFICATION Spec
CONSTANTS
    None = None
    Missing = Missing
    Conflict = Conflict
    Names = {n1, n2}
    Cases = {lower, Title}
    Texts = {t}
    CookieNames = {c}
    Domains = {NoDomain, d}
    Paths = {Root, p}
    NoDomain = NoDomain
    Root = Root
    Empty = Empty
    v1 = v1
    n1 = n1
    n2 = n2
    lower = lower
    Title = Title
    Keys <- MCKeys
    CookieTexts = {Empty, v1}
    OtherJars <- MCOtherJars
INVARIANTS
    TypeOK
    HeadersMerged
    DictLike
PROPERTIES
    HeadersAreAMap
    RaisingChangesNothing
