CONSTANTS
    c1 = c1
    c2 = c2
    c3 = c3
    c4 = c4
    t1 = t1
    t2 = t2
    t3 = t3
    NoConnection = NoConnection
    Connections = {c1, c2, c3, c4}
    Tokens = {t1, t2, t3}
    AcceptedTokens = {t1, t2}
    MaxClientId = 3
    ReconnectWindow = 2
SYMMETRY Symmetry
SPECIFICATION HSpec
INVARIANTS
    DirectoryConsistent
    NonceIndexConsistent
    NoLeakedLink
    PlayersAreAttached
PROPERTIES
    IdentityStable
    ImplementsDirectory
    WindowKeptAfterLinkLoss
    ExpiredNotResumed
