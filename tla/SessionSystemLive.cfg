CONSTANTS
    p1 = p1
    p2 = p2
    c1 = c1
    c2 = c2
    c3 = c3
    t1 = t1
    t2 = t2
    NoConnection = NoConnection
    Nobody = Nobody
    Clients = {p1, p2}
    Connections = {c1, c2, c3}
    Numbering <- Three
    Tokens = {t1, t2}
    AcceptedTokens = {t1}
    TokenOf <- OwnToken
    ReconnectWindow = 1
    MaxClientId = 3
    MaxAttempts = 2
    InitialDelay = 1
    MaxDelay = 2
    Multiplier = 2
    MaxFaults = 1
    MaxCrashes = 0
SPECIFICATION FairSpec
PROPERTIES
    Converges
