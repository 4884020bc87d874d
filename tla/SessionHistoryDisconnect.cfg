CONSTANTS
    c1 = c1
    c2 = c2
    c3 = c3
    c4 = c4
    t1 = t1
    t2 = t2
    t3 = t3
    NoConnection = NoConnection
    Tokens = {t1}
    AcceptedTokens = {}
    MaxClientId = 2
    Connections = {c1, c2, c3}
    ReconnectWindow = 1
SPECIFICATION HSpec
PROPERTY WindowKeptAfterDisconnect
