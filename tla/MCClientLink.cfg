CONSTANTS
    c1 = c1
    c2 = c2
    p1 = p1
    p2 = p2
    Tokens = {p1}
    AcceptedTokens = {}
    Clients = {p1}
    Connections = {c1, c2}
    NoConnection = NoConnection
    MaxAttempts = 4
    InitialDelay = 1
    MaxDelay = 5
    Multiplier = 2
    Nonces = {1, 2}
SPECIFICATION Spec
INVARIANTS
    NoForgottenLink
    AttemptBudget
PROPERTIES
    GivesUpOrConnects
