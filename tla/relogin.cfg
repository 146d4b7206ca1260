SPECIFICATION Spec
CONSTANTS
    r1 = r1
    r2 = r2
    a1 = a1
    a2 = a2
    c1 = c1
    c2 = c2
    ann = ann
    bob = bob
    secret = secret
    Empty = Empty
    None = None
    Connections = {c1, c2}
    Channels <- TwoChannels
    Requests = {r1}
    Names = {ann, bob}
    Passwords = {secret}
    Addresses = {a1, a2}
    Profiles <- Loaded
    Dynamic <- Image
    Callers <- FirstOnly
    Fragile <- FirstOnly
    Bodies <- PasswordOnly
    Overlapping <- PasswordOnly
INVARIANTS
    ReloginWorks
CHECK_DEADLOCK FALSE
