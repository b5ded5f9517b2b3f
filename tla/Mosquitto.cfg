SPECIFICATION Spec
CONSTANTS
    None = None
    p1 = p1
    p2 = p2
    u1 = u1
    u2 = u2
    w1 = w1
    w2 = w2
    DefaultPort = p1
    Ports <- MCPorts
    Users <- MCUsers
    Passwords <- MCPasswords
SYMMETRY Sym
INVARIANTS
    BrokerFollowsTheFiles
    ListenerIsAsAsked
    UsersCanLogIn
