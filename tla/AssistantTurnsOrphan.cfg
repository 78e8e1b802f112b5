CONSTANTS
    c1 = c1
    c2 = c2
    u1 = u1
    u2 = u2
    None = None
    Convs = {c1}
    Turns = {1, 2}
    Actions = {1}
    Msgs = {m1, m2}
    Users = {u1}
    UserOf <- MCUserOf
    GlobalLimit = 3
    UserLimit = 2
    MaxMessages = 2
    MaxIterations = 1
SPECIFICATION FairSpec
PROPERTY OrphanedTurnEnds
