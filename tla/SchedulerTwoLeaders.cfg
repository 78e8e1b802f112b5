CONSTANTS
    Procs = {p1, p2}
    Desks = {p2}
    None = None
    Orphan = Orphan
    MaxFalls = 1
    MaxClock = 1
    MaxChanges = 0
SPECIFICATION Spec
INVARIANT OneLeader
