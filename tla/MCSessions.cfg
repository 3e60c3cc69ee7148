CONSTANTS
    ann = ann
    bob = bob
    a1 = a1
    a2 = a2
    b1 = b1
    Empty = Empty
    None = None
    Users <- MCUsers
    Sessions <- MCSessions
    UserOf <- MCUserOf

SPECIFICATION FairSpec
INVARIANT TypeOK
INVARIANT IndexesResolve
INVARIANT SerialLoginsAreFindable
PROPERTY GhostsLeave
