CONSTANTS
    ann = ann
    bob = bob
    a1 = a1
    a2 = a2
    b1 = b1
    m1 = m1
    m2 = m2
    None = None
    Users <- MCUsers
    Sessions <- MCSessions
    UserOf <- MCUserOf
    Staff <- MCStaff
    Donors <- MCDonors
    MatchIds <- MCMatchIds
    Matches <- MCMatches
    Slots <- MCSlots

SPECIFICATION Spec
INVARIANT FreeSlotIsUnoccupied
