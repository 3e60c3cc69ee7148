CONSTANTS
    ann = ann
    bob = bob
    cat = cat
    None = None
    Players <- MCPlayers
    Slots <- MCSlots

SPECIFICATION CivilSpec
PROPERTY BeginTogether
