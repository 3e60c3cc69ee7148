CONSTANTS
    ann = ann
    bob = bob
    cat = cat
    None = None
    Players <- MCPlayers
    Slots <- MCSlots

SPECIFICATION FairSpec
INVARIANT PlayingInProgress
INVARIANT FlagsInRound
INVARIANT TimerNeedsPlayers
PROPERTY ImplementsContract
PROPERTY RoundBegins
PROPERTY RoundEnds
