CONSTANTS
    ann = ann
    bob = bob
    map = map
    low = low
    high = high
    other = other
    r1 = r1
    r2 = r2
    r3 = r3
    r4 = r4
    None = None
    Players <- MCPlayers
    Maps <- MCMaps
    Plays <- MCPlays
    Requests <- MCRequests
    PlayOf <- MCPlayOf
    PlayerOf <- MCPlayerOf
    MapOf <- MCMapOf
    Passed <- MCPassed
    Pp <- MCPp
    Points <- MCPoints

SPECIFICATION FairSpec
INVARIANT OneRowPerPlay
INVARIANT OneBest
INVARIANT SerialBestIsHighest
INVARIANT SerialCountersExact
PROPERTY RequestsEnd
CHECK_DEADLOCK FALSE
