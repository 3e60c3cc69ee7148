CONSTANTS
    ann = ann
    bob = bob
    cho = cho
    p1 = p1
    p2 = p2
    k1 = k1
    k2 = k2
    map1 = map1
    None = None
    Ids = {ann, bob, cho}
    Hosts = {bob}
    MaxLogins <- MCMaxLogins
    MaxSessions = 3
    Public = {"#lobby"}
    Slots = {1, 2}
    Players = {p1, p2}
    Awards = {k1, k2}
    MaxRounds = 2
    MatchPlayers = {p1, p2}
    Mods = {"HD", "DT"}
    SpeedMods = {"DT"}
    Maps = {map1}
    Pools = {1}
    PickOf <- MCPickOf
    Jobs = {k1, k2}
    ClientSends <- MCClientSends
    ServerSends <- MCServerSends
    NumSlots = 2
    MaxPackets = 2
    MaxReplies = 1
    Bids = {1, 2}
    MaxVersion = 2
    Tasks = {k1, k2}
    MaxTasks = 4
    MaxChanges = 2
    MaxChecks = 2

SPECIFICATION Spec
INVARIANT TypeOK
INVARIANT ChannelsAgree
INVARIANT ScrimSound
INVARIANT FreemodsSplit
INVARIANT PacketsArrive
INVARIANT SerialMapsAgree
CHECK_DEADLOCK FALSE
