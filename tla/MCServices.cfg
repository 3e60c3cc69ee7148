CONSTANTS
    ann = ann
    bob = bob
    cho = cho
    nobody = nobody
    name1 = name1
    name2 = name2
    red = red
    blue = blue
    pass1 = pass1
    pass2 = pass2
    kr = kr
    jp = jp
    k1 = k1
    k2 = k2
    None = None
    Users = {ann, bob, cho}
    ClanNames = {name1}
    Tags = {red, blue}
    HiddenUsers = {cho}
    Staff = {bob}
    ClanCommands = {k1, k2}
    Founder = ann
    Joined = {bob, cho}
    MaxClanCommands = 2
    Others = {bob}
    Hidden = {}
    Edits = {k1, k2}
    MaxEdits = 2
    MaxMessages = 2
    Ids = {ann, bob}
    AccountNames = {name1, name2}
    Passwords = {pass1, pass2}
    First = ann
    FirstName = name1
    FirstPassword = pass1
    AccountRequests = {k1, k2}
    MaxAccountRequests = 4
    Countries = {kr, jp}
    Home = kr
    Jobs = {k1, k2}
    MaxJobs = 2
    PoolNames = {name1}
    Maps = {1, 2, 3}
    Picks = {1, 2}
    PageSize = 1
    PoolCommands = {k1, k2}
    MaxPoolCommands = 4
    People = {ann, bob}
    Moderators = {bob}
    Anonymous = nobody
    BestOnMap = ann
    Requests = {k1}
    MaxRequests = 1
    MaxChanges = 2

SPECIFICATION Spec
INVARIANT TypeOK
INVARIANT ClansSound
INVARIANT ReadWasShown
INVARIANT SerialRowsHonoured
INVARIANT AccountsSound
INVARIANT SerialStanding
INVARIANT SerialPools
INVARIANT AnswersRespectVisibility
CHECK_DEADLOCK FALSE
