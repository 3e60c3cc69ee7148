-------------------------------- MODULE Clans --------------------------------
(***************************************************************************)
(* Clans: the rows of the tables clans and users, the copy of its clan     *)
(* that a player in game carries, and the chat commands that change them.  *)
(*                                                                         *)
(* A command awaits every query; other commands and logins run between     *)
(* two of its steps, so an action ends where the service awaits.  A        *)
(* transaction shows when it commits, in one step; the copies in memory    *)
(* are written by a later step, when the commit has been answered.         *)
(***************************************************************************)
EXTENDS Naturals, FiniteSets, NoneValue

CONSTANTS Users, ClanNames, Tags,
          HiddenUsers,      \* restricted or unverified users: no commands, not listed
          Staff,            \* may disband the clans of others
          ClanCommands,     \* commands that run at once
          Founder, Joined,  \* the owner and the members of the clan there is
          MaxClanCommands   \* bound: commands that are run, and ids they give out

ASSUME ClansAssumption ==
    /\ HiddenUsers \subseteq Users /\ Staff \subseteq Users \ HiddenUsers
    /\ Founder \in Users \ Joined /\ Joined \subseteq Users
    /\ ClanNames # {} /\ Tags # {}
    /\ MaxClanCommands \in Nat
    /\ None \notin Nat \cup [name : ClanNames, tag : Tags, owner : Users]

VARIABLES
    clans,            \* the rows of the table by id; ids are not given out again
    lastId,           \* its AUTO_INCREMENT
    users,            \* users.clan_id and users.clan_priv
    connection,       \* "off", "login" (row read, not in the list yet) or "on"
    copy,             \* Player.clan_id and Player.clan_priv
    running,          \* the commands that are being handled
    commandsStarted,  \* counts the commands
    crossed           \* history: two commands, or a command and a login, were open at once

clansVars == <<clans, lastId, users, connection, copy, running, commandsStarted, crossed>>

Member == 1
Officer == 2
Owner == 3

ClanIds == 1..MaxClanCommands + 1
Unaffiliated == [clan |-> None, priv |-> 0]
Affiliations == [clan : ClanIds \cup {None}, priv : 0..3]
NoCommand == [at |-> "idle"]
OpenCommands == {k \in ClanCommands : running[k] # NoCommand}

\* A clan founded by one user that another has joined: rows an administrator
\* wrote, as no command lets a player join.
ClansInit ==
    LET first == [name |-> CHOOSE n \in ClanNames : TRUE,
                  tag |-> CHOOSE t \in Tags : TRUE, owner |-> Founder]
    IN
      /\ clans = [c \in ClanIds |-> IF c = 1 THEN first ELSE None]
      /\ lastId = 1
      /\ users = [u \in Users |-> IF u = Founder THEN [clan |-> 1, priv |-> Owner]
                                  ELSE IF u \in Joined THEN [clan |-> 1, priv |-> Member]
                                  ELSE Unaffiliated]
      /\ connection = [u \in Users |-> "off"]
      /\ copy = [u \in Users |-> Unaffiliated]
      /\ running = [k \in ClanCommands |-> NoCommand]
      /\ commandsStarted = 0
      /\ crossed = FALSE

-----------------------------------------------------------------------------
(* The repositories *)

\* ClansRepository.fetch_one, by id, and whether one is found by name or tag.
Clan(c) == IF c = None THEN None ELSE clans[c]
NameTaken(n) == \E c \in ClanIds : clans[c] # None /\ clans[c].name = n
TagTaken(t) == \E c \in ClanIds : clans[c] # None /\ clans[c].tag = t

\* Mutant: hidden members are left out.
FetchListed(c, includeHidden) == {u \in Users \ HiddenUsers : users[u].clan = c}

\* UsersRepository.fetch_many(clan_id=c, include_hidden=...)
FetchMembers(c, includeHidden) ==
    {u \in Users : users[u].clan = c /\ (includeHidden \/ u \notin HiddenUsers)}

\* can_view_player(viewer=v, target=t)
CanViewPlayer(v, t) == t \notin HiddenUsers \/ v = t \/ v \in Staff

\* ClansRepository.create: the indexes on name, tag and owner are unique (the
\* first in migrations/base.sql, though not in the table the repository declares).
InsertFails(name, tag, owner) ==
    \/ NameTaken(name) \/ TagTaken(tag)
    \/ \E c \in ClanIds : clans[c] # None /\ clans[c].owner = owner

\* UsersRepository.partial_update of every user of a set.
Affiliate(S, a) == users' = [u \in Users |-> IF u \in S THEN a ELSE users[u]]

-----------------------------------------------------------------------------
(* Logging in and out *)

\* Players.get_sql: the row is copied; the player is appended some awaits later.
BeginLogin(u) ==
    /\ connection[u] = "off"
    /\ connection' = [connection EXCEPT ![u] = "login"]
    /\ copy' = [copy EXCEPT ![u] = users[u]]
    /\ crossed' = (crossed \/ OpenCommands # {})
    /\ UNCHANGED <<clans, lastId, users, running, commandsStarted>>

FinishLogin(u) ==
    /\ connection[u] = "login"
    /\ connection' = [connection EXCEPT ![u] = "on"]
    /\ UNCHANGED <<clans, lastId, users, copy, running, commandsStarted, crossed>>

EndSession(u) ==
    /\ connection[u] # "off"
    /\ connection' = [connection EXCEPT ![u] = "off"]
    /\ copy' = [copy EXCEPT ![u] = Unaffiliated]
    /\ UNCHANGED <<clans, lastId, users, running, commandsStarted, crossed>>

\* _sync_online_clan_state, of every user of a set: only who is in the list.
Sync(S, a) ==
    copy' = [u \in Users |-> IF u \in S /\ connection[u] = "on" THEN a ELSE copy[u]]

-----------------------------------------------------------------------------
(* Commands *)

\* process_commands: a player in game with the privileges runs a command.
Run(k, u, job) ==
    /\ running[k] = NoCommand
    /\ commandsStarted < MaxClanCommands /\ commandsStarted' = commandsStarted + 1
    /\ connection[u] = "on" /\ u \notin HiddenUsers
    /\ running' = [running EXCEPT ![k] = job]
    /\ crossed' = (crossed \/ OpenCommands # {} \/ \E v \in Users : connection[v] = "login")
    /\ UNCHANGED <<clans, lastId, users, connection, copy>>

Become(k, job) == running' = [running EXCEPT ![k] = job]
Answer(k) == Become(k, NoCommand)
CommandAt(k, at) == running[k].at = at
StepTo(k, at) == Become(k, [running[k] EXCEPT !.at = at])
Queried == UNCHANGED <<clans, lastId, users, connection, copy, commandsStarted, crossed>>

Create(k, u, tag, name) ==
    Run(k, u, [at |-> "create player", by |-> u, tag |-> tag, name |-> name, clan |-> None])

Disband(k, u) ==
    /\ copy[u].clan # None
    /\ Run(k, u, [at |-> "disband find", by |-> u, clan |-> copy[u].clan, found |-> {}])

DisbandByTag(k, u, tag) ==
    /\ u \in Staff
    /\ \E c \in ClanIds :
         /\ clans[c] # None /\ clans[c].tag = tag
         /\ Run(k, u, [at |-> "disband clan", by |-> u, clan |-> c, found |-> {}])

LeaveClan(k, u) == Run(k, u, [at |-> "leave player", by |-> u, clan |-> None, found |-> {}])

Transfer(k, u, target) ==
    Run(k, u, [at |-> "transfer player", by |-> u, to |-> target, clan |-> None])

\* create_clan: the player, the clan it is in, the name, the tag.
CreatePlayer(k) ==
    /\ CommandAt(k, "create player")
    /\ IF users[running[k].by].clan = None THEN StepTo(k, "create name")
       ELSE Become(k, [running[k] EXCEPT !.at = "create current",
                                          !.clan = users[running[k].by].clan])
    /\ Queried

CreateCurrent(k) ==
    /\ CommandAt(k, "create current")
    /\ IF Clan(running[k].clan) # None THEN Answer(k) ELSE StepTo(k, "create name")
    /\ Queried

CreateName(k) ==
    /\ CommandAt(k, "create name")
    /\ IF NameTaken(running[k].name) THEN Answer(k) ELSE StepTo(k, "create tag")
    /\ Queried

CreateTag(k) ==
    /\ CommandAt(k, "create tag")
    /\ IF TagTaken(running[k].tag) THEN Answer(k) ELSE StepTo(k, "create commit")
    /\ Queried

CreateCommit(k) ==
    LET u == running[k].by IN
    /\ CommandAt(k, "create commit")
    /\ \/ /\ InsertFails(running[k].name, running[k].tag, u)
          /\ Answer(k) /\ Queried
       \/ /\ ~InsertFails(running[k].name, running[k].tag, u)
          /\ lastId' = lastId + 1 /\ lastId' \in ClanIds
          /\ clans' = [clans EXCEPT ![lastId'] =
                         [name |-> running[k].name, tag |-> running[k].tag, owner |-> u]]
          /\ Affiliate({u}, [clan |-> lastId', priv |-> Owner])
          /\ Become(k, [running[k] EXCEPT !.at = "create sync", !.clan = lastId'])
          /\ UNCHANGED <<connection, copy, commandsStarted, crossed>>

CreateSync(k) ==
    /\ CommandAt(k, "create sync")
    /\ Sync({running[k].by}, [clan |-> running[k].clan, priv |-> Owner])
    /\ Answer(k)
    /\ UNCHANGED <<clans, lastId, users, connection, commandsStarted, crossed>>

\* clan_disband looks for the clan, disband_clan looks for it again; the
\* assertion that it finds it fails if it was disbanded in between.
DisbandFind(k) ==
    /\ CommandAt(k, "disband find")
    /\ IF Clan(running[k].clan) = None THEN Answer(k) ELSE StepTo(k, "disband clan")
    /\ Queried

DisbandClan(k) ==
    /\ CommandAt(k, "disband clan")
    /\ IF Clan(running[k].clan) = None THEN Answer(k) ELSE StepTo(k, "disband members")
    /\ Queried

DisbandMembers(k) ==
    /\ CommandAt(k, "disband members")
    /\ Become(k, [running[k] EXCEPT !.at = "disband commit",
                                     !.found = FetchMembers(running[k].clan, TRUE)])
    /\ Queried

DisbandCommit(k) ==
    /\ CommandAt(k, "disband commit")
    /\ clans' = [clans EXCEPT ![running[k].clan] = None]
    /\ Affiliate(running[k].found, Unaffiliated)
    /\ StepTo(k, "disband sync")
    /\ UNCHANGED <<lastId, connection, copy, commandsStarted, crossed>>

DisbandSync(k) ==
    /\ CommandAt(k, "disband sync")
    /\ Sync(running[k].found, Unaffiliated)
    /\ Answer(k)
    /\ UNCHANGED <<clans, lastId, users, connection, commandsStarted, crossed>>

\* leave_clan
LeavePlayer(k) ==
    LET row == users[running[k].by] IN
    /\ CommandAt(k, "leave player")
    /\ IF row.clan = None \/ row.priv = Owner THEN Answer(k)
       ELSE Become(k, [running[k] EXCEPT !.at = "leave clan", !.clan = row.clan])
    /\ Queried

LeaveFind(k) ==
    /\ CommandAt(k, "leave clan")
    /\ IF Clan(running[k].clan) = None THEN Answer(k) ELSE StepTo(k, "leave members")
    /\ Queried

LeaveMembers(k) ==
    /\ CommandAt(k, "leave members")
    /\ Become(k, [running[k] EXCEPT !.at = "leave commit",
                    !.found = FetchMembers(running[k].clan, TRUE) \ {running[k].by}])
    /\ Queried

LeaveCommit(k) ==
    /\ CommandAt(k, "leave commit")
    /\ Affiliate({running[k].by}, Unaffiliated)
    /\ clans' = IF running[k].found = {} THEN [clans EXCEPT ![running[k].clan] = None] ELSE clans
    /\ StepTo(k, "leave sync")
    /\ UNCHANGED <<lastId, connection, copy, commandsStarted, crossed>>

LeaveSync(k) ==
    /\ CommandAt(k, "leave sync")
    /\ Sync({running[k].by}, Unaffiliated)
    /\ Answer(k)
    /\ UNCHANGED <<clans, lastId, users, connection, commandsStarted, crossed>>

\* transfer_clan_ownership
TransferPlayer(k) ==
    LET row == users[running[k].by] IN
    /\ CommandAt(k, "transfer player")
    /\ IF row.clan = None \/ row.priv # Owner THEN Answer(k)
       ELSE Become(k, [running[k] EXCEPT !.at = "transfer clan", !.clan = row.clan])
    /\ Queried

TransferFind(k) ==
    /\ CommandAt(k, "transfer clan")
    /\ IF Clan(running[k].clan) = None THEN Answer(k) ELSE StepTo(k, "transfer target")
    /\ Queried

TransferTarget(k) ==
    LET u == running[k].by
        v == running[k].to
    IN
    /\ CommandAt(k, "transfer target")
    /\ IF users[v].clan = running[k].clan /\ CanViewPlayer(u, v) /\ v # u
       THEN StepTo(k, "transfer commit") ELSE Answer(k)
    /\ Queried

\* The indexes on owner are unique: the update of a clan fails if the target
\* owns another by now.
TransferCommit(k) ==
    LET u == running[k].by
        v == running[k].to
        c == running[k].clan
    IN
    /\ CommandAt(k, "transfer commit")
    /\ IF clans[c] # None /\ \E d \in ClanIds \ {c} : clans[d] # None /\ clans[d].owner = v
       THEN Answer(k) /\ Queried
       ELSE /\ clans' = IF clans[c] = None THEN clans ELSE [clans EXCEPT ![c].owner = v]
            /\ users' = [users EXCEPT ![v].priv = Owner, ![u].priv = Officer]
            /\ StepTo(k, "transfer sync")
            /\ UNCHANGED <<lastId, connection, copy, commandsStarted, crossed>>

TransferSync(k) ==
    /\ CommandAt(k, "transfer sync")
    /\ copy' = [u \in Users |->
                  IF connection[u] = "on" /\ u \in {running[k].by, running[k].to}
                  THEN [clan |-> running[k].clan,
                        priv |-> IF u = running[k].to THEN Owner ELSE Officer]
                  ELSE copy[u]]
    /\ Answer(k)
    /\ UNCHANGED <<clans, lastId, users, connection, commandsStarted, crossed>>

-----------------------------------------------------------------------------
ProceedCommand(k) ==
    \/ CreatePlayer(k) \/ CreateCurrent(k) \/ CreateName(k) \/ CreateTag(k)
    \/ CreateCommit(k) \/ CreateSync(k)
    \/ DisbandFind(k) \/ DisbandClan(k) \/ DisbandMembers(k) \/ DisbandCommit(k) \/ DisbandSync(k)
    \/ LeavePlayer(k) \/ LeaveFind(k) \/ LeaveMembers(k) \/ LeaveCommit(k) \/ LeaveSync(k)
    \/ TransferPlayer(k) \/ TransferFind(k) \/ TransferTarget(k)
    \/ TransferCommit(k) \/ TransferSync(k)

Command(k, u) ==
    \/ \E tag \in Tags, name \in ClanNames : Create(k, u, tag, name)
    \/ Disband(k, u)
    \/ \E tag \in Tags : DisbandByTag(k, u, tag)
    \/ LeaveClan(k, u)
    \/ \E v \in Users : Transfer(k, u, v)

ClansNext ==
    \/ \E u \in Users : BeginLogin(u) \/ FinishLogin(u) \/ EndSession(u)
    \/ \E k \in ClanCommands, u \in Users : Command(k, u)
    \/ \E k \in ClanCommands : ProceedCommand(k)

ClansSpec == ClansInit /\ [][ClansNext]_clansVars

-----------------------------------------------------------------------------
(* Properties *)

ClansTypeOK ==
    /\ clans \in [ClanIds -> [name : ClanNames, tag : Tags, owner : Users] \cup {None}]
    /\ lastId \in ClanIds
    /\ users \in [Users -> Affiliations]
    /\ connection \in [Users -> {"off", "login", "on"}]
    /\ copy \in [Users -> Affiliations]
    /\ \A k \in OpenCommands : running[k].by \in Users /\ running[k].clan \in ClanIds \cup {None}
    /\ commandsStarted \in 0..MaxClanCommands
    /\ crossed \in BOOLEAN

\* However commands interleave, nobody's row names a clan that is gone:
\* who is in a clan when its members are fetched is everybody who will be in it
\* when it is deleted, hidden members included (disband_clan, leave_clan).
MembersHaveClan == \A u \in Users : users[u].clan # None => clans[users[u].clan] # None

\* While commands and logins have not overlapped and none is open, a clan has one
\* owner, who is in it, its name is its own, and the players in game carry
\* what their rows say.
SerialClansSound ==
    ~crossed /\ OpenCommands = {} =>
      /\ \A c \in ClanIds : clans[c] # None =>
           /\ {u \in Users : users[u] = [clan |-> c, priv |-> Owner]} = {clans[c].owner}
           /\ \A d \in ClanIds \ {c} : clans[d] # None => clans[d].name # clans[c].name
      /\ \A u \in Users : connection[u] # "off" => copy[u] = users[u]

\* The commands of clans, interleaved and one by one.
ClansSound == MembersHaveClan /\ SerialClansSound
=============================================================================
