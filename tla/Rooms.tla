------------------------------- MODULE Rooms --------------------------------
(***************************************************************************)
(* Who sits where in the multiplayer rooms: the registry of matches, the   *)
(* slots of every match, its host, referees and chat, and each player's    *)
(* pointer to the match it is in.  The two ends of the relation (slot.player*)
(* and player.match) are separate attributes that every handler updates by *)
(* hand; most handlers assert that they agree.                             *)
(*                                                                         *)
(* No handler of this module awaits between reading and writing, so each   *)
(* is one action.  A handler that raises keeps what it had already         *)
(* assigned: where a ValueError (Match.host with no such player) or an     *)
(* AssertionError (no slot found) can stop one half way, the action says   *)
(* which assignments were made.                                            *)
(*                                                                         *)
(* A session is one Player object, as in Sessions.  The statuses not_ready,*)
(* ready, no_map, playing and complete are one value here, "taken": Round  *)
(* tells them apart.                                                       *)
(***************************************************************************)
EXTENDS Naturals

CONSTANTS Users,      \* accounts
          Sessions,   \* Player objects
          UserOf,     \* the account of a Player object
          Staff,      \* accounts with the tournament manager and admin privileges
          Donors,     \* accounts whose clients may follow a match they do not play
          MatchIds,   \* the indices of the global match list
          Matches,    \* Match objects
          Slots,      \* the indices of a match's slots
          None        \* Python's None

ASSUME RoomsAssumption ==
    /\ UserOf \in [Sessions -> Users]
    /\ Staff \subseteq Users
    /\ Donors \subseteq Users
    /\ MatchIds \subseteq Nat
    /\ Slots \subseteq Nat
    /\ 0 \in Slots
    /\ None \notin Sessions \cup Users \cup Matches

VARIABLES
    online,    \* the Player objects in the list of players
    issued,    \* the objects a token resolves to: a logout does not remove it
    byId,      \* Players._by_id
    registry,  \* the list of matches
    host,      \* Match.host_id
    referees,  \* Match.referees
    chat,      \* the players of the match's chat channel
    listed,    \* the matches whose chat is in the list of channels
    tourney,   \* Match.tourney_clients
    stuck,     \* the objects with a channel of their own list they are not in
    status,    \* Slot.status
    occupant,  \* Slot.player
    matchOf    \* Player.match

playerVars == <<online, issued, byId>>
chatVars == <<chat, listed, tourney, stuck>>
roomVars == <<registry, host, referees, chatVars, status, occupant, matchOf>>
vars == <<online, issued, byId, registry, host, referees, chat, listed, tourney,
          stuck, status, occupant, matchOf>>

Status == {"open", "locked", "taken"}

-----------------------------------------------------------------------------
(* Match.host, get_slot, get_free and friends *)

\* Match.host, which raises ValueError where this is None.
HostOf(m) == byId[host[m]]
IsHost(s, m) == HostOf(m) = s

First(K) == CHOOSE k \in K : \A j \in K : k <= j
SeatsOf(s, m) == {k \in Slots : occupant[m][k] = s}

\* Mutant: get_free takes any slot that is not locked.
OpenUnlessLocked(m) == {k \in Slots : status[m][k] # "locked"}

OpenSlots(m) == {k \in Slots : status[m][k] = "open"}
FreeIds == {i \in MatchIds : registry[i] = None}

\* Whether s is in a match, and get_slot finds its slot there.
Seated(s) == matchOf[s] # None /\ SeatsOf(s, matchOf[s]) # {}

\* What ensure_match requires of a command typed in the match's chat.  The
\* set of referees is computed with the host, so it raises without one.
MayCommand(s, m) ==
    /\ matchOf[s] = m
    /\ m # None
    /\ s \in chat[m]
    /\ HostOf(m) # None
    /\ s \in referees[m] \/ IsHost(s, m) \/ UserOf[s] \in Staff

Init ==
    /\ online = {}
    /\ issued = {}
    /\ byId = [u \in Users |-> None]
    /\ registry = [i \in MatchIds |-> None]
    /\ host = [m \in Matches |-> None]
    /\ referees = [m \in Matches |-> {}]
    /\ chat = [m \in Matches |-> {}]
    /\ listed = {}
    /\ tourney = [m \in Matches |-> {}]
    /\ stuck = {}
    /\ status = [m \in Matches |-> [k \in Slots |-> "open"]]
    /\ occupant = [m \in Matches |-> [k \in Slots |-> None]]
    /\ matchOf = [s \in Sessions |-> None]

-----------------------------------------------------------------------------
(* Entering and leaving a match *)

\* The end of a login.  Sessions says when a second object of an account may
\* enter the table while another one is in it.
Login(s) ==
    /\ s \notin issued
    /\ online' = online \cup {s}
    /\ issued' = issued \cup {s}
    /\ byId' = [byId EXCEPT ![UserOf[s]] = s]
    /\ UNCHANGED roomVars

\* The last part of Player.join_match: the slot is overwritten whatever it held.
Sit(s, m, k) ==
    /\ chat' = [chat EXCEPT ![m] = @ \cup {s}]
    /\ status' = [status EXCEPT ![m][k] = "taken"]
    /\ occupant' = [occupant EXCEPT ![m][k] = s]
    /\ matchOf' = [matchOf EXCEPT ![s] = m]
    /\ UNCHANGED <<listed, tourney, stuck>>

\* A Match object nobody refers to, and nobody refers to its chat.  Python
\* would allocate a new one.
Unused(m) ==
    /\ \A i \in MatchIds : registry[i] # m
    /\ \A s \in Sessions : matchOf[s] # m
    /\ m \notin listed
    /\ chat[m] = {}

\* MatchCreate registers the new match and lists its chat, then lets the player join it.  The
\* player joins slot 0 if it is found under its own id.  Nothing is undone if
\* it cannot join: it is in a match, its own id is not found, or another object
\* is found under the id and the password test against the stripped password
\* fails.
CreateMatch(s, m) ==
    /\ s \in issued
    /\ FreeIds # {}
    /\ Unused(m)
    /\ registry' = [registry EXCEPT ![First(FreeIds)] = m]
    /\ host' = [host EXCEPT ![m] = UserOf[s]]
    /\ referees' = [referees EXCEPT ![m] = {}]
    /\ listed' = listed \cup {m}
    /\ tourney' = [tourney EXCEPT ![m] = {}]
    /\ UNCHANGED stuck
    /\ \/ /\ matchOf[s] = None
          /\ byId[UserOf[s]] # None
          /\ chat' = [chat EXCEPT ![m] = {s}]
          /\ status' = [status EXCEPT ![m] =
                          [k \in Slots |-> IF k = 0 THEN "taken" ELSE "open"]]
          /\ occupant' = [occupant EXCEPT ![m] =
                          [k \in Slots |-> IF k = 0 THEN s ELSE None]]
          /\ matchOf' = [matchOf EXCEPT ![s] = m]
       \/ /\ matchOf[s] # None \/ byId[UserOf[s]] # s
          /\ chat' = [chat EXCEPT ![m] = {}]
          /\ status' = [status EXCEPT ![m] = [k \in Slots |-> "open"]]
          /\ occupant' = [occupant EXCEPT ![m] = [k \in Slots |-> None]]
          /\ UNCHANGED matchOf
    /\ UNCHANGED playerVars

\* Mutant: join_match without the test for a match the player is already in.
JoinFromMatch(s, m) ==
    /\ UserOf[s] \notin tourney[m]
    /\ HostOf(m) # None
    /\ s \notin chat[m]
    /\ IF IsHost(s, m)
         THEN Sit(s, m, 0)
         ELSE OpenSlots(m) # {} /\ Sit(s, m, First(OpenSlots(m)))
    /\ UNCHANGED <<playerVars, registry, host, referees>>

\* Player.join_match for an existing match: a player that is the host goes to
\* slot 0, the others to the first open slot.  A wrong password, a full match,
\* a missing host, a player that is in a match and one that is in this chat
\* already (by name or as a tournament client) change nothing.
JoinMatch(s, m) ==
    /\ matchOf[s] = None
    /\ UserOf[s] \notin tourney[m]
    /\ HostOf(m) # None
    /\ s \notin chat[m]
    /\ IF IsHost(s, m)
         THEN Sit(s, m, 0)
         ELSE OpenSlots(m) # {} /\ Sit(s, m, First(OpenSlots(m)))
    /\ UNCHANGED <<playerVars, registry, host, referees>>

MatchJoin(s, i) ==
    /\ s \in issued
    /\ registry[i] # None
    /\ JoinMatch(s, registry[i])

\* !mp force, typed by s, makes the player found under account u join.
MpForce(s, u) ==
    /\ s \in issued
    /\ MayCommand(s, matchOf[s])
    /\ UserOf[s] \in Staff
    /\ byId[u] # None
    /\ JoinMatch(byId[u], matchOf[s])

\* Player.leave_channel for the chats of the matches M, where s is in them:
\* Channel.remove takes the player out and, with the last one, the chat off the
\* list.  It raises ValueError if the chat is not listed any more, before the
\* player's own list of channels is updated.
ChatsOf(s) == {m \in Matches : s \in chat[m]}
ChatFails(s, m) == chat[m] = {s} /\ m \notin listed

LeaveChats(s, M) ==
    /\ chat' = [m \in Matches |-> IF m \in M THEN chat[m] \ {s} ELSE chat[m]]
    /\ listed' = listed \ {m \in M : chat[m] = {s}}
    /\ stuck' = IF \E m \in M : ChatFails(s, m) THEN stuck \cup {s} ELSE stuck

\* Player.leave_match as far as the room: the slot is vacated (and stays locked
\* if it was), the chat left, an empty match removed from the list, the host
\* passed to the first player still seated.  LeaveReturns is false where leaving
\* the chat or Match.host raises on the way, after which the player keeps its
\* match pointer; a chat that raises leaves the match and its host untouched.
Vacated(s, m) ==
    [occupant[m] EXCEPT ![First(SeatsOf(s, m))] = None]

\* Mutant: nobody inherits the host.
NoHeir(s, m) == host[m]

Heir(s, m) ==
    LET left == {k \in Slots : Vacated(s, m)[k] # None} IN
    IF IsHost(s, m) THEN UserOf[Vacated(s, m)[First(left)]] ELSE host[m]

\* Mutant: the match is removed when its host leaves.
DesertedByHost(s, m) == IsHost(s, m)

Deserted(s, m) == \A k \in Slots : Vacated(s, m)[k] = None
LeaveReturns(s, m) ==
    /\ ~ChatFails(s, m)
    /\ Deserted(s, m) \/ (HostOf(m) # None /\ byId[Heir(s, m)] # None)

LeaveRoom(s) ==
    LET m == matchOf[s]
        k == First(SeatsOf(s, m))
        empty == Deserted(s, m)
    IN
    /\ Seated(s)
    /\ occupant' = [occupant EXCEPT ![m] = Vacated(s, m)]
    /\ status' = [status EXCEPT ![m][k] = IF @ = "locked" THEN "locked" ELSE "open"]
    /\ registry' = [i \in MatchIds |->
                      IF empty /\ ~ChatFails(s, m) /\ registry[i] = m THEN None
                      ELSE registry[i]]
    /\ host' = [host EXCEPT ![m] = IF empty \/ ChatFails(s, m) THEN @ ELSE Heir(s, m)]
    /\ referees' = [referees EXCEPT ![m] =
                      IF LeaveReturns(s, m) /\ ~empty THEN @ \ {s} ELSE @]
    /\ matchOf' = [matchOf EXCEPT ![s] = IF LeaveReturns(s, m) THEN None ELSE @]
    /\ UNCHANGED tourney

\* Mutant: the chat is not left.
PartButListen(s) ==
    /\ s \in issued
    /\ LeaveRoom(s)
    /\ UNCHANGED <<playerVars, chat, listed, stuck>>

\* MatchPart, and a silence, which also takes the player out of its match.
MatchPart(s) ==
    /\ s \in issued
    /\ LeaveRoom(s)
    /\ LeaveChats(s, {matchOf[s]})
    /\ UNCHANGED playerVars

\* Player.logout: leave the match, then the channels one by one, then the table.
\* What raises on the way stops it: leaving the match, or a chat that is not
\* listed any more, in whichever order the chats were joined.  (A player whose
\* slot is not found raises before anything of this module is assigned.  With a
\* channel it is not in, "while self.channels" does not end: that logout, which
\* the server does not survive, is not an action.)
LeaveRaises(s) == Seated(s) /\ ~LeaveReturns(s, matchOf[s])

LogoutStops(s) ==
    /\ \/ LeaveRaises(s) /\ LeaveChats(s, {matchOf[s]})
       \/ /\ ~LeaveRaises(s)
          /\ \E M \in SUBSET ChatsOf(s), f \in Matches :
               /\ {m \in M : ChatFails(s, m)} = {f}
               /\ {m \in ChatsOf(s) : m = matchOf[s]} \subseteq M
               /\ LeaveChats(s, M)
    /\ UNCHANGED playerVars

LogoutEnds(s) ==
    /\ s \notin stuck
    /\ ~LeaveRaises(s)
    /\ \A m \in Matches : ~ChatFails(s, m)
    /\ LeaveChats(s, Matches)
    /\ online' = online \ {s}
    /\ byId' = IF s \in online THEN [byId EXCEPT ![UserOf[s]] = None] ELSE byId
    /\ UNCHANGED issued

Logout(s) ==
    /\ s \in issued
    /\ \/ LeaveRoom(s)
       \/ /\ matchOf[s] = None
          /\ UNCHANGED <<registry, host, referees, tourney, status, occupant, matchOf>>
    /\ LogoutStops(s) \/ LogoutEnds(s)

-----------------------------------------------------------------------------
(* The match's chat, entered and left without the match *)

EnterChat(s, m) ==
    /\ s \in issued
    /\ s \notin chat[m]
    /\ chat' = [chat EXCEPT ![m] = @ \cup {s}]
    /\ UNCHANGED <<playerVars, registry, host, referees, listed, stuck, status,
                   occupant, matchOf>>

QuitChat(s, m) ==
    /\ s \in issued
    /\ s \in chat[m]
    /\ LeaveChats(s, {m})
    /\ UNCHANGED <<playerVars, registry, host, referees, status, occupant, matchOf>>

\* ChannelJoin and ChannelPart of "#multi_N".  Of several listed chats with one
\* name (a match that ended is survived by its chat while someone is in it) the
\* code finds the first; here it may be any.
ChannelJoin(s, m) == m \in listed /\ EnterChat(s, m) /\ UNCHANGED tourney
ChannelPart(s, m) == m \in listed /\ QuitChat(s, m) /\ UNCHANGED tourney

\* TourneyMatchJoinChannel: a client that follows the match without a slot in
\* it.  The account is compared, not the object.
TourneyJoin(s, m) ==
    /\ UserOf[s] \in Donors
    /\ \A k \in Slots : occupant[m][k] # None => UserOf[occupant[m][k]] # UserOf[s]
    /\ EnterChat(s, m)
    /\ tourney' = [tourney EXCEPT ![m] = @ \cup {UserOf[s]}]

\* TourneyMatchLeaveChannel.  The account is not taken out if leaving the chat
\* raises, and is taken out if the object was not in the chat.
TourneyLeave(s, m) ==
    /\ UserOf[s] \in Donors \cap tourney[m]
    /\ tourney' = [tourney EXCEPT ![m] = IF ChatFails(s, m) THEN @ ELSE @ \ {UserOf[s]}]
    /\ \/ QuitChat(s, m)
       \/ /\ s \in issued
          /\ s \notin chat[m]
          /\ UNCHANGED <<playerVars, registry, host, referees, chat, listed, stuck,
                         status, occupant, matchOf>>

-----------------------------------------------------------------------------
(* Slots *)

\* Mutant: the old slot is not reset.
ChangeKeepingOld(s, k) ==
    LET m == matchOf[s]
        old == First(SeatsOf(s, m))
    IN
    /\ s \in issued
    /\ Seated(s)
    /\ status[m][k] = "open"
    /\ occupant' = [occupant EXCEPT ![m][k] = s]
    /\ status' = [status EXCEPT ![m][k] = status[m][old]]
    /\ UNCHANGED <<playerVars, registry, host, referees, chatVars, matchOf>>

\* Mutant: the status is not copied.
ChangeWithoutStatus(s, k) ==
    LET m == matchOf[s]
        old == First(SeatsOf(s, m))
    IN
    /\ s \in issued
    /\ Seated(s)
    /\ status[m][k] = "open"
    /\ occupant' = [occupant EXCEPT ![m] = [[@ EXCEPT ![k] = s] EXCEPT ![old] = None]]
    /\ status' = [status EXCEPT ![m][old] = "open"]
    /\ UNCHANGED <<playerVars, registry, host, referees, chatVars, matchOf>>

\* MatchChangeSlot copies the player's slot to an open one and resets the old.
MatchChangeSlot(s, k) ==
    LET m == matchOf[s]
        old == First(SeatsOf(s, m))
    IN
    /\ s \in issued
    /\ Seated(s)
    /\ status[m][k] = "open"
    /\ occupant' = [occupant EXCEPT ![m] = [[@ EXCEPT ![k] = s] EXCEPT ![old] = None]]
    /\ status' = [status EXCEPT ![m] =
                    [[@ EXCEPT ![k] = status[m][old]] EXCEPT ![old] = "open"]]
    /\ UNCHANGED <<playerVars, registry, host, referees, chatVars, matchOf>>

\* MatchReady, MatchNotReady, MatchNoBeatmap, MatchHasBeatmap and MatchComplete
\* overwrite the status of the player's slot, a locked one too.
ReportStatus(s) ==
    /\ s \in issued
    /\ Seated(s)
    /\ status' = [status EXCEPT ![matchOf[s]][First(SeatsOf(s, matchOf[s]))] = "taken"]
    /\ UNCHANGED <<playerVars, registry, host, referees, chatVars, occupant, matchOf>>

\* Mutant: locking a slot also empties it, the player's pointer is left alone.
LockAndEmpty(s, k) ==
    LET m == matchOf[s] IN
    /\ s \in issued
    /\ m # None
    /\ IsHost(s, m)
    /\ \/ status[m][k] = "locked" /\ status' = [status EXCEPT ![m][k] = "open"]
       \/ /\ status[m][k] # "locked"
          /\ occupant[m][k] # s
          /\ status' = [status EXCEPT ![m][k] = "locked"]
    /\ occupant' = [occupant EXCEPT ![m][k] = None]
    /\ UNCHANGED <<playerVars, registry, host, referees, chatVars, matchOf>>

\* MatchLock toggles a slot.  Locking one with a player in it is how the client
\* kicks: the slot keeps the player until the player's client leaves.
MatchLock(s, k) ==
    LET m == matchOf[s] IN
    /\ s \in issued
    /\ m # None
    /\ IsHost(s, m)
    /\ \/ status[m][k] = "locked" /\ status' = [status EXCEPT ![m][k] = "open"]
       \/ /\ status[m][k] # "locked"
          /\ occupant[m][k] # s
          /\ status' = [status EXCEPT ![m][k] = "locked"]
    /\ UNCHANGED <<playerVars, registry, host, referees, chatVars, occupant, matchOf>>

\* !mp lock and !mp unlock.
SetAllSlots(s, from, to) ==
    LET m == matchOf[s] IN
    /\ s \in issued
    /\ MayCommand(s, m)
    /\ status' = [status EXCEPT ![m] =
                    [k \in Slots |-> IF status[m][k] = from THEN to ELSE status[m][k]]]
    /\ UNCHANGED <<playerVars, registry, host, referees, chatVars, occupant, matchOf>>
MpLock(s) == SetAllSlots(s, "open", "locked")
MpUnlock(s) == SetAllSlots(s, "locked", "open")

\* Mutant: empty slots are put in play too.
StartAll(s) ==
    LET m == matchOf[s] IN
    /\ s \in issued
    /\ m # None
    /\ IsHost(s, m) \/ MayCommand(s, m) \/ Seated(s)
    /\ status' = [status EXCEPT ![m] =
                    [k \in Slots |-> IF status[m][k] = "open" THEN "taken" ELSE status[m][k]]]
    /\ UNCHANGED <<playerVars, registry, host, referees, chatVars, occupant, matchOf>>

\* Match.start, by the host, by !mp start, or by the timer of an earlier !mp
\* start N, which only looks whether s is still seated.
Start(s) ==
    LET m == matchOf[s] IN
    /\ s \in issued
    /\ m # None
    /\ IsHost(s, m) \/ MayCommand(s, m) \/ Seated(s)
    /\ status' = [status EXCEPT ![m] =
                    [k \in Slots |->
                       IF occupant[m][k] # None THEN "taken" ELSE status[m][k]]]
    /\ UNCHANGED <<playerVars, registry, host, referees, chatVars, occupant, matchOf>>

-----------------------------------------------------------------------------
(* Host and referees *)

Appoint(m, u) ==
    /\ host' = [host EXCEPT ![m] = u]
    /\ UNCHANGED <<playerVars, registry, referees, chatVars, status, occupant, matchOf>>

MatchTransferHost(s, k) ==
    LET m == matchOf[s] IN
    /\ s \in issued
    /\ m # None
    /\ IsHost(s, m)
    /\ occupant[m][k] # None
    /\ Appoint(m, UserOf[occupant[m][k]])

\* Mutant: any connected player will do.
PlaysAnywhere(u, m) == byId[u] # None

\* The player found under account u has a slot in m.
Plays(u, m) == byId[u] # None /\ SeatsOf(byId[u], m) # {}

\* Mutant: !mp host does not look for the player's slot.
MpHostAnyone(s, u) ==
    /\ s \in issued
    /\ MayCommand(s, matchOf[s])
    /\ byId[u] # None
    /\ Appoint(matchOf[s], u)

MpHost(s, u) ==
    /\ s \in issued
    /\ MayCommand(s, matchOf[s])
    /\ Plays(u, matchOf[s])
    /\ Appoint(matchOf[s], u)

ChangeReferees(m, new) ==
    /\ referees' = [referees EXCEPT ![m] = new]
    /\ UNCHANGED <<playerVars, registry, host, chatVars, status, occupant, matchOf>>

MpAddRef(s, u) ==
    LET m == matchOf[s] IN
    /\ s \in issued
    /\ MayCommand(s, m)
    /\ Plays(u, m)
    /\ ~IsHost(byId[u], m)
    /\ ChangeReferees(m, referees[m] \cup {byId[u]})

MpRmRef(s, u) ==
    LET m == matchOf[s] IN
    /\ s \in issued
    /\ MayCommand(s, m)
    /\ byId[u] \in referees[m]
    /\ ~IsHost(byId[u], m)
    /\ ChangeReferees(m, referees[m] \ {byId[u]})

-----------------------------------------------------------------------------
(* What a session may send.  The whole of it is Next; Civil leaves out what  *)
(* the game's own client never sends.                                        *)

InRoom(s) ==
    \/ MatchPart(s)
    \/ ReportStatus(s)
    \/ MpLock(s)
    \/ Start(s)
    \/ \E k \in Slots : MatchChangeSlot(s, k) \/ MatchTransferHost(s, k)
    \/ \E u \in Users : MpHost(s, u) \/ MpAddRef(s, u) \/ MpRmRef(s, u) \/ MpForce(s, u)

Follow(s) ==
    \E i \in MatchIds :
      registry[i] # None /\ (TourneyJoin(s, registry[i]) \/ TourneyLeave(s, registry[i]))

Next ==
    \E s \in Sessions :
      \/ Login(s)
      \/ Logout(s)
      \/ \E m \in Matches : CreateMatch(s, m)
      \/ \E i \in MatchIds : MatchJoin(s, i)
      \/ \E m \in Matches : ChannelJoin(s, m) \/ ChannelPart(s, m)
      \/ \E k \in Slots : MatchLock(s, k)
      \/ MpUnlock(s)
      \/ InRoom(s)
      \/ Follow(s)

Spec == Init /\ [][Next]_vars

\* A client that logged out is silent; an account logs in again only when it is
\* not in the table; a client in a match does not create or join one; a slot
\* that a kicked player has not left yet is not unlocked; and no client names
\* "#multi_N": the server calls that chat "#multiplayer" to the clients, a name
\* get_by_name does not find.
Kicked(m) == {k \in Slots : status[m][k] = "locked" /\ occupant[m][k] # None}

Patient(s, K) == matchOf[s] # None => Kicked(matchOf[s]) \cap K = {}

CivilNext ==
    \E s \in Sessions :
      \/ byId[UserOf[s]] = None /\ Login(s)
      \/ /\ s \in online
         /\ \/ Logout(s)
            \/ \E m \in Matches : matchOf[s] = None /\ CreateMatch(s, m)
            \/ \E i \in MatchIds : matchOf[s] = None /\ MatchJoin(s, i)
            \/ \E k \in Slots : Patient(s, {k}) /\ MatchLock(s, k)
            \/ Patient(s, Slots) /\ MpUnlock(s)
            \/ InRoom(s)
            \/ Follow(s)

CivilSpec == Init /\ [][CivilNext]_vars

-----------------------------------------------------------------------------
(* Properties of Spec: whatever the clients send *)

Registered(m) == \E i \in MatchIds : registry[i] = m

\* The variables hold what the Python attributes can hold.
TypeOK ==
    /\ online \in SUBSET Sessions
    /\ issued \in SUBSET Sessions
    /\ byId \in [Users -> Sessions \cup {None}]
    /\ registry \in [MatchIds -> Matches \cup {None}]
    /\ host \in [Matches -> Users \cup {None}]
    /\ referees \in [Matches -> SUBSET Sessions]
    /\ chat \in [Matches -> SUBSET Sessions]
    /\ listed \in SUBSET Matches
    /\ tourney \in [Matches -> SUBSET Users]
    /\ stuck \in SUBSET Sessions
    /\ status \in [Matches -> [Slots -> Status]]
    /\ occupant \in [Matches -> [Slots -> Sessions \cup {None}]]
    /\ matchOf \in [Sessions -> Matches \cup {None}]

\* A slot whose status says it has a player has one: write_match asserts it
\* while it serialises the match for everybody in it.
TakenHasPlayer ==
    \A m \in Matches, k \in Slots : status[m][k] = "taken" => occupant[m][k] # None

\* The two ends agree: a player in a slot points at that match.
SeatPointsBack ==
    \A m \in Matches, k \in Slots :
      occupant[m][k] # None => matchOf[occupant[m][k]] = m

\* A player has at most one slot, over all matches: a slot vacated by
\* leave_match, which resets the first one it finds, was the only one.
OneSeat ==
    \A m, n \in Matches, j, k \in Slots :
      (occupant[m][j] # None /\ occupant[m][j] = occupant[n][k]) => m = n /\ j = k

\* A listed match is listed once, and its referees are players that have not
\* left it.
RegistrySound ==
    /\ \A i, j \in MatchIds : registry[i] # None /\ registry[i] = registry[j] => i = j
    /\ \A m \in Matches : Registered(m) => \A s \in referees[m] : matchOf[s] = m

\* An index of the list is given up only by a match that has just become empty,
\* and never passes directly from one match to another.
RemovedWhenEmpty ==
    [][\A i \in MatchIds :
         registry[i] \notin {None, registry'[i]} =>
           registry'[i] = None /\ \A k \in Slots : occupant'[registry[i]][k] = None]_vars

\* However a listed match changes hands - the host's packet, !mp host, the host
\* leaving - the new host has a slot in it.
NewHostIsSeated ==
    [][\A m \in Matches :
         Registered(m) /\ host'[m] # host[m] =>
           \E k \in Slots : occupant'[m][k] # None /\ UserOf[occupant'[m][k]] = host'[m]]_vars

-----------------------------------------------------------------------------
(* Properties of CivilSpec: what the client's good manners buy *)

\* A player that points at a match has a slot in it, so none of the handlers'
\* "assert slot is not None" fails, and leave_match and logout complete.
MatchMeansSeat == \A s \in Sessions : matchOf[s] # None => Seated(s)

\* "Return the first unoccupied slot in multi, if any." (Match.get_free)
FreeSlotIsUnoccupied ==
    \A m \in Matches :
      Registered(m) /\ OpenSlots(m) # {} => occupant[m][First(OpenSlots(m))] = None

\* A listed match has its host seated and connected ("should always exist",
\* MatchChangeSettings), and a match with a player in it is listed.
HostIsSeated ==
    \A m \in Matches :
      /\ Registered(m) => HostOf(m) \in online /\ SeatsOf(HostOf(m), m) # {}
      /\ (\E k \in Slots : occupant[m][k] # None) => Registered(m)

\* Who has a slot is in the chat, which is how the match's packets reach it; who
\* is in the chat has not left the match or follows it as a tournament client;
\* and a chat with somebody in it is listed, so leaving it does not raise, and
\* every logout ends.
SeatedHears ==
    /\ \A m \in Matches :
         /\ \A k \in Slots : occupant[m][k] # None => occupant[m][k] \in chat[m]
         /\ \A s \in chat[m] : matchOf[s] = m \/ UserOf[s] \in tourney[m]
         /\ chat[m] # {} => m \in listed
    /\ stuck = {}

\* Nobody is displaced: a slot with a player is emptied before another gets it.
NoTakeover ==
    [][\A m \in Matches, k \in Slots :
         occupant[m][k] # None => occupant'[m][k] \in {None, occupant[m][k]}]_vars
=============================================================================
