------------------------------ MODULE Channels ------------------------------
(***************************************************************************)
(* Chat channels and spectating: the list of channels, the players of each *)
(* channel and the channels of each player, and who watches whom.          *)
(*                                                                         *)
(* A handler runs to its end without waiting, and is one step.  A session  *)
(* is an object: the same account, logged in again, is another one, and    *)
(* whoever kept the former object still acts on it.  An account may have   *)
(* several in game, and the packets of one that logged out are handled     *)
(* like all others, as its token still resolves (Sessions).  The channels  *)
(* of matches are in Rooms; the await of SendMessage, in which a command   *)
(* may be run, is left out.                                                *)
(***************************************************************************)
EXTENDS Naturals, FiniteSets, NoneValue

CONSTANTS Ids,          \* accounts
          Hosts,        \* bound: those that somebody watches
          MaxLogins,    \* bound: sessions an account may have
          MaxSessions,  \* bound: sessions of all accounts
          Public        \* names of the channels of the database

Sessions == UNION {{i} \X (1..MaxLogins[i]) : i \in Ids}

ASSUME ChannelsAssumption ==
    /\ Hosts \subseteq Ids /\ 0 \notin Hosts
    /\ MaxLogins \in [Ids -> Nat \ {0}] /\ MaxSessions \in Nat
    /\ "#lobby" \in Public
    /\ None \notin Sessions

\* The channels of the database, and the instanced one of each account.
Lobby == <<"#lobby", 0>>
FromDatabase == Public \X {0}
SpecChannel(i) == <<"#spec", i>>
Instanced == {SpecChannel(i) : i \in Hosts}
AllChannels == Instanced \cup FromDatabase

VARIABLES
    logins,      \* counts the sessions of an account: the last one is the newest
    live,        \* Players: the sessions in game
    online,       \* Players._by_id: the session an account is online with
    restricted,  \* sessions without the privilege UNRESTRICTED
    inLobby,     \* Player.in_lobby
    chat,        \* players of a channel, channels of a player, Channels: those listed
    spectating,  \* Player.spectating
    spectators,  \* Player.spectators
    lingering,   \* history: sessions that joined or watched since they last logged out
    parted,      \* history: accounts whose channel was joined or left by name or
                 \* by another session of theirs, as a spectator
    apart        \* history: accounts whose channel may well be without them

channelsVars == <<logins, live, online, restricted, inLobby, chat, spectating, spectators,
                  lingering, parted, apart>>

Id(s) == s[1]

\* Player objects there have been: their tokens resolve for good.
Issued(s) == s[2] <= logins[Id(s)]

ChannelsInit ==
    /\ logins = [i \in Ids |-> 0]
    /\ live = {} /\ restricted = {} /\ inLobby = {}
    /\ online = [i \in Ids |-> None]
    /\ chat = [players |-> [c \in AllChannels |-> {}],
               channels |-> [s \in Sessions |-> {}],
               listed |-> FromDatabase]
    /\ spectating = [s \in Sessions |-> None]
    /\ spectators = [s \in Sessions |-> {}]
    /\ lingering = {} /\ parted = {} /\ apart = {}

-----------------------------------------------------------------------------
(* Player.join_channel, Player.leave_channel and Channel.remove *)

MayJoin(s, c, now) ==
    /\ s \notin now.players[c]
    /\ s \notin restricted
    /\ c = Lobby => s \in inLobby

JoinChat(s, c, now) ==
    IF MayJoin(s, c, now)
    THEN [now EXCEPT !.players[c] = @ \cup {s}, !.channels[s] = @ \cup {c}]
    ELSE now

List(c, now) == [now EXCEPT !.listed = @ \cup {c}]

\* The last one to leave an instanced channel takes it off the list.
Leave(s, c, now) ==
    IF s \in now.players[c]
    THEN [now EXCEPT !.players[c] = @ \ {s}, !.channels[s] = @ \ {c},
                     !.listed = IF c \in Instanced /\ now.players[c] = {s} THEN @ \ {c} ELSE @]
    ELSE now

\* The loop of logout.
LeaveAll(s, now) ==
    [players |-> [c \in AllChannels |-> IF c \in now.channels[s] THEN now.players[c] \ {s}
                                        ELSE now.players[c]],
     channels |-> [now.channels EXCEPT ![s] = {}],
     listed |-> {c \in now.listed :
                   ~(c \in now.channels[s] \cap Instanced /\ now.players[c] = {s})}]

\* What a session that is out of the list comes back for.
Lingers(s) == lingering' = IF s \in live THEN lingering ELSE lingering \cup {s}

ChannelJoin(s, c) ==
    /\ Issued(s)
    /\ c \in chat.listed /\ MayJoin(s, c, chat)
    /\ chat' = JoinChat(s, c, chat)
    /\ parted' = parted \cup {i \in Hosts : c = SpecChannel(i)}
    /\ apart' = apart \cup {i \in Hosts : c = SpecChannel(i)}
    /\ Lingers(s)
    /\ UNCHANGED <<logins, live, online, restricted, inLobby, spectating, spectators>>

ChannelPart(s, c) ==
    /\ Issued(s)
    /\ c \in chat.listed /\ s \in chat.players[c]
    /\ chat' = Leave(s, c, chat)
    /\ parted' = parted \cup {i \in Hosts : c = SpecChannel(i)}
    /\ apart' = apart \cup {i \in Hosts : c = SpecChannel(i)}
    /\ UNCHANGED <<logins, live, online, restricted, inLobby, spectating, spectators, lingering>>

LobbyJoin(s) ==
    /\ Issued(s) /\ s \notin restricted
    /\ inLobby' = inLobby \cup {s}
    /\ UNCHANGED <<logins, live, online, restricted, chat, spectating, spectators, lingering,
                   parted, apart>>

\* The channel #lobby is left by a packet of its own.
LobbyPart(s) ==
    /\ Issued(s) /\ s \notin restricted
    /\ inLobby' = inLobby \ {s}
    /\ UNCHANGED <<logins, live, online, restricted, chat, spectating, spectators, lingering,
                   parted, apart>>

-----------------------------------------------------------------------------
(* Spectating *)

\* Player.remove_spectator: the lists first, and then the channel, if the
\* assertion that there is one holds.
Asserts(host) == SpecChannel(Id(host)) \in chat.listed

ChatWithout(host, s, now) ==
    LET c == SpecChannel(Id(host))
        left == Leave(s, c, now)
    IN  IF spectators[host] = {s} THEN Leave(host, c, left) ELSE left

\* Player.add_spectator: a channel that is there is joined by the spectator
\* alone; whether the host is in it is not looked at.
ChatWith(host, s, now) ==
    LET c == SpecChannel(Id(host)) IN
    IF c \in now.listed THEN JoinChat(s, c, now)
    ELSE JoinChat(s, c, List(c, JoinChat(host, c, now)))

Admits(host, s, now) ==
    LET c == SpecChannel(Id(host)) IN
    MayJoin(s, c, IF c \in now.listed THEN now ELSE JoinChat(host, c, now))

\* StartSpectating, of a session that is found by its account: who watches
\* another leaves it first.
StartSpectating(s, host) ==
    LET former == spectating[s]
        free == IF former = None THEN chat ELSE ChatWithout(former, s, chat)
        c == SpecChannel(Id(host))
        without == [h \in Sessions |-> IF h = former THEN spectators[h] \ {s} ELSE spectators[h]]
    IN
    /\ Id(host) \in Hosts /\ online[Id(host)] = host
    /\ Issued(s) /\ s \notin restricted /\ former # host
    /\ former # None => Asserts(former)
    /\ chat' = ChatWith(host, s, free)
    /\ IF Admits(host, s, free)
       THEN /\ spectating' = [spectating EXCEPT ![s] = host]
            /\ spectators' = [without EXCEPT ![host] = @ \cup {s}]
       ELSE /\ spectating' = [spectating EXCEPT ![s] = None]
            /\ spectators' = without
    /\ parted' = IF Id(s) = Id(host) /\ s # host THEN parted \cup {Id(host)} ELSE parted
    /\ apart' = IF \/ c \notin free.listed /\ host \in restricted
                   \/ Id(s) = Id(host) /\ s # host
                THEN apart \cup {Id(host)} ELSE apart
    /\ Lingers(s)
    /\ UNCHANGED <<logins, live, online, restricted, inLobby>>

\* StopSpectating, and what a failing assertion leaves of it.
StopSpectating(s) ==
    LET host == spectating[s] IN
    /\ Issued(s) /\ s \notin restricted /\ host # None
    /\ chat' = IF Asserts(host) THEN ChatWithout(host, s, chat) ELSE chat
    /\ spectating' = [spectating EXCEPT ![s] = None]
    /\ spectators' = [spectators EXCEPT ![host] = @ \ {s}]
    /\ UNCHANGED <<logins, live, online, restricted, inLobby, lingering, parted, apart>>

\* The packet that starts to watch somebody else, if the assertion fails.
StartFails(s, host) ==
    /\ Id(host) \in Hosts /\ online[Id(host)] = host
    /\ Issued(s) /\ s \notin restricted
    /\ spectating[s] \notin {None, host} /\ ~Asserts(spectating[s])
    /\ spectators' = [spectators EXCEPT ![spectating[s]] = @ \ {s}]
    /\ spectating' = [spectating EXCEPT ![s] = None]
    /\ UNCHANGED <<logins, live, online, restricted, inLobby, chat, lingering, parted, apart>>

-----------------------------------------------------------------------------
(* Sessions *)

\* The end of a login, Players.append: that there was no other session was looked at
\* many awaits before, and not at all for a tournament client.
Login(i, hidden) ==
    /\ logins[i] < MaxLogins[i]
    /\ Cardinality({s \in Sessions : s[2] <= logins[Id(s)]}) < MaxSessions
    /\ logins' = [logins EXCEPT ![i] = @ + 1]
    /\ live' = live \cup {<<i, logins'[i]>>}
    /\ online' = [online EXCEPT ![i] = <<i, logins'[i]>>]
    /\ restricted' = IF hidden THEN restricted \cup {<<i, logins'[i]>>} ELSE restricted
    /\ apart' = IF \E s \in live : Id(s) = i THEN apart \cup {i} ELSE apart
    /\ UNCHANGED <<inLobby, chat, spectating, spectators, lingering, parted>>

\* restrict: the object first, the logout some awaits later.
RestrictPlayer(s) ==
    /\ Issued(s) /\ s \notin restricted
    /\ restricted' = restricted \cup {s}
    /\ UNCHANGED <<logins, live, online, inLobby, chat, spectating, spectators, lingering,
                   parted, apart>>

\* Players.remove: the entry of the account goes with any session of it that is in
\* the list; of one that is not, nothing is done.
RemovePlayer(s) ==
    /\ live' = live \ {s}
    /\ online' = IF s \in live THEN [online EXCEPT ![Id(s)] = None] ELSE online

\* Mutant: the one it watches is not told.
LogoutKeepsWatching(s) ==
    /\ Issued(s)
    /\ chat' = LeaveAll(s, chat)
    /\ RemovePlayer(s)
    /\ lingering' = lingering \ {s}
    /\ apart' = IF spectators[s] # {} THEN apart \cup {Id(s)} ELSE apart
    /\ UNCHANGED <<logins, restricted, inLobby, parted, spectating, spectators>>

\* Player.logout, also of who has logged out: those who watch the player are not told.
Logout(s) ==
    LET host == spectating[s] IN
    /\ Issued(s)
    /\ chat' = LeaveAll(s, IF host = None THEN chat ELSE ChatWithout(host, s, chat))
    /\ host # None => Asserts(host)
    /\ spectating' = [spectating EXCEPT ![s] = None]
    /\ spectators' = IF host = None THEN spectators ELSE [spectators EXCEPT ![host] = @ \ {s}]
    /\ RemovePlayer(s)
    /\ lingering' = lingering \ {s}
    /\ apart' = IF spectators[s] # {} THEN apart \cup {Id(s)} ELSE apart
    /\ UNCHANGED <<logins, restricted, inLobby, parted>>

\* A logout that the assertion ends: a player in game stays in the list.
LogoutFails(s) ==
    /\ Issued(s)
    /\ spectating[s] # None /\ ~Asserts(spectating[s])
    /\ spectators' = [spectators EXCEPT ![spectating[s]] = @ \ {s}]
    /\ spectating' = [spectating EXCEPT ![s] = None]
    /\ UNCHANGED <<logins, live, online, restricted, inLobby, chat, lingering, parted, apart>>

-----------------------------------------------------------------------------
ChannelsNext ==
    \/ \E i \in Ids, hidden \in BOOLEAN : Login(i, hidden)
    \/ \E s \in Sessions :
         \/ RestrictPlayer(s) \/ Logout(s) \/ LogoutFails(s) \/ StopSpectating(s)
         \/ LobbyJoin(s) \/ LobbyPart(s)
         \/ \E c \in AllChannels : ChannelJoin(s, c) \/ ChannelPart(s, c)
         \/ \E host \in Sessions : StartSpectating(s, host) \/ StartFails(s, host)

ChannelsSpec == ChannelsInit /\ [][ChannelsNext]_channelsVars

-----------------------------------------------------------------------------
(* Messages: what the state makes of them *)

\* SendMessage: the channel of the player that is watched, else the player's own.
Addressed(s, recipient) ==
    IF recipient # "#spectator" THEN recipient
    ELSE IF spectating[s] # None THEN SpecChannel(Id(spectating[s]))
    ELSE IF spectators[s] # {} THEN SpecChannel(Id(s))
    ELSE None

\* Channel.send, to all players but the sender.
Hears(s, recipient) ==
    LET c == Addressed(s, recipient) IN
    IF c \in chat.listed /\ s \in chat.players[c] THEN chat.players[c] \ {s} ELSE {}

-----------------------------------------------------------------------------
(* Properties *)

ChannelsTypeOK ==
    /\ \A i \in Ids : logins[i] \in 0..MaxLogins[i]
    /\ live \cup restricted \cup inLobby \cup lingering \subseteq Sessions
    /\ \A i \in Ids : online[i] # None => online[i] \in live /\ Id(online[i]) = i
    /\ chat.players \in [AllChannels -> SUBSET Sessions]
    /\ chat.channels \in [Sessions -> SUBSET AllChannels]
    /\ chat.listed \subseteq AllChannels /\ FromDatabase \subseteq chat.listed
    /\ spectating \in [Sessions -> Sessions \cup {None}]
    /\ spectators \in [Sessions -> SUBSET Sessions]
    /\ parted \cup apart \subseteq Ids

\* Both ends of a membership agree, so the loop of logout ends; nobody who has
\* logged out is in a channel, unless it joined or watched since with the token it
\* had; and a channel that is off the list is empty.
MembershipAgrees ==
    /\ \A s \in Sessions, c \in AllChannels :
         s \in chat.players[c] <=> c \in chat.channels[s]
    /\ \A c \in AllChannels :
         chat.players[c] \subseteq (IF c \in chat.listed THEN live \cup lingering ELSE {})

\* Both ends of spectating agree: a host lists exactly the sessions that watch it,
\* whatever assertion fails and however many sessions an account has; and nobody
\* watches who has logged out, unless it came back like that.
SpectatingAgrees ==
    \A s, h \in Sessions : (spectating[s] = h <=> s \in spectators[h])
                           /\ (spectating[s] = h => s \in live \cup lingering)

\* Unless somebody used the real name of the channel or watched another session of
\* its own account, who watches is in the channel of the host, so the assertion of
\* remove_spectator holds; and what a spectator says to #spectator reaches the host,
\* unless the host's account had two sessions in game, or the host logged out while it
\* was watched or was restricted when the channel was made.
SpectatorsReachHost ==
    \A s \in Sessions : LET h == spectating[s] IN h # None =>
      /\ Id(h) \notin parted => Asserts(h) /\ SpecChannel(Id(h)) \in chat.channels[s]
      /\ Id(h) \notin apart => h \in Hears(s, "#spectator")

\* Channels and spectators keep both their ends, and reach each other.
ChannelsAgree == MembershipAgrees /\ SpectatingAgrees /\ SpectatorsReachHost
=============================================================================
