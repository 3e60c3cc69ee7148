---------------------------- MODULE PlayProofs ------------------------------
(***************************************************************************)
(* Proofs about what a game client meets beside rooms and rounds: Channels, *)
(* MatchSettings and Scrim, Beatmaps, and with those of Wire, which have a  *)
(* module of their own, what is said of them together. They are about every *)
(* number of accounts, sessions, channels, players, mods, maps, versions,   *)
(* pools, slots, rounds and tasks, whatever packets come and whichever      *)
(* assertion ends a handler half-way, every history of changes, outages and *)
(* restarts, and any number of packets, commands and awards that wait.      *)
(***************************************************************************)
EXTENDS MCPlay, WireProofs

-----------------------------------------------------------------------------
(***************************************************************************)
(* Channels. Sound is what every change of the chat keeps: joining, making *)
(* an instanced channel with its first player in it, leaving, which may    *)
(* take it off the list, and the loop of logout.                           *)
(*                                                                         *)
(* That spectators reach their host is not inductive by itself: when the   *)
(* last one stops, the channel must go with the host, or the next one      *)
(* would find a channel without it.  It does, because nobody else is in it *)
(* (OnlySpectatorsAreIn), unless the history tells that the account has    *)
(* had two sessions in game (OneEach) or that one of its sessions watched  *)
(* another (WatchesItself).                                                *)
(***************************************************************************)

Chats == [players : [AllChannels -> SUBSET Sessions],
          channels : [Sessions -> SUBSET AllChannels],
          listed : SUBSET AllChannels]

\* MembershipAgrees of a chat, when the sessions "on" are in game.
Sound(now, on) ==
    /\ now \in Chats
    /\ \A s \in Sessions, c \in AllChannels : s \in now.players[c] <=> c \in now.channels[s]
    /\ \A c \in AllChannels : now.players[c] \subseteq (IF c \in now.listed THEN on ELSE {})

\* Who is in game, or came back with an old token.
Around == live \cup lingering

\* Who is found by its account is in game.
Findable ==
    /\ online = [i \in Ids |-> online[i]]
    /\ \A i \in Ids : online[i] # None => online[i] \in live /\ Id(online[i]) = i

ChannelsIInv ==
    /\ Sound(chat, Around) /\ Findable
    /\ spectating \in [Sessions -> Sessions \cup {None}]
    /\ spectators \in [Sessions -> SUBSET Sessions]
    /\ \A s \in Sessions : spectating[s] # None => Id(spectating[s]) \in Hosts
    /\ SpectatingAgrees

LEMMA SpecChannelIsChannel == \A i \in Hosts : SpecChannel(i) \in AllChannels /\ SpecChannel(i) \in Instanced
BY DEF AllChannels, Instanced

-----------------------------------------------------------------------------
(* The changes of the chat *)

LEMMA SoundForMore ==
    ASSUME NEW now, NEW on, Sound(now, on), NEW more, on \subseteq more
    PROVE  Sound(now, more)
BY DEF Sound

\* A player enters a channel that is listed.
LEMMA JoinKeepsSound ==
    ASSUME NEW now, NEW on, Sound(now, on), NEW s \in Sessions, s \in on,
           NEW c \in AllChannels, c \in now.listed
    PROVE  Sound(JoinChat(s, c, now), on) /\ JoinChat(s, c, now).listed = now.listed
<1>1. CASE ~MayJoin(s, c, now)
  BY <1>1 DEF JoinChat
<1>2. CASE MayJoin(s, c, now)
  <2> DEFINE then == JoinChat(s, c, now)
  <2>1. now \in Chats
    BY DEF Sound
  <2>2. then = [players |-> [now.players EXCEPT ![c] = @ \cup {s}],
                channels |-> [now.channels EXCEPT ![s] = @ \cup {c}],
                listed |-> now.listed]
    BY <1>2, <2>1 DEF JoinChat, Chats
  <2> HIDE DEF then
  <2>3. then \in Chats
    BY <2>1, <2>2 DEF Chats
  <2>4. \A p \in Sessions, d \in AllChannels : p \in then.players[d] <=> d \in then.channels[p]
    BY <2>1, <2>2 DEF Sound, Chats
  <2>5. \A d \in AllChannels : then.players[d] \subseteq (IF d \in then.listed THEN on ELSE {})
    BY <2>1, <2>2 DEF Sound, Chats
  <2> QED
    BY <2>2, <2>3, <2>4, <2>5 DEF then, Sound
<1> QED
  BY <1>1, <1>2

\* A channel is listed with its first player, or with nobody, in it.
LEMMA OpenKeepsSound ==
    ASSUME NEW now, NEW on, Sound(now, on), NEW s \in Sessions, s \in on,
           NEW c \in AllChannels
    PROVE  /\ Sound(List(c, JoinChat(s, c, now)), on)
           /\ c \in List(c, JoinChat(s, c, now)).listed
<1> DEFINE joined == JoinChat(s, c, now)
           then == List(c, joined)
<1>1. now \in Chats
  BY DEF Sound
<1>2. CASE ~MayJoin(s, c, now)
  <2>1. joined = now
    BY <1>2 DEF JoinChat
  <2>2. then = [players |-> now.players, channels |-> now.channels, listed |-> now.listed \cup {c}]
    <3>1. then = [now EXCEPT !.listed = @ \cup {c}]
      <4> HIDE DEF joined
      <4> QED
        BY <2>1 DEF List
    <3> HIDE DEF then, joined
    <3> QED
      BY <1>1, <3>1 DEF Chats
  <2> HIDE DEF then, joined
  <2>3. then \in Chats
    BY <1>1, <2>2 DEF Chats
  <2>4. \A p \in Sessions, d \in AllChannels : p \in then.players[d] <=> d \in then.channels[p]
    BY <1>1, <2>2 DEF Sound, Chats
  <2>5. \A d \in AllChannels : then.players[d] \subseteq (IF d \in then.listed THEN on ELSE {})
    BY <1>1, <2>2 DEF Sound, Chats
  <2> QED
    BY <2>2, <2>3, <2>4, <2>5 DEF then, joined, Sound
<1>3. CASE MayJoin(s, c, now)
  <2>1. joined = [players |-> [now.players EXCEPT ![c] = @ \cup {s}],
                  channels |-> [now.channels EXCEPT ![s] = @ \cup {c}],
                  listed |-> now.listed]
    BY <1>1, <1>3 DEF JoinChat, Chats
  <2>2. then = [players |-> [now.players EXCEPT ![c] = @ \cup {s}],
                channels |-> [now.channels EXCEPT ![s] = @ \cup {c}],
                listed |-> now.listed \cup {c}]
    <3>1. then = [joined EXCEPT !.listed = @ \cup {c}]
      BY DEF List
    <3> HIDE DEF then, joined
    <3> QED
      BY <2>1, <3>1
  <2> HIDE DEF then, joined
  <2>3. then \in Chats
    BY <1>1, <2>2 DEF Chats
  <2>4. \A p \in Sessions, d \in AllChannels : p \in then.players[d] <=> d \in then.channels[p]
    BY <1>1, <2>2 DEF Sound, Chats
  <2>5. \A d \in AllChannels : then.players[d] \subseteq (IF d \in then.listed THEN on ELSE {})
    BY <1>1, <2>2 DEF Sound, Chats
  <2> QED
    BY <2>2, <2>3, <2>4, <2>5 DEF then, joined, Sound
<1> QED
  BY <1>2, <1>3

\* The last one to leave an instanced channel takes it off the list.
LEMMA LeaveKeepsSound ==
    ASSUME NEW now, NEW on, Sound(now, on), NEW s \in Sessions, NEW c \in AllChannels
    PROVE  Sound(Leave(s, c, now), on)
<1>1. CASE s \notin now.players[c]
  BY <1>1 DEF Leave
<1>2. CASE s \in now.players[c]
  <2> DEFINE then == Leave(s, c, now)
  <2>1. now \in Chats
    BY DEF Sound
  <2>2. then = [players |-> [now.players EXCEPT ![c] = @ \ {s}],
                channels |-> [now.channels EXCEPT ![s] = @ \ {c}],
                listed |-> IF c \in Instanced /\ now.players[c] = {s}
                           THEN now.listed \ {c} ELSE now.listed]
    BY <1>2, <2>1 DEF Leave, Chats
  <2> HIDE DEF then
  <2>3. then \in Chats
    BY <2>1, <2>2 DEF Chats
  <2>4. \A p \in Sessions, d \in AllChannels : p \in then.players[d] <=> d \in then.channels[p]
    BY <2>1, <2>2 DEF Sound, Chats
  <2>5. \A d \in AllChannels : then.players[d] \subseteq (IF d \in then.listed THEN on ELSE {})
    BY <2>1, <2>2 DEF Sound, Chats
  <2> QED
    BY <2>3, <2>4, <2>5 DEF then, Sound
<1> QED
  BY <1>1, <1>2

\* The loop of logout empties the channels of a player, at both ends.
LEMMA LeaveAllKeepsSound ==
    ASSUME NEW now, NEW on, Sound(now, on), NEW s \in Sessions
    PROVE  Sound(LeaveAll(s, now), on \ {s})
<1> DEFINE then == LeaveAll(s, now)
<1>1. now \in Chats
  BY DEF Sound
<1>2. /\ then.players = [c \in AllChannels |-> IF c \in now.channels[s] THEN now.players[c] \ {s}
                                               ELSE now.players[c]]
      /\ then.channels = [now.channels EXCEPT ![s] = {}]
      /\ then.listed = {c \in now.listed :
                          ~(c \in now.channels[s] \cap Instanced /\ now.players[c] = {s})}
      /\ then = [players |-> then.players, channels |-> then.channels, listed |-> then.listed]
  BY DEF LeaveAll
<1> HIDE DEF then
<1>3. then \in Chats
  BY <1>1, <1>2 DEF Chats
<1>4. \A p \in Sessions, c \in AllChannels : p \in then.players[c] <=> c \in then.channels[p]
  BY <1>1, <1>2 DEF Sound, Chats
<1>5. \A c \in AllChannels : then.players[c] \subseteq (IF c \in then.listed THEN on \ {s} ELSE {})
  <2> SUFFICES ASSUME NEW c \in AllChannels
               PROVE  then.players[c] \subseteq (IF c \in then.listed THEN on \ {s} ELSE {})
    OBVIOUS
  <2>1. then.players[c] = now.players[c] \ {s}
    BY <1>1, <1>2 DEF Sound
  <2>2. now.players[c] \subseteq (IF c \in now.listed THEN on ELSE {})
    BY DEF Sound
  <2>3. c \notin then.listed => c \notin now.listed \/ now.players[c] = {s}
    BY <1>2
  <2> QED
    BY <2>1, <2>2, <2>3
<1> QED
  BY <1>3, <1>4, <1>5 DEF then, Sound

\* remove_spectator
LEMMA ChatWithoutKeepsSound ==
    ASSUME NEW now, NEW on, Sound(now, on), NEW s \in Sessions, NEW whom \in Sessions,
           Id(whom) \in Hosts
    PROVE  Sound(ChatWithout(whom, s, now), on)
<1> DEFINE c == SpecChannel(Id(whom))
<1>1. c \in AllChannels
  BY SpecChannelIsChannel
<1>2. Sound(Leave(s, c, now), on)
  BY <1>1, LeaveKeepsSound
<1>3. Sound(Leave(whom, c, Leave(s, c, now)), on)
  BY <1>1, <1>2, LeaveKeepsSound
<1> QED
  BY <1>2, <1>3 DEF ChatWithout

\* add_spectator
LEMMA ChatWithKeepsSound ==
    ASSUME NEW now, NEW on, Sound(now, on), NEW s \in Sessions, NEW whom \in Sessions,
           s \in on, whom \in on, Id(whom) \in Hosts
    PROVE  Sound(ChatWith(whom, s, now), on)
<1> DEFINE c == SpecChannel(Id(whom))
           opened == List(c, JoinChat(whom, c, now))
<1>1. c \in AllChannels
  BY SpecChannelIsChannel
<1>2. CASE c \in now.listed
  BY <1>1, <1>2, JoinKeepsSound DEF ChatWith
<1>3. CASE c \notin now.listed
  <2>1. Sound(opened, on) /\ c \in opened.listed
    BY <1>1, OpenKeepsSound
  <2>2. Sound(JoinChat(s, c, opened), on)
    BY <1>1, <2>1, JoinKeepsSound
  <2> QED
    BY <1>3, <2>2 DEF ChatWith
<1> QED
  BY <1>2, <1>3

-----------------------------------------------------------------------------
(* The packets *)

LEMMA ChannelsInitially == ChannelsInit => ChannelsIInv
<1> SUFFICES ASSUME ChannelsInit PROVE ChannelsIInv
  OBVIOUS
<1>1. Sound(chat, Around)
  BY DEF ChannelsInit, Sound, Chats, AllChannels, Around
<1>2. Findable
  BY DEF ChannelsInit, Findable
<1> QED
  BY <1>1, <1>2, ChannelsAssumption DEF ChannelsInit, ChannelsIInv, SpectatingAgrees

\* Packets that change the chat of one player, or nothing of either relation.
LEMMA MembersPreserve ==
    ASSUME ChannelsIInv, NEW s \in Sessions,
           \/ \E i \in Ids, hidden \in BOOLEAN : Login(i, hidden)
           \/ RestrictPlayer(s) \/ LobbyJoin(s) \/ LobbyPart(s)
           \/ \E c \in AllChannels : ChannelJoin(s, c) \/ ChannelPart(s, c)
    PROVE  ChannelsIInv'
<1>1. UNCHANGED <<spectating, spectators>> /\ Around \subseteq Around'
  BY DEF Login, RestrictPlayer, LobbyJoin, LobbyPart, ChannelJoin, ChannelPart, Lingers, Around
<1>2. Sound(chat', Around')
  <2>0. Sound(chat, Around')
    BY <1>1, SoundForMore DEF ChannelsIInv
  <2>1. ASSUME NEW c \in AllChannels, ChannelJoin(s, c)
        PROVE  Sound(chat', Around')
    <3>1. s \in Around' /\ c \in chat.listed /\ chat' = JoinChat(s, c, chat)
      BY <2>1 DEF ChannelJoin, Lingers, Around
    <3> QED
      BY <2>0, <3>1, JoinKeepsSound
  <2>2. ASSUME NEW c \in AllChannels, ChannelPart(s, c)
        PROVE  Sound(chat', Around')
    BY <2>0, <2>2, LeaveKeepsSound DEF ChannelPart
  <2>3. ASSUME \/ \E i \in Ids, hidden \in BOOLEAN : Login(i, hidden)
               \/ RestrictPlayer(s) \/ LobbyJoin(s) \/ LobbyPart(s)
        PROVE  UNCHANGED chat
    BY <2>3 DEF Login, RestrictPlayer, LobbyJoin, LobbyPart
  <2> QED
    BY <2>0, <2>1, <2>2, <2>3
<1>3. Findable'
  <2>1. ASSUME NEW i \in Ids, NEW hidden \in BOOLEAN, Login(i, hidden)
        PROVE  Findable'
    <3>1. PICK new : /\ Id(new) = i /\ live' = live \cup {new}
                     /\ online' = [online EXCEPT ![i] = new]
      BY <2>1 DEF Login, Id
    <3> QED
      BY <3>1 DEF ChannelsIInv, Findable
  <2>2. ASSUME \/ RestrictPlayer(s) \/ LobbyJoin(s) \/ LobbyPart(s)
               \/ \E c \in AllChannels : ChannelJoin(s, c) \/ ChannelPart(s, c)
        PROVE  UNCHANGED <<live, online>>
    BY <2>2 DEF RestrictPlayer, LobbyJoin, LobbyPart, ChannelJoin, ChannelPart
  <2>3. UNCHANGED <<live, online>> => Findable'
    BY DEF ChannelsIInv, Findable
  <2> QED
    BY <2>1, <2>2, <2>3
<1>4. SpectatingAgrees'
  BY <1>1 DEF ChannelsIInv, SpectatingAgrees, Around
<1> QED
  BY <1>1, <1>2, <1>3, <1>4 DEF ChannelsIInv

\* Whoever is watched was found by its account.
LEMMA HostOfSpectator ==
    ASSUME ChannelsIInv, NEW s \in Sessions, spectating[s] # None
    PROVE  spectating[s] \in Sessions /\ Id(spectating[s]) \in Hosts
BY DEF ChannelsIInv

\* A spectator that stops, by packet, by logout or by an assertion that fails.
LEMMA StoppingAgrees ==
    ASSUME ChannelsIInv, NEW s \in Sessions,
           spectating' = [spectating EXCEPT ![s] = None],
           spectators' = IF spectating[s] = None THEN spectators
                         ELSE [spectators EXCEPT ![spectating[s]] = @ \ {s}],
           Around \ {s} \subseteq Around', Findable',
           Sound(chat', Around')
    PROVE  ChannelsIInv'
<1>1. /\ spectating' \in [Sessions -> Sessions \cup {None}]
      /\ spectators' \in [Sessions -> SUBSET Sessions]
      /\ \A p \in Sessions : spectating'[p] = IF p = s THEN None ELSE spectating[p]
  BY DEF ChannelsIInv
<1>2. \A h \in Sessions : spectators'[h] = spectators[h] \ {s}
  <2> SUFFICES ASSUME NEW h \in Sessions PROVE spectators'[h] = spectators[h] \ {s}
    OBVIOUS
  <2>1. CASE spectating[s] = h
    BY <2>1, ChannelsAssumption DEF ChannelsIInv
  <2>2. CASE spectating[s] # h
    <3>1. s \notin spectators[h]
      BY <2>2 DEF ChannelsIInv, SpectatingAgrees
    <3>2. spectators'[h] = spectators[h]
      BY <2>2 DEF ChannelsIInv
    <3> QED
      BY <3>1, <3>2
  <2> QED
    BY <2>1, <2>2
<1>3. SpectatingAgrees'
  BY <1>1, <1>2, ChannelsAssumption DEF ChannelsIInv, SpectatingAgrees, Around
<1> QED
  BY <1>1, <1>3 DEF ChannelsIInv

LEMMA StopPreserves ==
    ASSUME ChannelsIInv, NEW s \in Sessions,
           \/ StopSpectating(s) \/ Logout(s) \/ LogoutFails(s)
           \/ \E whom \in Sessions : StartFails(s, whom)
    PROVE  ChannelsIInv'
<1>0. UNCHANGED <<live, online, lingering>> => Findable' /\ Around' = Around
  BY DEF ChannelsIInv, Findable, Around
<1>1. CASE StopSpectating(s)
  <2>1. Sound(chat', Around)
    BY <1>1, HostOfSpectator, ChatWithoutKeepsSound DEF StopSpectating, ChannelsIInv
  <2> QED
    BY <1>0, <1>1, <2>1, StoppingAgrees DEF StopSpectating
<1>2. CASE Logout(s)
  <2> DEFINE whom == spectating[s]
             without == IF whom = None THEN chat ELSE ChatWithout(whom, s, chat)
  <2>1. Sound(without, Around)
    BY HostOfSpectator, ChatWithoutKeepsSound DEF ChannelsIInv
  <2>2. Sound(LeaveAll(s, without), Around \ {s})
    <3> HIDE DEF without
    <3> QED
      BY <2>1, LeaveAllKeepsSound
  <2>3. /\ chat' = LeaveAll(s, without) /\ RemovePlayer(s) /\ lingering' = lingering \ {s}
        /\ spectating' = [spectating EXCEPT ![s] = None]
        /\ spectators' = IF whom = None THEN spectators ELSE [spectators EXCEPT ![whom] = @ \ {s}]
    BY <1>2 DEF Logout
  <2>4. Around' = Around \ {s}
    BY <2>3 DEF RemovePlayer, Around
  <2>5. Findable'
    BY <2>3 DEF RemovePlayer, ChannelsIInv, Findable
  <2> HIDE DEF without
  <2> QED
    BY <2>2, <2>3, <2>4, <2>5, StoppingAgrees
<1>3. CASE LogoutFails(s) \/ \E whom \in Sessions : StartFails(s, whom)
  <2>1. /\ spectating' = [spectating EXCEPT ![s] = None]
        /\ spectators' = [spectators EXCEPT ![spectating[s]] = @ \ {s}]
        /\ spectating[s] # None /\ UNCHANGED <<live, online, lingering, chat>>
    BY <1>3 DEF LogoutFails, StartFails
  <2>2. Sound(chat', Around')
    BY <1>0, <2>1 DEF ChannelsIInv
  <2> QED
    BY <1>0, <2>1, <2>2, StoppingAgrees
<1> QED
  BY <1>1, <1>2, <1>3

LEMMA StartPreserves ==
    ASSUME ChannelsIInv, NEW s \in Sessions, NEW whom \in Sessions, StartSpectating(s, whom)
    PROVE  ChannelsIInv'
<1> DEFINE former == spectating[s]
           free == IF former = None THEN chat ELSE ChatWithout(former, s, chat)
           without == [h \in Sessions |-> IF h = former THEN spectators[h] \ {s} ELSE spectators[h]]
<1>1. /\ Id(whom) \in Hosts /\ online[Id(whom)] = whom /\ former # whom
      /\ chat' = ChatWith(whom, s, free) /\ UNCHANGED <<live, online>> /\ Lingers(s)
      /\ \/ /\ spectating' = [spectating EXCEPT ![s] = whom]
            /\ spectators' = [without EXCEPT ![whom] = @ \cup {s}]
         \/ /\ spectating' = [spectating EXCEPT ![s] = None]
            /\ spectators' = without
  BY DEF StartSpectating
<1>0. whom \in Around' /\ s \in Around' /\ Around \subseteq Around' /\ Findable'
  BY <1>1, ChannelsAssumption DEF ChannelsIInv, Findable, Lingers, Around
<1>2. Sound(chat', Around')
  <2>1. Sound(free, Around)
    BY HostOfSpectator, ChatWithoutKeepsSound DEF ChannelsIInv
  <2> HIDE DEF free
  <2> QED
    BY <1>0, <1>1, <2>1, SoundForMore, ChatWithKeepsSound
<1>3. /\ without \in [Sessions -> SUBSET Sessions]
      /\ \A h \in Sessions : without[h] = spectators[h] \ {s}
  BY DEF ChannelsIInv, SpectatingAgrees
<1>4. /\ spectating' \in [Sessions -> Sessions \cup {None}]
      /\ spectators' \in [Sessions -> SUBSET Sessions]
      /\ \A p \in Sessions : spectating'[p] # None => Id(spectating'[p]) \in Hosts
  <2> HIDE DEF without
  <2> QED
    BY <1>1, <1>3 DEF ChannelsIInv
<1>5. SpectatingAgrees'
  <2> HIDE DEF without
  <2>1. CASE /\ spectating' = [spectating EXCEPT ![s] = whom]
             /\ spectators' = [without EXCEPT ![whom] = @ \cup {s}]
    BY <1>0, <1>1, <1>3, <2>1 DEF ChannelsIInv, SpectatingAgrees, Around
  <2>2. CASE /\ spectating' = [spectating EXCEPT ![s] = None]
             /\ spectators' = without
    BY <1>0, <1>1, <1>3, <2>2, ChannelsAssumption DEF ChannelsIInv, SpectatingAgrees, Around
  <2> QED
    BY <1>1, <2>1, <2>2
<1> QED
  BY <1>0, <1>2, <1>4, <1>5 DEF ChannelsIInv

LEMMA ChannelsInductive == ChannelsSpec => []ChannelsIInv
<1>1. ASSUME ChannelsIInv, [ChannelsNext]_channelsVars
      PROVE  ChannelsIInv'
  <2>1. CASE UNCHANGED channelsVars
    BY <1>1, <2>1 DEF channelsVars, ChannelsIInv, Sound, SpectatingAgrees, Findable, Around
  <2>2. ASSUME NEW i \in Ids, NEW hidden \in BOOLEAN, Login(i, hidden)
        PROVE  ChannelsIInv'
    <3>1. <<i, 1>> \in Sessions
      BY ChannelsAssumption DEF Sessions
    <3> QED
      BY <1>1, <2>2, <3>1, MembersPreserve
  <2>3. ASSUME NEW s \in Sessions,
               \/ RestrictPlayer(s) \/ LobbyJoin(s) \/ LobbyPart(s)
               \/ \E c \in AllChannels : ChannelJoin(s, c) \/ ChannelPart(s, c)
        PROVE  ChannelsIInv'
    BY <1>1, <2>3, MembersPreserve
  <2>4. ASSUME NEW s \in Sessions,
               \/ StopSpectating(s) \/ Logout(s) \/ LogoutFails(s)
               \/ \E whom \in Sessions : StartFails(s, whom)
        PROVE  ChannelsIInv'
    BY <1>1, <2>4, StopPreserves
  <2>5. ASSUME NEW s \in Sessions, NEW whom \in Sessions, StartSpectating(s, whom)
        PROVE  ChannelsIInv'
    BY <1>1, <2>5, StartPreserves
  <2> QED
    BY <1>1, <2>1, <2>2, <2>3, <2>4, <2>5 DEF ChannelsNext
<1> QED
  BY <1>1, ChannelsInitially, PTL DEF ChannelsSpec

-----------------------------------------------------------------------------
(* Spectators and their hosts *)

\* Who watches is in the channel, unless somebody used its name.
WatchersAreIn(now, who) ==
    \A s \in Sessions : who[s] # None /\ Id(who[s]) \notin parted =>
      s \in now.players[SpecChannel(Id(who[s]))]

\* Who is watched is in game and another player, unless a host left its spectators.
HostsAreThere(who, on) ==
    \A s \in Sessions : who[s] # None /\ Id(who[s]) \notin apart => who[s] \in on /\ who[s] # s

\* Two sessions of one account do not watch each other, unless the history keeps it.
WatchesItself(who) ==
    \A s \in Sessions : who[s] # None /\ Id(who[s]) = Id(s) /\ Id(s) \notin parted => who[s] = s

\* A channel that is listed has its host in it, and nobody in game or come back but
\* its spectators.
HostIsIn(now, on) ==
    \A i \in Hosts \ apart : SpecChannel(i) \in now.listed =>
      \E h \in on : Id(h) = i /\ h \in now.players[SpecChannel(i)]
OnlySpectatorsAreIn(now, who, on) ==
    \A i \in Hosts \ apart : \A p \in now.players[SpecChannel(i)] :
      (Id(p) = i /\ p \in on) \/ (who[p] # None /\ Id(who[p]) = i)

Reaching(now, who, on) ==
    /\ WatchersAreIn(now, who) /\ HostsAreThere(who, on) /\ WatchesItself(who)
    /\ HostIsIn(now, on) /\ OnlySpectatorsAreIn(now, who, on)

\* An account has one session in game, unless the history tells it had two.
OneEach == \A s, t \in live : Id(s) = Id(t) /\ Id(s) \notin apart => s = t

ReachIInv == OneEach /\ parted \subseteq apart /\ Reaching(chat, spectating, live)

LEMMA SpecChannelsDiffer ==
    /\ \A i, j : SpecChannel(i) = SpecChannel(j) => i = j
    /\ \A i \in Hosts : SpecChannel(i) # Lobby /\ SpecChannel(i) \notin FromDatabase
BY ChannelsAssumption DEF SpecChannel, Lobby, FromDatabase

\* What leaving, removing and adding a spectator do to a channel.
LEMMA LeaveDoes ==
    ASSUME NEW now \in Chats, NEW s \in Sessions, NEW c \in AllChannels
    PROVE  /\ Leave(s, c, now) \in Chats
           /\ Leave(s, c, now).players[c] = now.players[c] \ {s}
           /\ \A d \in AllChannels : d # c => Leave(s, c, now).players[d] = now.players[d]
           /\ \A d \in AllChannels : d # c => (d \in Leave(s, c, now).listed <=> d \in now.listed)
           /\ c \in Leave(s, c, now).listed => c \in now.listed
           /\ c \in Instanced /\ now.players[c] # {} /\ Leave(s, c, now).players[c] = {} =>
                c \notin Leave(s, c, now).listed
           /\ c \notin Instanced => Leave(s, c, now).listed = now.listed
<1> DEFINE then == Leave(s, c, now)
<1>2. CASE s \notin now.players[c]
  <2>1. then = now
    BY <1>2 DEF Leave
  <2> HIDE DEF then
  <2>2. /\ then \in Chats
        /\ then.players[c] = now.players[c] \ {s}
        /\ \A d \in AllChannels : d # c => then.players[d] = now.players[d]
        /\ \A d \in AllChannels : d # c => (d \in then.listed <=> d \in now.listed)
        /\ c \in then.listed => c \in now.listed
        /\ c \in Instanced /\ now.players[c] # {} /\ then.players[c] = {} => c \notin then.listed
        /\ c \notin Instanced => then.listed = now.listed
    BY <1>2, <2>1
  <2> QED
    BY <2>2 DEF then
<1>3. CASE s \in now.players[c]
  <2>1. then = [players |-> [now.players EXCEPT ![c] = @ \ {s}],
                channels |-> [now.channels EXCEPT ![s] = @ \ {c}],
                listed |-> IF c \in Instanced /\ now.players[c] = {s}
                           THEN now.listed \ {c} ELSE now.listed]
    BY <1>3 DEF Leave, Chats
  <2> HIDE DEF then
  <2>2. /\ then.players = [now.players EXCEPT ![c] = @ \ {s}]
        /\ then.listed = IF c \in Instanced /\ now.players[c] = {s}
                         THEN now.listed \ {c} ELSE now.listed
        /\ then \in Chats
    BY <2>1 DEF Chats
  <2>3. /\ then.players[c] = now.players[c] \ {s}
        /\ \A d \in AllChannels : d # c => then.players[d] = now.players[d]
    BY <2>2 DEF Chats
  <2>4. c \in Instanced /\ now.players[c] # {} /\ then.players[c] = {} => c \notin then.listed
    BY <1>3, <2>2, <2>3
  <2> QED
    BY <2>2, <2>3, <2>4 DEF then
<1> QED
  BY <1>2, <1>3

LEMMA WithoutDoes ==
    ASSUME NEW now \in Chats, NEW s \in Sessions, NEW whom \in Sessions, Id(whom) \in Hosts,
           NEW c, c = SpecChannel(Id(whom))
    PROVE  /\ ChatWithout(whom, s, now) \in Chats
           /\ \A d \in AllChannels : d # c =>
                /\ ChatWithout(whom, s, now).players[d] = now.players[d]
                /\ d \in ChatWithout(whom, s, now).listed <=> d \in now.listed
           /\ ChatWithout(whom, s, now).players[c] =
                now.players[c] \ (IF spectators[whom] = {s} THEN {s, whom} ELSE {s})
           /\ c \in ChatWithout(whom, s, now).listed => c \in now.listed
           /\ now.players[c] # {} /\ ChatWithout(whom, s, now).players[c] = {} =>
                c \notin ChatWithout(whom, s, now).listed
<1>1. c \in AllChannels /\ c \in Instanced
  BY SpecChannelIsChannel
<1>2. PICK left : left = Leave(s, c, now)
  OBVIOUS
<1>3. left \in Chats
  BY <1>1, <1>2, LeaveDoes
<1>4. /\ left.players[c] = now.players[c] \ {s}
      /\ \A d \in AllChannels : d # c => left.players[d] = now.players[d]
      /\ \A d \in AllChannels : d # c => (d \in left.listed <=> d \in now.listed)
      /\ c \in left.listed => c \in now.listed
      /\ now.players[c] # {} /\ left.players[c] = {} => c \notin left.listed
  BY <1>1, <1>2, LeaveDoes
<1>5. CASE spectators[whom] # {s}
  <2>1. ChatWithout(whom, s, now) = left
    BY <1>2, <1>5 DEF ChatWithout
  <2> QED
    BY <1>1, <1>3, <1>4, <1>5, <2>1
<1>6. CASE spectators[whom] = {s}
  <2>1. PICK then : then = Leave(whom, c, left)
    OBVIOUS
  <2>2. ChatWithout(whom, s, now) = then
    BY <1>2, <1>6, <2>1 DEF ChatWithout
  <2>3. /\ then \in Chats
        /\ then.players[c] = left.players[c] \ {whom}
        /\ \A d \in AllChannels : d # c => then.players[d] = left.players[d]
        /\ \A d \in AllChannels : d # c => (d \in then.listed <=> d \in left.listed)
        /\ c \in then.listed => c \in left.listed
        /\ left.players[c] # {} /\ then.players[c] = {} => c \notin then.listed
    BY <1>1, <1>3, <2>1, LeaveDoes
  <2>4. then.players[c] = now.players[c] \ {s, whom}
    BY <1>1, <1>4, <2>3
  <2>5. now.players[c] # {} /\ then.players[c] = {} => c \notin then.listed
    BY <1>4, <2>3
  <2> QED
    BY <1>1, <1>4, <1>6, <2>2, <2>3, <2>4, <2>5
<1> QED
  BY <1>5, <1>6

LEMMA JoinDoes ==
    ASSUME NEW now \in Chats, NEW s \in Sessions, NEW c \in AllChannels, c # Lobby
    PROVE  /\ JoinChat(s, c, now) \in Chats
           /\ JoinChat(s, c, now).listed = now.listed
           /\ \A d \in AllChannels : d # c => JoinChat(s, c, now).players[d] = now.players[d]
           /\ s \in restricted => JoinChat(s, c, now).players[c] = now.players[c]
           /\ s \notin restricted => JoinChat(s, c, now).players[c] = now.players[c] \cup {s}
<1> DEFINE then == JoinChat(s, c, now)
<1>1. CASE ~MayJoin(s, c, now)
  <2>1. then = now
    BY <1>1 DEF JoinChat
  <2>2. s \notin restricted => s \in now.players[c]
    BY <1>1 DEF MayJoin
  <2> QED
    BY <2>1, <2>2
<1>2. CASE MayJoin(s, c, now)
  <2>1. then = [players |-> [now.players EXCEPT ![c] = @ \cup {s}],
                channels |-> [now.channels EXCEPT ![s] = @ \cup {c}],
                listed |-> now.listed]
    BY <1>2 DEF JoinChat, Chats
  <2>2. s \notin restricted
    BY <1>2 DEF MayJoin
  <2> HIDE DEF then
  <2>3. /\ then \in Chats /\ then.listed = now.listed
        /\ then.players = [now.players EXCEPT ![c] = @ \cup {s}]
    BY <2>1 DEF Chats
  <2>4. \A d \in AllChannels : then.players[d] = IF d = c THEN now.players[d] \cup {s}
                                                 ELSE now.players[d]
    BY <2>3 DEF Chats
  <2> QED
    BY <2>2, <2>3, <2>4 DEF then
<1> QED
  BY <1>1, <1>2

LEMMA WithDoes ==
    ASSUME NEW now \in Chats, NEW s \in Sessions \ restricted, NEW whom \in Sessions,
           Id(whom) \in Hosts, NEW c, c = SpecChannel(Id(whom))
    PROVE  /\ \A d \in AllChannels : d # c =>
                /\ ChatWith(whom, s, now).players[d] = now.players[d]
                /\ d \in ChatWith(whom, s, now).listed <=> d \in now.listed
           /\ ChatWith(whom, s, now).players[c] = now.players[c] \cup {s} \cup
                (IF c \notin now.listed /\ whom \notin restricted THEN {whom} ELSE {})
           /\ Admits(whom, s, now) <=>
                s \notin now.players[c] /\ ~(c \notin now.listed /\ s = whom)
<1>1. c \in AllChannels /\ c # Lobby
  BY SpecChannelIsChannel, SpecChannelsDiffer
<1>3. CASE c \in now.listed
  <2>1. ChatWith(whom, s, now) = JoinChat(s, c, now) /\ Admits(whom, s, now) = MayJoin(s, c, now)
    BY <1>3 DEF ChatWith, Admits
  <2>2. /\ JoinChat(s, c, now).listed = now.listed
        /\ \A d \in AllChannels : d # c => JoinChat(s, c, now).players[d] = now.players[d]
        /\ JoinChat(s, c, now).players[c] = now.players[c] \cup {s}
    BY <1>1, JoinDoes
  <2>3. MayJoin(s, c, now) <=> s \notin now.players[c]
    BY <1>1 DEF MayJoin
  <2> QED
    BY <1>1, <1>3, <2>1, <2>2, <2>3
<1>4. CASE c \notin now.listed
  <2>1. PICK joined : joined = JoinChat(whom, c, now)
    OBVIOUS
  <2>2. PICK opened : opened = List(c, joined)
    OBVIOUS
  <2>3. /\ joined.listed = now.listed /\ joined \in Chats
        /\ \A d \in AllChannels : d # c => joined.players[d] = now.players[d]
        /\ whom \in restricted => joined.players[c] = now.players[c]
        /\ whom \notin restricted => joined.players[c] = now.players[c] \cup {whom}
    BY <1>1, <2>1, JoinDoes
  <2>5. opened.players = joined.players /\ opened.listed = joined.listed \cup {c} /\ opened \in Chats
    <3>1. opened = [joined EXCEPT !.listed = joined.listed \cup {c}]
      BY <2>2 DEF List
    <3> QED
      BY <1>1, <2>3, <3>1 DEF Chats
  <2>6. PICK then : then = JoinChat(s, c, opened)
    OBVIOUS
  <2>7. ChatWith(whom, s, now) = then /\ Admits(whom, s, now) = MayJoin(s, c, joined)
    BY <1>4, <2>1, <2>2, <2>6 DEF ChatWith, Admits
  <2>8. /\ then.listed = opened.listed
        /\ \A d \in AllChannels : d # c => then.players[d] = opened.players[d]
        /\ then.players[c] = opened.players[c] \cup {s}
    BY <1>1, <2>5, <2>6, JoinDoes
  <2>9. MayJoin(s, c, joined) <=> s \notin joined.players[c]
    BY <1>1 DEF MayJoin
  <2>10. s \notin joined.players[c] <=> s \notin now.players[c] /\ s # whom
    BY <2>3
  <2>11. then.players[c] = now.players[c] \cup {s} \cup
           (IF c \notin now.listed /\ whom \notin restricted THEN {whom} ELSE {})
    BY <1>4, <2>3, <2>5, <2>8
  <2> QED
    BY <1>4, <2>3, <2>5, <2>7, <2>8, <2>9, <2>10, <2>11
<1> QED
  BY <1>3, <1>4

-----------------------------------------------------------------------------
\* What is known of whom a session watches.
LEMMA WatchedHost ==
    ASSUME ChannelsIInv, ReachIInv, NEW s \in Sessions, spectating[s] # None
    PROVE  /\ spectating[s] \in Sessions /\ Id(spectating[s]) \in Hosts
           /\ s \in spectators[spectating[s]]
BY DEF ChannelsIInv, SpectatingAgrees

\* A spectator stops: it leaves the channel, and so does the host if it was the
\* last one; the channel is off the list then, as only the two were in it.
LEMMA StoppedReaches ==
    ASSUME ChannelsIInv, ReachIInv, NEW s \in Sessions, spectating[s] # None,
           NEW who, who = [spectating EXCEPT ![s] = None]
    PROVE  /\ Reaching(ChatWithout(spectating[s], s, chat), who, live)
           /\ ~Asserts(spectating[s]) => Reaching(chat, who, live)
<1> DEFINE h == spectating[s]
           c == SpecChannel(Id(h))
           free == ChatWithout(h, s, chat)
<1>1. /\ h \in Sessions /\ Id(h) \in Hosts /\ s \in spectators[h] /\ c \in AllChannels
      /\ chat \in Chats
  BY WatchedHost, SpecChannelIsChannel DEF ChannelsIInv, Sound
<1>2. \A p \in Sessions : (who[p] # None => p # s) /\ (p # s => who[p] = spectating[p])
  BY DEF ChannelsIInv
<1>3. /\ \A d \in AllChannels : d # c => /\ free.players[d] = chat.players[d]
                                         /\ d \in free.listed <=> d \in chat.listed
      /\ free.players[c] = chat.players[c] \ (IF spectators[h] = {s} THEN {s, h} ELSE {s})
      /\ c \in free.listed => c \in chat.listed
      /\ chat.players[c] # {} /\ free.players[c] = {} => c \notin free.listed
  BY <1>1, WithoutDoes
<1> HIDE DEF h, free
<1>4. HostsAreThere(who, live) /\ WatchesItself(who)
  BY <1>2 DEF ReachIInv, Reaching, HostsAreThere, WatchesItself
<1>5. ASSUME NEW p \in Sessions, who[p] # None, Id(who[p]) \notin parted
      PROVE  /\ p \in chat.players[SpecChannel(Id(who[p]))]
             /\ p \in free.players[SpecChannel(Id(who[p]))]
  <2>1. p # s /\ who[p] = spectating[p] /\ p \in chat.players[SpecChannel(Id(who[p]))]
    BY <1>2, <1>5 DEF ReachIInv, Reaching, WatchersAreIn
  <2>2. SpecChannel(Id(who[p])) \in AllChannels
    BY <1>5, <2>1, WatchedHost, SpecChannelIsChannel
  <2>3. CASE SpecChannel(Id(who[p])) # c
    BY <1>3, <2>1, <2>2, <2>3
  <2>4. CASE SpecChannel(Id(who[p])) = c
    <3>1. Id(who[p]) = Id(h)
      BY <2>4, SpecChannelsDiffer
    <3>2. ASSUME spectators[h] = {s}
          PROVE  p # h
      <4>1. p = h => spectating[p] = p
        BY <1>5, <2>1, <3>1 DEF ReachIInv, Reaching, WatchesItself
      <4>2. spectating[p] = h => p \in spectators[h]
        BY <1>1, <2>1 DEF ChannelsIInv, SpectatingAgrees
      <4> QED
        BY <2>1, <3>2, <4>1, <4>2
    <3> QED
      BY <1>3, <2>1, <2>4, <3>2
  <2> QED
    BY <2>1, <2>3, <2>4
<1>6. ASSUME NEW i \in Hosts \ apart
      PROVE  /\ SpecChannel(i) \in free.listed =>
                  \E g \in live : Id(g) = i /\ g \in free.players[SpecChannel(i)]
             /\ \A p \in free.players[SpecChannel(i)] :
                  (Id(p) = i /\ p \in live) \/ (who[p] # None /\ Id(who[p]) = i)
             /\ ~Asserts(h) => \A p \in chat.players[SpecChannel(i)] :
                  (Id(p) = i /\ p \in live) \/ (who[p] # None /\ Id(who[p]) = i)
  <2>1. /\ SpecChannel(i) \in chat.listed =>
             \E g \in live : Id(g) = i /\ g \in chat.players[SpecChannel(i)]
        /\ \A p \in chat.players[SpecChannel(i)] :
             (Id(p) = i /\ p \in live) \/ (spectating[p] # None /\ Id(spectating[p]) = i)
        /\ SpecChannel(i) \in AllChannels
        /\ chat.players[SpecChannel(i)] \subseteq Sessions
        /\ chat.players[SpecChannel(i)] # {} => SpecChannel(i) \in chat.listed
    <3>1. /\ SpecChannel(i) \in AllChannels
          /\ chat.players[SpecChannel(i)] \subseteq
               (IF SpecChannel(i) \in chat.listed THEN Around ELSE {})
      BY SpecChannelIsChannel DEF ChannelsIInv, Sound
    <3>2. HostIsIn(chat, live) /\ OnlySpectatorsAreIn(chat, spectating, live) /\ chat \in Chats
      BY DEF ReachIInv, Reaching, ChannelsIInv, Sound
    <3>3. /\ SpecChannel(i) \in chat.listed =>
               \E g \in live : Id(g) = i /\ g \in chat.players[SpecChannel(i)]
          /\ \A p \in chat.players[SpecChannel(i)] :
               (Id(p) = i /\ p \in live) \/ (spectating[p] # None /\ Id(spectating[p]) = i)
      BY <3>2 DEF HostIsIn, OnlySpectatorsAreIn
    <3>4. chat.players[SpecChannel(i)] \subseteq Sessions
      BY <3>1, <3>2 DEF Chats
    <3> QED
      BY <3>1, <3>3, <3>4
  <2>2. CASE i # Id(h)
    <3>1. SpecChannel(i) # c
      BY <2>2, SpecChannelsDiffer
    <3>2. \A p \in chat.players[SpecChannel(i)] : p = s => Id(p) = i /\ p \in live
      BY <2>1, <2>2 DEF h
    <3> QED
      BY <1>2, <1>3, <2>1, <3>1, <3>2
  <2>3. CASE i = Id(h)
    <3>1. h \in live /\ h # s
      BY <2>3 DEF h, ReachIInv, Reaching, HostsAreThere
    <3>2. \A g \in live : Id(g) = i => g = h
      BY <2>3, <3>1 DEF ReachIInv, OneEach
    <3>3. \A p \in free.players[c] :
            /\ p \in chat.players[c] /\ p # s
            /\ (Id(p) = i /\ p \in live) \/ (who[p] # None /\ Id(who[p]) = i)
      BY <1>2, <1>3, <2>1, <2>3
    <3>4. CASE spectators[h] # {s}
      BY <1>3, <2>1, <2>3, <3>1, <3>2, <3>3, <3>4 DEF Asserts
    <3>5. CASE spectators[h] = {s}
      <4>1. ASSUME NEW p \in chat.players[c]
            PROVE  p \in {s, h}
        <5>1. p \in Sessions
          BY <2>1, <2>3
        <5>2. CASE Id(p) = i /\ p \in live
          BY <3>2, <5>1, <5>2
        <5>3. CASE spectating[p] # None /\ Id(spectating[p]) = i
          <6>1. spectating[p] \in live
            BY <5>1, <5>3 DEF ReachIInv, Reaching, HostsAreThere
          <6>2. spectating[p] = h
            BY <3>2, <5>3, <6>1
          <6>3. p \in spectators[h]
            BY <1>1, <5>1, <6>2 DEF ChannelsIInv, SpectatingAgrees
          <6> QED
            BY <3>5, <6>3
        <5> QED
          BY <2>1, <2>3, <5>2, <5>3
      <4>2. free.players[c] = {}
        BY <1>3, <3>5, <4>1
      <4> QED
        BY <1>3, <2>1, <2>3, <4>2 DEF Asserts
    <3> QED
      BY <3>4, <3>5
  <2> QED
    BY <2>2, <2>3
<1>7. HostIsIn(chat, live)
  BY DEF ReachIInv, Reaching
<1> QED
  BY <1>4, <1>5, <1>6, <1>7
  DEF Reaching, WatchersAreIn, HostIsIn, OnlySpectatorsAreIn, h, free

\* More of the history only asks for less.
LEMMA HistoryGrows ==
    ASSUME NEW now, NEW who, NEW on, Reaching(now, who, on),
           parted \subseteq parted', apart \subseteq apart', parted' \subseteq apart',
           chat' = now, spectating' = who, live' = on, OneEach'
    PROVE  ReachIInv'
<1>1. WatchersAreIn(chat, spectating)'
  BY DEF Reaching, WatchersAreIn
<1>2. HostsAreThere(spectating, live)' /\ WatchesItself(spectating)'
  BY DEF Reaching, HostsAreThere, WatchesItself
<1>3. HostIsIn(chat, live)'
  BY DEF Reaching, HostIsIn
<1>4. OnlySpectatorsAreIn(chat, spectating, live)'
  BY DEF Reaching, OnlySpectatorsAreIn
<1> QED
  BY <1>1, <1>2, <1>3, <1>4 DEF ReachIInv, Reaching

LEMMA ReachInitially == ChannelsInit => ReachIInv
<1> SUFFICES ASSUME ChannelsInit PROVE ReachIInv
  OBVIOUS
<1>1. /\ live = {} /\ parted = {} /\ chat.listed = FromDatabase
      /\ \A c \in AllChannels : chat.players[c] = {}
      /\ \A s \in Sessions : spectating[s] = None
  BY DEF ChannelsInit
<1> QED
  BY <1>1, SpecChannelsDiffer, SpecChannelIsChannel
  DEF ReachIInv, OneEach, Reaching, WatchersAreIn, HostsAreThere, WatchesItself, HostIsIn,
      OnlySpectatorsAreIn

\* Stopping, by packet or by an assertion that fails.
LEMMA StopReaches ==
    ASSUME ChannelsIInv, ReachIInv, NEW s \in Sessions,
           \/ StopSpectating(s) \/ LogoutFails(s) \/ \E whom \in Sessions : StartFails(s, whom)
    PROVE  ReachIInv'
<1>1. /\ spectating[s] # None /\ spectating' = [spectating EXCEPT ![s] = None]
      /\ UNCHANGED <<live, parted, apart>>
  BY DEF StopSpectating, LogoutFails, StartFails
<1>2. Reaching(chat', spectating', live)
  <2>1. CASE Asserts(spectating[s])
    <3>1. chat' = ChatWithout(spectating[s], s, chat)
      BY <2>1 DEF StopSpectating, LogoutFails, StartFails
    <3> QED
      BY <1>1, <3>1, StoppedReaches
  <2>2. CASE ~Asserts(spectating[s])
    <3>1. chat' = chat
      BY <2>2 DEF StopSpectating, LogoutFails, StartFails
    <3> QED
      BY <1>1, <2>2, <3>1, StoppedReaches
  <2> QED
    BY <2>1, <2>2
<1>3. OneEach'
  BY <1>1 DEF ReachIInv, OneEach
<1> QED
  BY <1>1, <1>2, <1>3, HistoryGrows DEF ReachIInv

\* A player that watches nobody now leaves all channels.
LEMMA LogoutReaches ==
    ASSUME ChannelsIInv, ReachIInv, NEW s \in Sessions, Logout(s)
    PROVE  ReachIInv'
<1> DEFINE h == spectating[s]
           free == IF h = None THEN chat ELSE ChatWithout(h, s, chat)
           i == Id(s)
<1>1. /\ chat' = LeaveAll(s, free) /\ live' = live \ {s}
      /\ spectating' = [spectating EXCEPT ![s] = None] /\ UNCHANGED parted
      /\ apart' = IF spectators[s] # {} THEN apart \cup {i} ELSE apart
  BY DEF Logout, RemovePlayer
<1>2. Reaching(free, spectating', live)
  <2>1. CASE h = None
    <3>1. spectating' = spectating
      BY <1>1, <2>1 DEF ChannelsIInv
    <3> QED
      BY <2>1, <3>1 DEF ReachIInv
  <2>2. CASE h # None
    BY <1>1, <2>2, StoppedReaches
  <2> QED
    BY <2>1, <2>2
<1>3. Sound(free, Around)
  BY HostOfSpectator, ChatWithoutKeepsSound DEF ChannelsIInv
<1>4. \A p \in Sessions : (spectating'[p] # None => p # s) /\ (p # s => spectating'[p] = spectating[p])
  BY <1>1 DEF ChannelsIInv
<1> HIDE DEF free, h
<1>5. /\ \A c \in AllChannels : chat'.players[c] = free.players[c] \ {s}
      /\ \A c \in AllChannels : c \in chat'.listed => c \in free.listed
      /\ \A c \in Instanced : free.players[c] = {s} => c \notin chat'.listed
  <2>1. /\ chat'.players = [c \in AllChannels |-> IF c \in free.channels[s]
                                                  THEN free.players[c] \ {s} ELSE free.players[c]]
        /\ chat'.listed = {c \in free.listed :
                             ~(c \in free.channels[s] \cap Instanced /\ free.players[c] = {s})}
    BY <1>1 DEF LeaveAll
  <2>2. \A c \in AllChannels : s \in free.players[c] <=> c \in free.channels[s]
    BY <1>3 DEF Sound
  <2> QED
    BY <2>1, <2>2 DEF AllChannels
<1>6. \A p \in Sessions : spectating'[p] = s => Id(s) \in apart'
  BY <1>1, <1>4, ChannelsAssumption DEF ChannelsIInv, SpectatingAgrees
<1>7. WatchersAreIn(chat, spectating)'
  <2> SUFFICES ASSUME NEW p \in Sessions, spectating'[p] # None, Id(spectating'[p]) \notin parted
               PROVE  p \in chat'.players[SpecChannel(Id(spectating'[p]))]
    BY <1>1 DEF WatchersAreIn
  <2>1. p # s /\ p \in free.players[SpecChannel(Id(spectating'[p]))]
    BY <1>2, <1>4 DEF Reaching, WatchersAreIn
  <2>2. SpecChannel(Id(spectating'[p])) \in AllChannels
    BY <1>4, <2>1, WatchedHost, SpecChannelIsChannel
  <2> QED
    BY <1>5, <2>1, <2>2
<1>8. HostsAreThere(spectating, live)' /\ WatchesItself(spectating)'
  BY <1>1, <1>2, <1>4, <1>6 DEF Reaching, HostsAreThere, WatchesItself
<1>9. ASSUME NEW j \in Hosts \ apart'
      PROVE  /\ SpecChannel(j) \in chat'.listed =>
                  \E g \in live' : Id(g) = j /\ g \in chat'.players[SpecChannel(j)]
             /\ \A p \in chat'.players[SpecChannel(j)] :
                  (Id(p) = j /\ p \in live') \/ (spectating'[p] # None /\ Id(spectating'[p]) = j)
  <2> DEFINE c == SpecChannel(j)
  <2>1. /\ j \in Hosts \ apart /\ c \in AllChannels /\ c \in Instanced
        /\ free.players[c] \subseteq Sessions
    BY <1>1, <1>3, SpecChannelIsChannel DEF Sound, Chats
  <2>2. /\ c \in free.listed => \E g \in live : Id(g) = j /\ g \in free.players[c]
        /\ \A p \in free.players[c] :
             (Id(p) = j /\ p \in live) \/ (spectating'[p] # None /\ Id(spectating'[p]) = j)
    BY <1>2, <2>1 DEF Reaching, HostIsIn, OnlySpectatorsAreIn
  <2> HIDE DEF c
  <2>3. ASSUME c \in chat'.listed
        PROVE  \E g \in live' : Id(g) = j /\ g \in chat'.players[c]
    <3>1. PICK g \in live : Id(g) = j /\ g \in free.players[c]
      BY <1>5, <2>1, <2>2, <2>3
    <3>2. CASE g # s
      BY <1>1, <1>5, <2>1, <3>1, <3>2
    <3>3. CASE g = s
      <4>1. \A p \in live : Id(p) = j => p = s
        BY <2>1, <3>1, <3>3 DEF ReachIInv, OneEach
      <4>2. ASSUME NEW p \in free.players[c]
            PROVE  p = s
        <5>1. p \in Sessions
          BY <2>1
        <5>2. CASE spectating'[p] # None /\ Id(spectating'[p]) = j
          <6>1. spectating'[p] \in live
            BY <1>2, <2>1, <5>1, <5>2 DEF Reaching, HostsAreThere
          <6>2. spectating'[p] = s
            BY <4>1, <5>2, <6>1
          <6> QED
            BY <1>6, <3>1, <3>3, <5>1, <6>2
        <5> QED
          BY <2>2, <4>1, <5>1, <5>2
      <4>3. free.players[c] = {s}
        BY <3>1, <3>3, <4>2
      <4> QED
        BY <1>5, <2>1, <2>3, <4>3
    <3> QED
      BY <3>2, <3>3
  <2> QED
    BY <1>1, <1>5, <2>1, <2>2, <2>3 DEF c
<1>10. HostIsIn(chat, live)' /\ OnlySpectatorsAreIn(chat, spectating, live)'
  BY <1>9 DEF HostIsIn, OnlySpectatorsAreIn
<1>11. OneEach' /\ (parted \subseteq apart)'
  BY <1>1 DEF ReachIInv, OneEach
<1> QED
  BY <1>7, <1>8, <1>10, <1>11 DEF ReachIInv, Reaching

\* A channel is made with its host in it, or joined by the spectator alone.
LEMMA StartReaches ==
    ASSUME ChannelsIInv, ReachIInv, NEW s \in Sessions, NEW whom \in Sessions, StartSpectating(s, whom)
    PROVE  ReachIInv'
<1> DEFINE former == spectating[s]
           free == IF former = None THEN chat ELSE ChatWithout(former, s, chat)
           who == [spectating EXCEPT ![s] = None]
           i == Id(whom)
           c == SpecChannel(i)
<1>1. /\ i \in Hosts /\ s \notin restricted /\ whom \in live
      /\ chat' = ChatWith(whom, s, free) /\ UNCHANGED live
      /\ spectating' = IF Admits(whom, s, free) THEN [spectating EXCEPT ![s] = whom] ELSE who
      /\ apart \subseteq apart' /\ parted \subseteq parted' /\ parted' \subseteq apart'
      /\ i \notin apart' => c \in free.listed \/ whom \notin restricted
      /\ i \notin parted' => Id(s) # i \/ s = whom
  BY ChannelsAssumption DEF StartSpectating, ChannelsIInv, Findable, ReachIInv
<1>2. Reaching(free, who, live)
  <2>1. CASE former = None
    <3>1. who = spectating
      BY <2>1 DEF ChannelsIInv
    <3> QED
      BY <2>1, <3>1 DEF ReachIInv
  <2>2. CASE former # None
    BY <2>2, StoppedReaches
  <2> QED
    BY <2>1, <2>2
<1>3. Sound(free, Around)
  BY HostOfSpectator, ChatWithoutKeepsSound DEF ChannelsIInv
<1>4. /\ who[s] = None /\ \A p \in Sessions \ {s} : spectating'[p] = who[p]
      /\ \A p \in Sessions : who[p] # None => Id(who[p]) \in Hosts
      /\ spectating'[s] = IF Admits(whom, s, free) THEN whom ELSE None
  BY <1>1, ChannelsAssumption DEF ChannelsIInv
<1> HIDE DEF free, who
<1>5. c \in AllChannels
  BY <1>1, SpecChannelIsChannel
<1>6. free \in Chats
  BY <1>3 DEF Sound
<1>7. /\ \A d \in AllChannels : d # c => /\ chat'.players[d] = free.players[d]
                                         /\ d \in chat'.listed <=> d \in free.listed
      /\ chat'.players[c] = free.players[c] \cup {s} \cup
           (IF c \notin free.listed /\ whom \notin restricted THEN {whom} ELSE {})
      /\ Admits(whom, s, free) <=>
           s \notin free.players[c] /\ ~(c \notin free.listed /\ s = whom)
  BY <1>1, <1>6, WithDoes
<1> HIDE DEF c
<1>8. i \notin apart' => (c \in free.listed => whom \in free.players[c])
  <2> SUFFICES ASSUME i \notin apart', c \in free.listed
               PROVE  whom \in free.players[c]
    OBVIOUS
  <2>1. PICK g \in live : Id(g) = i /\ g \in free.players[c]
    BY <1>1, <1>2 DEF Reaching, HostIsIn, c
  <2> QED
    BY <1>1, <2>1 DEF ReachIInv, OneEach
<1>9. WatchersAreIn(chat, spectating)'
  <2> SUFFICES ASSUME NEW p \in Sessions, spectating'[p] # None, Id(spectating'[p]) \notin parted'
               PROVE  p \in chat'.players[SpecChannel(Id(spectating'[p]))]
    BY <1>1 DEF WatchersAreIn
  <2>1. CASE p = s
    BY <1>4, <1>7, <2>1 DEF c
  <2>2. CASE p # s
    <3>1. /\ spectating'[p] = who[p] /\ p \in free.players[SpecChannel(Id(who[p]))]
          /\ SpecChannel(Id(who[p])) \in AllChannels
      BY <1>1, <1>2, <1>4, <2>2, SpecChannelIsChannel DEF Reaching, WatchersAreIn
    <3> QED
      BY <1>7, <3>1
  <2> QED
    BY <2>1, <2>2
<1>10. HostsAreThere(spectating, live)' /\ WatchesItself(spectating)'
  <2> SUFFICES ASSUME NEW p \in Sessions, spectating'[p] # None
               PROVE  /\ Id(spectating'[p]) \notin apart' => spectating'[p] \in live /\ spectating'[p] # p
                      /\ Id(spectating'[p]) = Id(p) /\ Id(p) \notin parted' => spectating'[p] = p
    BY <1>1 DEF HostsAreThere, WatchesItself
  <2>1. CASE p = s
    <3>1. spectating'[s] = whom /\ s \notin free.players[c] /\ ~(c \notin free.listed /\ s = whom)
      BY <1>4, <1>7, <2>1
    <3>2. Id(whom) = Id(s) /\ Id(s) \notin parted' => whom = s
      BY <1>1
    <3> QED
      BY <1>1, <1>8, <2>1, <3>1, <3>2
  <2>2. CASE p # s
    <3>1. spectating'[p] = who[p]
      BY <1>4, <2>2
    <3> QED
      BY <1>1, <1>2, <3>1 DEF Reaching, HostsAreThere, WatchesItself
  <2> QED
    BY <2>1, <2>2
<1>11. ASSUME NEW j \in Hosts \ apart'
       PROVE  /\ SpecChannel(j) \in chat'.listed =>
                   \E g \in live : Id(g) = j /\ g \in chat'.players[SpecChannel(j)]
              /\ \A p \in chat'.players[SpecChannel(j)] :
                   (Id(p) = j /\ p \in live) \/ (spectating'[p] # None /\ Id(spectating'[p]) = j)
  <2>1. j \in Hosts \ apart /\ SpecChannel(j) \in AllChannels
    BY <1>1, SpecChannelIsChannel
  <2>2. /\ SpecChannel(j) \in free.listed =>
             \E g \in live : Id(g) = j /\ g \in free.players[SpecChannel(j)]
        /\ \A p \in free.players[SpecChannel(j)] :
             (Id(p) = j /\ p \in live) \/ (who[p] # None /\ Id(who[p]) = j)
        /\ free.players[SpecChannel(j)] \subseteq Sessions
    BY <1>2, <1>6, <2>1 DEF Reaching, HostIsIn, OnlySpectatorsAreIn, Chats
  <2>3. \A p \in free.players[SpecChannel(j)] :
          (Id(p) = j /\ p \in live) \/ (spectating'[p] # None /\ Id(spectating'[p]) = j)
    BY <1>4, <2>2
  <2>4. CASE j # i
    <3>1. SpecChannel(j) # c
      BY <2>4, SpecChannelsDiffer DEF c
    <3> QED
      BY <1>7, <2>1, <2>2, <2>3, <3>1
  <2>5. CASE j = i
    <3>1. c = SpecChannel(j)
      BY <2>5 DEF c
    <3>2. whom \in chat'.players[c]
      <4>1. CASE c \in free.listed
        BY <1>7, <1>8, <2>5, <4>1
      <4>2. CASE c \notin free.listed
        BY <1>1, <1>7, <2>5, <4>2
      <4> QED
        BY <4>1, <4>2
    <3>3. (Id(s) = j /\ s \in live) \/ (spectating'[s] # None /\ Id(spectating'[s]) = j)
      BY <1>1, <1>4, <1>7, <2>3, <2>5, <3>1, ChannelsAssumption
    <3>4. \A p \in chat'.players[c] : p \in free.players[c] \/ p = s \/ p = whom
      BY <1>7
    <3> QED
      BY <1>1, <2>3, <2>5, <3>1, <3>2, <3>3, <3>4
  <2> QED
    BY <2>4, <2>5
<1>12. HostIsIn(chat, live)' /\ OnlySpectatorsAreIn(chat, spectating, live)'
  BY <1>1, <1>11 DEF HostIsIn, OnlySpectatorsAreIn
<1>13. OneEach' /\ (parted \subseteq apart)'
  BY <1>1 DEF ReachIInv, OneEach
<1> QED
  BY <1>9, <1>10, <1>12, <1>13 DEF ReachIInv, Reaching

\* Joining and leaving by name: of a channel of spectators, the history keeps it.
LEMMA NamesReach ==
    ASSUME ChannelsIInv, ReachIInv, NEW s \in Sessions, NEW c \in AllChannels,
           ChannelJoin(s, c) \/ ChannelPart(s, c)
    PROVE  ReachIInv'
<1>1. /\ UNCHANGED <<live, spectating>>
      /\ parted' = parted \cup {i \in Hosts : c = SpecChannel(i)}
      /\ apart' = apart \cup {i \in Hosts : c = SpecChannel(i)}
  BY DEF ChannelJoin, ChannelPart
<1>2. chat \in Chats
  BY DEF ChannelsIInv, Sound
<1>3. \A d \in AllChannels : d # c => /\ chat'.players[d] = chat.players[d]
                                      /\ d \in chat'.listed <=> d \in chat.listed
  <2>1. CASE ChannelPart(s, c)
    BY <1>2, <2>1, LeaveDoes DEF ChannelPart
  <2>2. CASE ChannelJoin(s, c)
    <3>1. chat' = [players |-> [chat.players EXCEPT ![c] = @ \cup {s}],
                   channels |-> [chat.channels EXCEPT ![s] = @ \cup {c}],
                   listed |-> chat.listed]
      BY <1>2, <2>2 DEF ChannelJoin, JoinChat, Chats
    <3> QED
      BY <1>2, <3>1 DEF Chats
  <2> QED
    BY <2>1, <2>2
<1>4. \A i \in Hosts : i \notin apart' \/ i \notin parted' =>
        /\ SpecChannel(i) \in AllChannels
        /\ chat'.players[SpecChannel(i)] = chat.players[SpecChannel(i)]
        /\ SpecChannel(i) \in chat'.listed <=> SpecChannel(i) \in chat.listed
  BY <1>1, <1>3, SpecChannelIsChannel
<1>5. WatchersAreIn(chat, spectating)'
  <2> SUFFICES ASSUME NEW p \in Sessions, spectating'[p] # None, Id(spectating'[p]) \notin parted'
               PROVE  p \in chat'.players[SpecChannel(Id(spectating'[p]))]
    BY DEF WatchersAreIn
  <2>1. /\ spectating'[p] = spectating[p] /\ Id(spectating[p]) \in Hosts
        /\ Id(spectating[p]) \notin parted
    BY <1>1 DEF ChannelsIInv
  <2> QED
    BY <1>4, <2>1 DEF ReachIInv, Reaching, WatchersAreIn
<1>6. HostsAreThere(spectating, live)' /\ WatchesItself(spectating)'
  BY <1>1 DEF ReachIInv, Reaching, HostsAreThere, WatchesItself
<1>7. HostIsIn(chat, live)' /\ OnlySpectatorsAreIn(chat, spectating, live)'
  BY <1>1, <1>4 DEF ReachIInv, Reaching, HostIsIn, OnlySpectatorsAreIn
<1>8. OneEach' /\ (parted \subseteq apart)'
  BY <1>1 DEF ReachIInv, OneEach
<1> QED
  BY <1>5, <1>6, <1>7, <1>8 DEF ReachIInv, Reaching

\* A session begins; when its account has another, the history keeps it.
LEMMA LoginReaches ==
    ASSUME ChannelsIInv, ReachIInv, NEW i \in Ids, NEW hidden \in BOOLEAN, Login(i, hidden)
    PROVE  ReachIInv'
<1>1. PICK new : Id(new) = i /\ live' = live \cup {new}
  BY DEF Login, Id
<1>2. /\ UNCHANGED <<chat, spectating, parted>> /\ apart \subseteq apart'
      /\ i \notin apart' => \A s \in live : Id(s) # i
  BY DEF Login
<1>3. OneEach'
  BY <1>1, <1>2 DEF ReachIInv, OneEach
<1> QED
  BY <1>1, <1>2, <1>3
  DEF ReachIInv, Reaching, WatchersAreIn, HostsAreThere, WatchesItself, HostIsIn,
      OnlySpectatorsAreIn

LEMMA ReachInductive == ChannelsSpec => []ReachIInv
<1>1. ASSUME ChannelsIInv, ReachIInv, [ChannelsNext]_channelsVars
      PROVE  ReachIInv'
  <2>1. ASSUME UNCHANGED <<live, chat, spectating, parted, apart>>
        PROVE  ReachIInv'
    BY <1>1, <2>1
    DEF ReachIInv, OneEach, Reaching, WatchersAreIn, HostsAreThere, WatchesItself, HostIsIn,
        OnlySpectatorsAreIn
  <2>2. CASE UNCHANGED channelsVars
    BY <2>1, <2>2 DEF channelsVars
  <2>3. ASSUME NEW i \in Ids, NEW hidden \in BOOLEAN, Login(i, hidden)
        PROVE  ReachIInv'
    BY <1>1, <2>3, LoginReaches
  <2>4. ASSUME NEW s \in Sessions, RestrictPlayer(s) \/ LobbyJoin(s) \/ LobbyPart(s)
        PROVE  ReachIInv'
    BY <2>1, <2>4 DEF RestrictPlayer, LobbyJoin, LobbyPart
  <2>5. ASSUME NEW s \in Sessions, NEW c \in AllChannels, ChannelJoin(s, c) \/ ChannelPart(s, c)
        PROVE  ReachIInv'
    BY <1>1, <2>5, NamesReach
  <2>6. ASSUME NEW s \in Sessions,
               \/ StopSpectating(s) \/ LogoutFails(s)
               \/ \E whom \in Sessions : StartFails(s, whom)
        PROVE  ReachIInv'
    BY <1>1, <2>6, StopReaches
  <2>7. ASSUME NEW s \in Sessions, Logout(s)
        PROVE  ReachIInv'
    BY <1>1, <2>7, LogoutReaches
  <2>8. ASSUME NEW s \in Sessions, NEW whom \in Sessions, StartSpectating(s, whom)
        PROVE  ReachIInv'
    BY <1>1, <2>8, StartReaches
  <2> QED
    BY <1>1, <2>2, <2>3, <2>4, <2>5, <2>6, <2>7, <2>8 DEF ChannelsNext
<1> QED
  BY <1>1, ReachInitially, ChannelsInductive, PTL DEF ChannelsSpec

-----------------------------------------------------------------------------
(* Types *)

ChannelsTypes ==
    /\ logins \in [Ids -> Nat] /\ \A i \in Ids : logins[i] <= MaxLogins[i]
    /\ live \cup restricted \cup inLobby \cup lingering \subseteq Sessions
    /\ FromDatabase \subseteq chat.listed
    /\ parted \cup apart \subseteq Ids

\* Only instanced channels are taken off the list.
LEMMA DatabaseStaysListed ==
    ASSUME ChannelsIInv, FromDatabase \subseteq chat.listed, [ChannelsNext]_channelsVars
    PROVE  FromDatabase \subseteq chat'.listed
<1>1. chat \in Chats /\ FromDatabase \subseteq AllChannels
  BY DEF ChannelsIInv, Sound, AllChannels
<1>2. \A c \in FromDatabase : c \notin Instanced
  BY SpecChannelsDiffer DEF Instanced
<1>3. ASSUME NEW s \in Sessions, spectating[s] # None
      PROVE  FromDatabase \subseteq ChatWithout(spectating[s], s, chat).listed
  <2>1. SpecChannel(Id(spectating[s])) \notin FromDatabase /\ spectating[s] \in Sessions
        /\ Id(spectating[s]) \in Hosts
    BY <1>3, HostOfSpectator, SpecChannelsDiffer
  <2> QED
    BY <1>1, <2>1, WithoutDoes
<1>4. ASSUME NEW s \in Sessions, NEW c \in AllChannels, ChannelJoin(s, c) \/ ChannelPart(s, c)
      PROVE  FromDatabase \subseteq chat'.listed
  <2>1. CASE ChannelPart(s, c)
    <3>1. /\ c \notin Instanced => chat'.listed = chat.listed
          /\ \A d \in AllChannels : d # c => (d \in chat'.listed <=> d \in chat.listed)
      BY <1>1, <2>1, LeaveDoes DEF ChannelPart
    <3> QED
      BY <1>1, <1>2, <3>1
  <2>2. CASE ChannelJoin(s, c)
    <3>1. chat'.listed = chat.listed
      BY <1>1, <2>2 DEF ChannelJoin, JoinChat, Chats
    <3> QED
      BY <3>1
  <2> QED
    BY <1>4, <2>1, <2>2
<1>5. ASSUME NEW s \in Sessions, StopSpectating(s)
      PROVE  FromDatabase \subseteq chat'.listed
  BY <1>3, <1>5 DEF StopSpectating
<1>6. ASSUME NEW s \in Sessions, Logout(s)
      PROVE  FromDatabase \subseteq chat'.listed
  <2> DEFINE free == IF spectating[s] = None THEN chat ELSE ChatWithout(spectating[s], s, chat)
  <2>1. FromDatabase \subseteq free.listed
    BY <1>3
  <2>2. chat' = LeaveAll(s, free)
    BY <1>6 DEF Logout
  <2> HIDE DEF free
  <2>3. chat'.listed = {c \in free.listed :
                          ~(c \in free.channels[s] \cap Instanced /\ free.players[c] = {s})}
    BY <2>2 DEF LeaveAll
  <2> QED
    BY <1>2, <2>1, <2>3
<1>7. ASSUME NEW s \in Sessions, NEW whom \in Sessions, StartSpectating(s, whom)
      PROVE  FromDatabase \subseteq chat'.listed
  <2> DEFINE free == IF spectating[s] = None THEN chat ELSE ChatWithout(spectating[s], s, chat)
  <2>1. FromDatabase \subseteq free.listed /\ Sound(free, Around)
    BY <1>3, HostOfSpectator, ChatWithoutKeepsSound DEF ChannelsIInv
  <2>2. chat' = ChatWith(whom, s, free) /\ Id(whom) \in Hosts /\ s \notin restricted
    BY <1>7 DEF StartSpectating
  <2> HIDE DEF free
  <2>3. free \in Chats /\ SpecChannel(Id(whom)) \notin FromDatabase
    BY <2>1, <2>2, SpecChannelsDiffer DEF Sound
  <2> QED
    BY <1>1, <2>1, <2>2, <2>3, WithDoes
<1>8. CASE UNCHANGED chat
  BY <1>8
<1>9. ASSUME NEW i \in Ids, NEW hidden \in BOOLEAN, Login(i, hidden)
      PROVE  UNCHANGED chat
  BY <1>9 DEF Login
<1>10. ASSUME NEW s \in Sessions,
              \/ RestrictPlayer(s) \/ LogoutFails(s) \/ LobbyJoin(s) \/ LobbyPart(s)
              \/ \E whom \in Sessions : StartFails(s, whom)
       PROVE  UNCHANGED chat
  BY <1>10 DEF RestrictPlayer, LogoutFails, LobbyJoin, LobbyPart, StartFails
<1> QED
  BY <1>4, <1>5, <1>6, <1>7, <1>8, <1>9, <1>10 DEF ChannelsNext, channelsVars

LEMMA TypesInductive == ChannelsSpec => []ChannelsTypes
<1>1. ChannelsInit => ChannelsTypes
  BY ChannelsAssumption DEF ChannelsInit, ChannelsTypes
<1>2. ASSUME ChannelsIInv, ChannelsTypes, [ChannelsNext]_channelsVars
      PROVE  ChannelsTypes'
  <2>1. ASSUME UNCHANGED logins,
               live' \cup restricted' \cup inLobby' \cup lingering' \subseteq Sessions,
               parted' \cup apart' \subseteq Ids
        PROVE  ChannelsTypes'
    BY <1>2, <2>1, DatabaseStaysListed DEF ChannelsTypes
  <2>2. CASE UNCHANGED channelsVars
    BY <1>2, <2>1, <2>2 DEF channelsVars, ChannelsTypes
  <2>3. ASSUME NEW i \in Ids, NEW hidden \in BOOLEAN, Login(i, hidden)
        PROVE  ChannelsTypes'
    <3>1. /\ logins[i] < MaxLogins[i] /\ logins' = [logins EXCEPT ![i] = @ + 1]
          /\ live' = live \cup {<<i, logins'[i]>>}
          /\ restricted' \subseteq restricted \cup {<<i, logins'[i]>>}
          /\ UNCHANGED <<inLobby, lingering, parted>> /\ apart' \subseteq apart \cup {i}
      BY <2>3 DEF Login
    <3>2. logins[i] \in Nat /\ MaxLogins[i] \in Nat /\ logins'[i] = logins[i] + 1
      BY <1>2, <3>1, ChannelsAssumption DEF ChannelsTypes
    <3>3. logins' \in [Ids -> Nat] /\ \A j \in Ids : logins'[j] <= MaxLogins[j]
      BY <1>2, <3>1, <3>2 DEF ChannelsTypes
    <3>4. logins'[i] \in 1..MaxLogins[i]
      BY <3>1, <3>2
    <3>5. <<i, logins'[i]>> \in Sessions
      BY <3>4 DEF Sessions
    <3>6. FromDatabase \subseteq chat'.listed
      BY <1>2, DatabaseStaysListed DEF ChannelsTypes
    <3> QED
      BY <1>2, <3>1, <3>3, <3>5, <3>6 DEF ChannelsTypes
  <2>4. ASSUME NEW s \in Sessions, RestrictPlayer(s) \/ LobbyJoin(s) \/ LobbyPart(s)
        PROVE  ChannelsTypes'
    BY <1>2, <2>1, <2>4 DEF RestrictPlayer, LobbyJoin, LobbyPart, ChannelsTypes
  <2>5. ASSUME NEW s \in Sessions, NEW c \in AllChannels, ChannelJoin(s, c) \/ ChannelPart(s, c)
        PROVE  ChannelsTypes'
    BY <1>2, <2>1, <2>5, ChannelsAssumption DEF ChannelJoin, ChannelPart, Lingers, ChannelsTypes
  <2>6. ASSUME NEW s \in Sessions,
               \/ StopSpectating(s) \/ LogoutFails(s)
               \/ \E whom \in Sessions : StartFails(s, whom)
        PROVE  ChannelsTypes'
    BY <1>2, <2>1, <2>6 DEF StopSpectating, LogoutFails, StartFails, ChannelsTypes
  <2>7. ASSUME NEW s \in Sessions, Logout(s)
        PROVE  ChannelsTypes'
    <3>1. Id(s) \in Ids
      BY DEF Sessions, Id
    <3> QED
      BY <1>2, <2>1, <2>7, <3>1 DEF Logout, RemovePlayer, ChannelsTypes
  <2>8. ASSUME NEW s \in Sessions, NEW whom \in Sessions, StartSpectating(s, whom)
        PROVE  ChannelsTypes'
    <3>1. /\ UNCHANGED <<logins, live, restricted, inLobby>> /\ lingering' \subseteq lingering \cup {s}
          /\ parted' \cup apart' \subseteq parted \cup apart \cup {Id(whom)} /\ Id(whom) \in Ids
      BY <2>8, ChannelsAssumption DEF StartSpectating, Lingers
    <3> QED
      BY <1>2, <2>1, <3>1 DEF ChannelsTypes
  <2> QED
    BY <1>2, <2>2, <2>3, <2>4, <2>5, <2>6, <2>7, <2>8 DEF ChannelsNext
<1> QED
  BY <1>1, <1>2, ChannelsInductive, PTL DEF ChannelsSpec

-----------------------------------------------------------------------------
\* The players of a channel and the channels of a player agree, so the loop of logout
\* (player.py:415) ends; nobody who logged out is in a channel, unless a packet with the
\* old token put it there, and a channel that is off the list is empty.
THEOREM MembershipHasBothEnds == ChannelsSpec => []MembershipAgrees
<1>1. ChannelsIInv => MembershipAgrees
  BY DEF ChannelsIInv, Sound, MembershipAgrees, Around
<1> QED
  BY <1>1, ChannelsInductive, PTL

\* A host lists exactly the sessions that watch it, all of them in game or come back
\* with an old token (player.py add_spectator, remove_spectator, logout).
THEOREM SpectatingHasBothEnds == ChannelsSpec => []SpectatingAgrees
<1>1. ChannelsIInv => SpectatingAgrees
  BY DEF ChannelsIInv
<1> QED
  BY <1>1, ChannelsInductive, PTL

\* The variables keep their types, and the channels of the database stay listed.
THEOREM ChannelsTypeCorrect == ChannelsSpec => []ChannelsTypeOK
<1>1. ASSUME ChannelsIInv, ChannelsTypes
      PROVE  ChannelsTypeOK
  <2>1. \A i \in Ids : logins[i] \in 0..MaxLogins[i]
    BY <1>1, ChannelsAssumption DEF ChannelsTypes
  <2> QED
    BY <1>1, <2>1 DEF ChannelsTypeOK, ChannelsTypes, ChannelsIInv, Sound, Chats, Findable
<1> QED
  BY <1>1, ChannelsInductive, TypesInductive, PTL

\* Both ends of memberships and of spectating agree, and spectators reach their host:
\* the assertion of remove_spectator holds unless somebody used the name of the channel
\* or watched another session of its own account, and what is said to #spectator is heard
\* by the host unless its account had two sessions, or it left its spectators or was
\* restricted when the channel was made.
THEOREM ChannelsAlwaysAgree == ChannelsSpec => []ChannelsAgree
<1>1. ASSUME ChannelsIInv, ChannelsTypes, ReachIInv
      PROVE  ChannelsAgree
  <2>1. MembershipAgrees /\ SpectatingAgrees
    BY <1>1 DEF ChannelsIInv, Sound, MembershipAgrees, Around
  <2>2. ASSUME NEW s \in Sessions, NEW h, h = spectating[s], h # None
        PROVE  /\ Id(h) \notin parted => Asserts(h) /\ SpecChannel(Id(h)) \in chat.channels[s]
               /\ Id(h) \notin apart => h \in Hears(s, "#spectator")
    <3> DEFINE c == SpecChannel(Id(h))
    <3>1. s \in Sessions /\ h \in Sessions /\ Id(h) \in Hosts /\ c \in AllChannels
      BY <1>1, <2>2, WatchedHost, SpecChannelIsChannel DEF ChannelsTypes
    <3>2. /\ s \in chat.players[c] => c \in chat.listed
          /\ s \in chat.players[c] => c \in chat.channels[s]
      BY <1>1, <3>1 DEF ChannelsIInv, Sound
    <3>3. Id(h) \notin parted => s \in chat.players[c]
      BY <1>1, <2>2, <3>1 DEF ReachIInv, Reaching, WatchersAreIn
    <3>4. ASSUME Id(h) \notin apart
          PROVE  h \in chat.players[c] /\ h # s /\ s \in chat.players[c] /\ c \in chat.listed
      <4>1. s \in chat.players[c] /\ c \in chat.listed /\ h \in live /\ h # s
        BY <1>1, <2>2, <3>1, <3>2, <3>3, <3>4 DEF ReachIInv, Reaching, HostsAreThere
      <4>2. PICK g \in live : Id(g) = Id(h) /\ g \in chat.players[c]
        BY <1>1, <3>1, <3>4, <4>1 DEF ReachIInv, Reaching, HostIsIn
      <4>3. g = h
        BY <1>1, <3>4, <4>1, <4>2 DEF ReachIInv, OneEach
      <4> QED
        BY <4>1, <4>2, <4>3
    <3>5. Addressed(s, "#spectator") = c
      BY <2>2 DEF Addressed
    <3> QED
      BY <3>2, <3>3, <3>4, <3>5 DEF Asserts, Hears
  <2>3. SpectatorsReachHost
    BY <2>2 DEF SpectatorsReachHost
  <2> QED
    BY <2>1, <2>3 DEF ChannelsAgree
<1> QED
  BY <1>1, ChannelsInductive, TypesInductive, ReachInductive, PTL

-----------------------------------------------------------------------------
(***************************************************************************)
(* MatchSettings. FreemodsSplit needs of the types only that every player  *)
(* has slot mods, and that a job that picks a map holds one.               *)
(***************************************************************************)

\* What awaits the database, and what it looks for.
JobsTypeOK ==
    jobs \in [Jobs ->
                {NoJob}
                  \cup [at : {"settings"}, by : MatchPlayers, map : Maps]
                  \cup [at : {"map", "ban", "unban", "pick", "picked"}, map : Maps]
                  \cup [at : {"pool"}, pool : Pools]]

SettingsIInv == SettingsTypeOK /\ JobsTypeOK /\ FreemodsSplit

LEMMA SettingsInitially == SettingsInit => SettingsIInv
<1> SUFFICES ASSUME SettingsInit PROVE SettingsIInv
  OBVIOUS
<1>1. SettingsTypeOK
  BY DEF SettingsInit, SettingsTypeOK
<1>2. JobsTypeOK
  BY DEF SettingsInit, JobsTypeOK
<1>3. FreemodsSplit
  BY DEF SettingsInit, FreemodsSplit
<1> QED
  BY <1>1, <1>2, <1>3 DEF SettingsIInv

\* The mods of the match spread over the slots, or those of the host gathered in
\* the match, split as they should whatever they were before.
LEMMA SpreadAndGatherSplit ==
    ASSUME SettingsTypeOK, FreemodsSplit, UNCHANGED seated, SpreadMods \/ GatherMods
    PROVE  /\ FreemodsSplit'
           /\ freemods' \in BOOLEAN /\ asMade' \in BOOLEAN /\ mods' \subseteq Mods
           /\ slotMods' \in [MatchPlayers -> SUBSET Mods]
<1>1. CASE SpreadMods
  BY <1>1 DEF SettingsTypeOK, FreemodsSplit, SpreadMods, OfAllSlots, Speed, NoSpeed
<1>2. CASE GatherMods
  BY <1>2 DEF SettingsTypeOK, FreemodsSplit, GatherMods, OfAllSlots, Speed
<1> QED
  BY <1>1, <1>2

LEMMA SeatsPreserve ==
    ASSUME SettingsIInv, NEW p \in MatchPlayers,
           JoinMatch(p) \/ LeaveMatch(p) \/ TransferHost(p)
    PROVE  SettingsIInv'
<1> USE DEF SettingsIInv, SettingsTypeOK, JobsTypeOK, FreemodsSplit
<1>1. CASE JoinMatch(p)
  BY <1>1 DEF JoinMatch
<1>2. CASE LeaveMatch(p)
  BY <1>2 DEF LeaveMatch
<1>3. CASE TransferHost(p)
  BY <1>3 DEF TransferHost
<1> QED
  BY <1>1, <1>2, <1>3

LEMMA ModsPreserve ==
    ASSUME SettingsIInv,
           \/ \E p \in MatchPlayers, chosen \in SUBSET Mods, byCommand \in BOOLEAN :
                 ChangeMods(p, chosen, byCommand)
           \/ \E on \in BOOLEAN : MpFreemods(on)
    PROVE  SettingsIInv'
<1>1. ASSUME NEW p \in MatchPlayers, NEW chosen \in SUBSET Mods, NEW byCommand \in BOOLEAN,
             ChangeMods(p, chosen, byCommand)
      PROVE  SettingsIInv'
  <2> USE DEF SettingsIInv, SettingsTypeOK, JobsTypeOK, FreemodsSplit
  <2>1. CASE freemods
    BY <1>1, <2>1 DEF ChangeMods, Speed, NoSpeed
  <2>2. CASE ~freemods
    BY <1>1, <2>2 DEF ChangeMods
  <2> QED
    BY <2>1, <2>2
<1>2. ASSUME NEW on \in BOOLEAN, MpFreemods(on)
      PROVE  SettingsIInv'
  <2>1. /\ UNCHANGED <<seated, host, map, pool, bans, jobs>>
        /\ SpreadMods \/ GatherMods
    BY <1>2 DEF MpFreemods
  <2>2. /\ FreemodsSplit'
        /\ freemods' \in BOOLEAN /\ asMade' \in BOOLEAN /\ mods' \subseteq Mods
        /\ slotMods' \in [MatchPlayers -> SUBSET Mods]
    BY <2>1, SpreadAndGatherSplit DEF SettingsIInv
  <2>3. SettingsTypeOK' /\ JobsTypeOK'
    BY <2>1, <2>2 DEF SettingsIInv, SettingsTypeOK, JobsTypeOK
  <2> QED
    BY <2>2, <2>3 DEF SettingsIInv
<1> QED
  BY <1>1, <1>2

LEMMA MapsPreserve ==
    ASSUME SettingsIInv, NEW k \in Jobs,
           \/ \E on \in BOOLEAN, m \in Maps \cup {None} : ChangeSettings(k, on, m)
           \/ SetMap(k)
           \/ \E m \in Maps : MpMap(k, m)
           \/ FoundMap(k)
    PROVE  SettingsIInv'
<1>1. ASSUME NEW on \in BOOLEAN, NEW m \in Maps \cup {None}, ChangeSettings(k, on, m)
      PROVE  SettingsIInv'
  <2>1. UNCHANGED <<seated, host, pool, bans>>
    BY <1>1 DEF ChangeSettings
  <2>2. map' \in Maps \cup {None} /\ JobsTypeOK'
    <3>1. CASE m = None
      BY <1>1, <3>1 DEF ChangeSettings, Select, SettingsIInv, JobsTypeOK
    <3>2. CASE m # None /\ map = None
      BY <1>1, <3>2 DEF ChangeSettings, Start, NoJob, SettingsIInv, SettingsTypeOK, JobsTypeOK
    <3>3. CASE m # None /\ map # None
      BY <1>1, <3>3 DEF ChangeSettings, SettingsIInv, SettingsTypeOK, JobsTypeOK
    <3> QED
      BY <3>1, <3>2, <3>3
  <2>3. /\ FreemodsSplit'
        /\ freemods' \in BOOLEAN /\ asMade' \in BOOLEAN /\ mods' \subseteq Mods
        /\ slotMods' \in [MatchPlayers -> SUBSET Mods]
    <3>1. CASE on = freemods
      BY <1>1, <2>1, <3>1 DEF ChangeSettings, SettingsIInv, SettingsTypeOK, FreemodsSplit
    <3>2. CASE on # freemods
      <4>1. SpreadMods \/ GatherMods
        BY <1>1, <3>2 DEF ChangeSettings
      <4> QED
        BY <2>1, <4>1, SpreadAndGatherSplit DEF SettingsIInv
    <3> QED
      BY <3>1, <3>2
  <2> QED
    BY <2>1, <2>2, <2>3 DEF SettingsIInv, SettingsTypeOK
<1> USE DEF SettingsIInv, SettingsTypeOK, JobsTypeOK, FreemodsSplit
<1>2. CASE SetMap(k)
  BY <1>2 DEF SetMap, At, End, Select, NoJob
<1>3. ASSUME NEW m \in Maps, MpMap(k, m)
      PROVE  SettingsIInv'
  BY <1>3 DEF MpMap, Start, NoJob
<1>4. CASE FoundMap(k)
  BY <1>4 DEF FoundMap, At, End, Select, NoJob
<1> QED
  BY <1>1, <1>2, <1>3, <1>4

LEMMA PoolsPreserve ==
    ASSUME SettingsIInv, NEW k \in Jobs,
           \/ \E new \in Pools : LoadPool(k, new)
           \/ \E m \in Maps, step \in {"ban", "unban", "pick"} : ForPick(k, step, m)
           \/ FoundPool(k) \/ FoundBan(k) \/ FoundPick(k)
           \/ PickMap(k) \/ NoMapToPick(k) \/ UnloadPool \/ ClearBans
    PROVE  SettingsIInv'
<1>1. ASSUME PickMap(k)
      PROVE  SettingsIInv'
  <2>1. jobs[k].map \in Maps
    BY <1>1 DEF PickMap, At, NoJob, SettingsIInv, JobsTypeOK
  <2>2. PickOf[jobs[k].map] \subseteq Mods
    BY <2>1, SettingsAssumption
  <2>3. SettingsTypeOK' /\ FreemodsSplit'
    BY <1>1, <2>1, <2>2
    DEF PickMap, Select, OfAllSlots, SettingsIInv, SettingsTypeOK, FreemodsSplit
  <2>4. JobsTypeOK'
    BY <1>1 DEF PickMap, End, SettingsIInv, JobsTypeOK
  <2> QED
    BY <2>3, <2>4 DEF SettingsIInv
<1> USE DEF SettingsIInv, SettingsTypeOK, JobsTypeOK, FreemodsSplit
<1>2. ASSUME NEW new \in Pools, LoadPool(k, new)
      PROVE  SettingsIInv'
  BY <1>2 DEF LoadPool, Start, NoJob
<1>3. ASSUME NEW m \in Maps, NEW step \in {"ban", "unban", "pick"}, ForPick(k, step, m)
      PROVE  SettingsIInv'
  BY <1>3 DEF ForPick, Start, NoJob
<1>4. CASE FoundPool(k)
  BY <1>4 DEF FoundPool, At, End, NoJob
<1>5. CASE FoundBan(k)
  BY <1>5 DEF FoundBan, At, End, NoJob
<1>6. CASE FoundPick(k)
  BY <1>6 DEF FoundPick, At, End, NoJob
<1>7. CASE NoMapToPick(k)
  BY <1>7 DEF NoMapToPick, At, End, NoJob
<1>8. CASE UnloadPool
  BY <1>8 DEF UnloadPool
<1>9. CASE ClearBans
  BY <1>9 DEF ClearBans
<1> QED
  BY <1>1, <1>2, <1>3, <1>4, <1>5, <1>6, <1>7, <1>8, <1>9

LEMMA SettingsStep ==
    ASSUME SettingsIInv, [SettingsNext]_settingsVars
    PROVE  SettingsIInv'
<1>1. CASE UNCHANGED settingsVars
  BY <1>1
  DEF settingsVars, SettingsIInv, SettingsTypeOK, JobsTypeOK, FreemodsSplit
<1>2. CASE UnloadPool \/ ClearBans
  BY <1>2 DEF UnloadPool, ClearBans, SettingsIInv, SettingsTypeOK, JobsTypeOK, FreemodsSplit
<1>3. CASE \E p \in MatchPlayers : JoinMatch(p) \/ LeaveMatch(p) \/ TransferHost(p)
  BY <1>3, SeatsPreserve
<1>4. CASE \/ \E p \in MatchPlayers, chosen \in SUBSET Mods, byCommand \in BOOLEAN :
                 ChangeMods(p, chosen, byCommand)
           \/ \E on \in BOOLEAN : MpFreemods(on)
  BY <1>4, ModsPreserve
<1>5. CASE \E k \in Jobs :
             \/ \E on \in BOOLEAN, m \in Maps \cup {None} : ChangeSettings(k, on, m)
             \/ SetMap(k)
             \/ \E m \in Maps : MpMap(k, m)
             \/ FoundMap(k)
  BY <1>5, MapsPreserve
<1>6. CASE \E k \in Jobs :
             \/ \E new \in Pools : LoadPool(k, new)
             \/ \E m \in Maps, step \in {"ban", "unban", "pick"} : ForPick(k, step, m)
             \/ FoundPool(k) \/ FoundBan(k) \/ FoundPick(k)
             \/ PickMap(k) \/ NoMapToPick(k)
  BY <1>6, PoolsPreserve
<1>7. \/ UNCHANGED settingsVars
      \/ UnloadPool \/ ClearBans
      \/ \E p \in MatchPlayers : JoinMatch(p) \/ LeaveMatch(p) \/ TransferHost(p)
      \/ \E p \in MatchPlayers, chosen \in SUBSET Mods, byCommand \in BOOLEAN :
            ChangeMods(p, chosen, byCommand)
      \/ \E on \in BOOLEAN : MpFreemods(on)
      \/ \E k \in Jobs :
            \/ \E on \in BOOLEAN, m \in Maps \cup {None} : ChangeSettings(k, on, m)
            \/ SetMap(k)
            \/ \E m \in Maps : MpMap(k, m)
            \/ FoundMap(k)
      \/ \E k \in Jobs :
            \/ \E new \in Pools : LoadPool(k, new)
            \/ \E m \in Maps, step \in {"ban", "unban", "pick"} : ForPick(k, step, m)
            \/ FoundPool(k) \/ FoundBan(k) \/ FoundPick(k)
            \/ PickMap(k) \/ NoMapToPick(k)
  BY Zenon DEF SettingsNext
<1> QED
  BY <1>1, <1>2, <1>3, <1>4, <1>5, <1>6, <1>7

LEMMA SettingsInductive == SettingsSpec => []SettingsIInv
<1>1. SettingsIInv /\ [SettingsNext]_settingsVars => SettingsIInv'
  BY SettingsStep
<1> QED
  BY <1>1, SettingsInitially, PTL DEF SettingsSpec

\* The settings keep their types: the host of a match has a slot of it, and its mods
\* are mods, whatever is changed while a packet or command awaits its map.
THEOREM SettingsTypeCorrect == SettingsSpec => []SettingsTypeOK
<1>1. SettingsIInv => SettingsTypeOK
  BY DEF SettingsIInv
<1> QED
  BY <1>1, SettingsInductive, PTL

\* Under free mods the match has only speed changing mods, once its mods or its mode changed
\* after the packet that made it, and the slots no such mods; without free mods no slot has
\* mods (cho.py MatchCreate, MatchChangeSettings, MatchChangeMods,
\* commands.py mp_mods, mp_freemods, mp_pick).
THEOREM ModsAreSplit == SettingsSpec => []FreemodsSplit
<1>1. SettingsIInv => FreemodsSplit
  BY DEF SettingsIInv
<1> QED
  BY <1>1, SettingsInductive, PTL

-----------------------------------------------------------------------------
(***************************************************************************)
(* Scrim. ScrimSound is not inductive: an award that waits gives its point *)
(* later, to the winner it was made for. RoundsSpent counts the wins in    *)
(* the list and the awards that still wait against the rounds that were    *)
(* completed, and Undisturbed that in a scrim nobody meddled with, awards  *)
(* come one at a time and meet the teams they were made for.               *)
(***************************************************************************)

-----------------------------------------------------------------------------
(* Entries of a list *)

Entries(list, w) == {i \in 1..Len(list) : list[i] = w}

LEMMA EntriesAreFinite ==
    ASSUME NEW T, NEW list \in Seq(T), NEW w
    PROVE  /\ IsFiniteSet(Entries(list, w))
           /\ Cardinality(Entries(list, w)) \in 0..Len(list)
<1>1. Len(list) \in Nat /\ IsFiniteSet(1..Len(list)) /\ Cardinality(1..Len(list)) = Len(list)
  BY FS_Interval, LenProperties
<1>2. Entries(list, w) \in SUBSET (1..Len(list))
  BY DEF Entries
<1>3. IsFiniteSet(Entries(list, w)) /\ Cardinality(Entries(list, w)) <= Len(list)
  BY <1>1, <1>2, FS_Subset
<1> QED
  BY <1>1, <1>3, FS_CardinalityType

LEMMA EntriesOfAppend ==
    ASSUME NEW T, NEW list \in Seq(T), NEW e \in T, NEW w
    PROVE  Cardinality(Entries(Append(list, e), w)) =
             Cardinality(Entries(list, w)) + (IF e = w THEN 1 ELSE 0)
<1> DEFINE n == Len(list) + 1
<1>1. /\ Len(list) \in Nat /\ Len(Append(list, e)) = n
      /\ \A i \in 1..Len(list) : Append(list, e)[i] = list[i]
      /\ Append(list, e)[n] = e
  BY AppendProperties, LenProperties
<1>2. n \notin Entries(list, w)
  BY <1>1 DEF Entries
<1>3. Entries(Append(list, e), w) = IF e = w THEN Entries(list, w) \cup {n} ELSE Entries(list, w)
  BY <1>1 DEF Entries
<1>4. CASE e = w
  <2> HIDE DEF n
  <2>1. Cardinality(Entries(list, w) \cup {n}) = Cardinality(Entries(list, w)) + 1
    BY <1>2, EntriesAreFinite, FS_AddElement
  <2> QED
    BY <1>3, <1>4, <2>1
<1>5. CASE e # w
  BY <1>3, <1>5, EntriesAreFinite
<1> QED
  BY <1>4, <1>5

LEMMA EntriesOfFront ==
    ASSUME NEW T, NEW list \in Seq(T), list # <<>>, NEW w
    PROVE  /\ Front(list) \in Seq(T) /\ Len(Front(list)) = Len(list) - 1 /\ Last(list) \in T
           /\ Cardinality(Entries(list, w)) =
                Cardinality(Entries(Front(list), w)) + (IF Last(list) = w THEN 1 ELSE 0)
<1>1. Len(list) \in Nat \ {0}
  BY EmptySeq
<1>2. /\ Front(list) \in Seq(T) /\ Len(Front(list)) = Len(list) - 1
      /\ \A i \in 1..Len(list) - 1 : Front(list)[i] = list[i]
  <2>1. \A i \in 1..Len(list) - 1 : list[i] \in T
    BY <1>1, ElementOfSeq
  <2> DEFINE m == Len(list) - 1
  <2>2. m \in Int /\ m >= 0
    BY <1>1
  <2>3. \A i \in 1..m : list[i] \in T
    BY <2>1
  <2> HIDE DEF m
  <2>4. /\ SubSeq(list, 1, m) \in Seq(T)
        /\ Len(SubSeq(list, 1, m)) = IF 1 <= m THEN m - 1 + 1 ELSE 0
        /\ \A i \in 1..m - 1 + 1 : SubSeq(list, 1, m)[i] = list[1 + i - 1]
    BY <2>2, <2>3, SubSeqProperties
  <2>5. /\ Len(SubSeq(list, 1, m)) = m
        /\ \A i \in 1..m : SubSeq(list, 1, m)[i] = list[i]
    BY <2>2, <2>4
  <2> QED
    BY <2>4, <2>5 DEF Front, m
<1>3. Last(list) \in T
  BY <1>1, ElementOfSeq DEF Last
<1>4. /\ Append(Front(list), Last(list)) \in Seq(T)
      /\ Len(Append(Front(list), Last(list))) = Len(list)
      /\ \A i \in 1..Len(list) : Append(Front(list), Last(list))[i] = list[i]
  BY <1>1, <1>2, <1>3, AppendProperties DEF Last
<1>5. Append(Front(list), Last(list)) = list
  BY <1>4, SeqEqual
<1>6. Cardinality(Entries(Append(Front(list), Last(list)), w)) =
        Cardinality(Entries(Front(list), w)) + (IF Last(list) = w THEN 1 ELSE 0)
  BY <1>2, <1>3, EntriesOfAppend
<1> QED
  BY <1>2, <1>3, <1>5, <1>6

-----------------------------------------------------------------------------
(* The invariant *)

CreatedTasks == [at : {"created"}, left : SUBSET Slots, ffa : {FALSE}, scored : {{}}]
WaitingTasks == [at : {"waiting"}, left : SUBSET Slots, ffa : BOOLEAN, scored : SUBSET Winners]
AwardTypes ==
    {NoTask} \cup CreatedTasks \cup WaitingTasks

ScrimShape ==
    /\ seat \in [Slots -> Players \cup {None}]
    /\ side \in [Slots -> Sides \cup {"neutral"}]
    /\ type \in {"ffa", "vs"} /\ scrimming \in BOOLEAN /\ meddled \in BOOLEAN
    /\ winningPts \in 0..8
    /\ points \in [Winners -> Nat]
    /\ winners \in Seq(Winners \cup {None})
    /\ awards \in [Awards -> AwardTypes]
    /\ rounds \in 0..MaxRounds

\* A round gives one task, and a task one entry of the list at most.
RoundsSpent == IsFiniteSet(Waiting) /\ Len(winners) + Cardinality(Waiting) <= rounds

\* What an unmeddled scrim adds: one task at a time, which sees the teams it saw at first.
Undisturbed ==
    /\ scrimming => winningPts > 0
    /\ ~meddled =>
         /\ \A j, k \in Waiting : j = k
         /\ ~scrimming => points = NoPoints /\ Waiting = {}
         /\ \A k \in Waiting : awards[k].at = "waiting" =>
              /\ awards[k].ffa = (type = "ffa")
              /\ awards[k].scored \subseteq (IF type = "ffa" THEN Players ELSE Sides)

ScrimIInv == ScrimShape /\ RoundsSpent /\ Undisturbed /\ ScrimSound

LEMMA ScrimInitially == ScrimInit => ScrimIInv
<1> SUFFICES ASSUME ScrimInit
             PROVE  ScrimIInv
  OBVIOUS
<1>1. ScrimShape
  <2>1. /\ points \in [Winners -> Nat]
        /\ awards \in [Awards -> AwardTypes]
        /\ winners \in Seq(Winners \cup {None})
    BY EmptySeq DEF ScrimInit, NoPoints, AwardTypes
  <2>2. 0 \in 0..8 /\ 0 \in 0..MaxRounds
    BY ScrimAssumption
  <2> QED
    BY <2>1, <2>2 DEF ScrimInit, ScrimShape
<1>2. Waiting = {}
  BY DEF ScrimInit, Waiting
<1>3. RoundsSpent
  BY <1>2, FS_EmptySet DEF RoundsSpent, ScrimInit
<1>4. Undisturbed
  BY <1>2 DEF Undisturbed, ScrimInit
<1>5. PointsAreWins
  <2>1. \A w \in Winners : {i \in 1..Len(winners) : winners[i] = w} = {}
    BY DEF ScrimInit
  <2> QED
    BY <2>1, FS_EmptySet DEF PointsAreWins, ScrimInit, NoPoints
<1>6. ScrimUndecided /\ TeamsHaveSides
  BY DEF ScrimInit, ScrimUndecided, TeamsHaveSides
<1> QED
  BY <1>1, <1>3, <1>4, <1>5, <1>6 DEF ScrimIInv, ScrimSound

-----------------------------------------------------------------------------
(* The points and the list *)

LEMMA ResetAgrees ==
    ASSUME ResetScrim
    PROVE  /\ points' = NoPoints /\ points' \in [Winners -> Nat]
           /\ winners' \in Seq(Winners \cup {None}) /\ Len(winners') = 0
           /\ PointsAreWins'
<1>1. \A w \in Winners : {i \in 1..Len(winners') : winners'[i] = w} = {}
  BY DEF ResetScrim
<1> QED
  BY <1>1, FS_EmptySet DEF ResetScrim, PointsAreWins, NoPoints

\* An award adds to the points of a winner; a tie only to the list.
LEMMA AppendAgrees ==
    ASSUME ScrimShape, PointsAreWins, NEW w \in Winners \cup {None},
           winners' = Append(winners, w),
           points' = IF w = None THEN points ELSE [points EXCEPT ![w] = @ + 1]
    PROVE  /\ points' \in [Winners -> Nat]
           /\ winners' \in Seq(Winners \cup {None}) /\ Len(winners') = Len(winners) + 1
           /\ PointsAreWins'
<1> DEFINE T == Winners \cup {None}
<1>0. winners \in Seq(T) /\ w \in T
  BY DEF ScrimShape
<1> HIDE DEF T
<1>1. winners' \in Seq(T) /\ Len(winners') = Len(winners) + 1
  BY <1>0, AppendProperties
<1>2. points' \in [Winners -> Nat]
  BY DEF ScrimShape
<1>3. ASSUME NEW v \in Winners
      PROVE  points'[v] = Cardinality(Entries(winners', v))
  <2>1. Cardinality(Entries(winners', v)) =
          Cardinality(Entries(winners, v)) + (IF w = v THEN 1 ELSE 0)
    BY <1>0, EntriesOfAppend
  <2>2. points[v] = Cardinality(Entries(winners, v)) /\ points[v] \in Nat
    BY DEF PointsAreWins, Entries, ScrimShape
  <2>3. v # None
    BY ScrimAssumption
  <2>4. points'[v] = points[v] + (IF w = v THEN 1 ELSE 0)
    BY <2>2, <2>3 DEF ScrimShape
  <2> QED
    BY <2>1, <2>2, <2>4
<1> QED
  BY <1>1, <1>2, <1>3 DEF PointsAreWins, Entries, T

LEMMA TakeBackAgrees ==
    ASSUME ScrimShape, PointsAreWins, TakeBack
    PROVE  /\ points' \in [Winners -> Nat]
           /\ \A w \in Winners : points'[w] <= points[w]
           /\ winners' \in Seq(Winners \cup {None}) /\ Len(winners') = Len(winners) - 1
           /\ PointsAreWins'
<1> DEFINE last == Last(winners)
           T == Winners \cup {None}
<1>1. /\ winners \in Seq(T) /\ winners # <<>> /\ last # None
      /\ winners' = Front(winners)
      /\ points' = [points EXCEPT ![last] = @ - 1]
  BY DEF ScrimShape, TakeBack
<1> HIDE DEF T
<1>2. /\ winners' \in Seq(T) /\ Len(winners') = Len(winners) - 1
      /\ last \in T
  BY <1>1, EntriesOfFront
<1>3. ASSUME NEW v \in Winners
      PROVE  /\ points[v] = points'[v] + (IF last = v THEN 1 ELSE 0)
             /\ points'[v] = Cardinality(Entries(winners', v))
             /\ points'[v] \in Nat
  <2>1. Cardinality(Entries(winners, v)) =
          Cardinality(Entries(winners', v)) + (IF last = v THEN 1 ELSE 0)
    BY <1>1, EntriesOfFront
  <2>2. points[v] = Cardinality(Entries(winners, v)) /\ points[v] \in Nat
    BY DEF PointsAreWins, Entries, ScrimShape
  <2>3. Cardinality(Entries(winners', v)) \in Nat
    BY <1>2, EntriesAreFinite
  <2> HIDE DEF last
  <2>4. points'[v] = points[v] - (IF last = v THEN 1 ELSE 0)
    BY <1>1, <2>2 DEF ScrimShape
  <2> QED
    BY <2>1, <2>2, <2>3, <2>4
<1>4. points' \in [Winners -> Nat]
  <2>1. DOMAIN points' = Winners /\ points' = [v \in Winners |-> points'[v]]
    BY <1>1 DEF ScrimShape
  <2> QED
    BY <1>3, <2>1
<1>5. \A v \in Winners : points'[v] <= points[v]
  BY <1>3
<1>6. PointsAreWins'
  BY <1>3 DEF PointsAreWins, Entries
<1> QED
  BY <1>2, <1>4, <1>5, <1>6 DEF T

-----------------------------------------------------------------------------
(* The steps *)

\* A step that leaves the tasks alone meddles with those that wait, or changes nothing
\* they look at.
LEMMA PlayersPreserve ==
    ASSUME ScrimIInv, NEW s \in Slots,
           \/ LeaveSlot(s) \/ ChangeTeam(s)
           \/ \E p \in Players : SitDown(s, p)
           \/ \E t \in Slots : ChangeSlot(s, t)
    PROVE  ScrimIInv'
<1>1. /\ UNCHANGED <<type, scrimming, winningPts, points, winners, awards, rounds>>
      /\ meddled' \in BOOLEAN /\ (~meddled' => ~meddled)
      /\ seat' \in [Slots -> Players \cup {None}]
      /\ side' \in [Slots -> Sides \cup {"neutral"}]
  BY DEF LeaveSlot, ChangeTeam, SitDown, ChangeSlot, Meddles, ScrimIInv, ScrimShape, Sides
<1>2. TeamsHaveSides'
  <2>1. type' = type
    BY <1>1
  <2>2. CASE LeaveSlot(s)
    BY <2>1, <2>2 DEF LeaveSlot, TeamsHaveSides, Seated, ScrimIInv, ScrimSound, ScrimShape
  <2>3. CASE ChangeTeam(s)
    BY <2>1, <2>3 DEF ChangeTeam, TeamsHaveSides, Seated, ScrimIInv, ScrimSound, ScrimShape, Sides
  <2>4. ASSUME NEW p \in Players, SitDown(s, p)
        PROVE  TeamsHaveSides'
    BY <2>1, <2>4 DEF SitDown, TeamsHaveSides, Seated, ScrimIInv, ScrimSound, ScrimShape, Sides
  <2>5. ASSUME NEW t \in Slots, ChangeSlot(s, t)
        PROVE  TeamsHaveSides'
    BY <2>1, <2>5 DEF ChangeSlot, TeamsHaveSides, Seated, ScrimIInv, ScrimSound, ScrimShape
  <2> QED
    BY <2>2, <2>3, <2>4, <2>5
<1>3. Waiting' = Waiting
  BY <1>1 DEF Waiting
<1>4. ScrimShape' /\ RoundsSpent'
  BY <1>1, <1>3 DEF ScrimIInv, ScrimShape, RoundsSpent
<1>5. Undisturbed'
  BY <1>1, <1>3 DEF ScrimIInv, Undisturbed
<1>6. PointsAreWins' /\ ScrimUndecided'
  BY <1>1 DEF ScrimIInv, ScrimSound, PointsAreWins, ScrimUndecided
<1> QED
  BY <1>2, <1>4, <1>5, <1>6 DEF ScrimIInv, ScrimSound

LEMMA RefereesPreserve ==
    ASSUME ScrimIInv,
           \/ \E n \in BestOf : StartScrim(n)
           \/ EndScrim \/ Rematch \/ TakeBack
           \/ \E t \in {"ffa", "vs"} : Teams(t) \/ ChangeTeamType(t)
    PROVE  ScrimIInv'
<1>1. /\ UNCHANGED <<awards, seat, rounds>> /\ Meddles
      /\ type' \in {"ffa", "vs"} /\ scrimming' \in BOOLEAN /\ meddled' \in BOOLEAN
      /\ Waiting' = Waiting
      /\ side' \in [Slots -> Sides \cup {"neutral"}]
      /\ winningPts' \in 0..8
      /\ scrimming' => winningPts' > 0
  <2>1. UNCHANGED <<awards, seat, rounds>> /\ Meddles
    BY DEF StartScrim, EndScrim, Rematch, TakeBack, Teams, ChangeTeamType
  <2>2. Waiting' = Waiting /\ meddled' \in BOOLEAN
    BY <2>1 DEF Waiting, Meddles
  <2>3. type' \in {"ffa", "vs"} /\ scrimming' \in BOOLEAN
    BY DEF StartScrim, EndScrim, Rematch, TakeBack, Teams, ChangeTeamType, ScrimIInv, ScrimShape
  <2>4. side' \in [Slots -> Sides \cup {"neutral"}]
    <3>1. CASE side' = side
      BY <3>1 DEF ScrimIInv, ScrimShape
    <3>2. CASE \E t \in {"ffa", "vs"} : Teams(t) \/ ChangeTeamType(t)
      BY <3>2 DEF Teams, ChangeTeamType, Default, Sides, ScrimIInv, ScrimShape
    <3> QED
      BY <3>1, <3>2 DEF StartScrim, EndScrim, Rematch, TakeBack
  <2>5. winningPts' \in 0..8 /\ (scrimming' => winningPts' > 0)
    <3>1. ASSUME NEW n \in BestOf, StartScrim(n)
          PROVE  winningPts' \in 1..8
      BY <3>1 DEF StartScrim, BestOf
    <3>2. CASE UNCHANGED winningPts /\ (scrimming' => scrimming \/ winningPts # 0)
      BY <3>2 DEF ScrimIInv, ScrimShape, Undisturbed
    <3>3. CASE EndScrim \/ Rematch \/ TakeBack \/ \E t \in {"ffa", "vs"} : Teams(t) \/ ChangeTeamType(t)
      BY <3>2, <3>3 DEF EndScrim, Rematch, TakeBack, Teams, ChangeTeamType
    <3> QED
      BY <3>1, <3>3
  <2> QED
    BY <2>1, <2>2, <2>3, <2>4, <2>5
<1>2. TeamsHaveSides'
  <2>1. CASE UNCHANGED <<type, side>>
    BY <1>1, <2>1 DEF TeamsHaveSides, Seated, ScrimIInv, ScrimSound
  <2>2. CASE \E t \in {"ffa", "vs"} : Teams(t) \/ ChangeTeamType(t)
    BY <1>1, <2>2 DEF Teams, ChangeTeamType, TeamsHaveSides, Seated, Default, Sides, ScrimIInv, ScrimShape
  <2> QED
    BY <2>1, <2>2 DEF StartScrim, EndScrim, Rematch, TakeBack
<1>3. /\ points' \in [Winners -> Nat] /\ PointsAreWins'
      /\ winners' \in Seq(Winners \cup {None}) /\ Len(winners') <= Len(winners)
      /\ \/ points' = NoPoints
         \/ scrimming = scrimming' /\ winningPts' = winningPts
              /\ \A w \in Winners : points'[w] <= points[w]
         \/ ~scrimming /\ points' = points
  <2>1. CASE ResetScrim
    BY <2>1, ResetAgrees, LenProperties DEF ScrimIInv, ScrimShape
  <2>2. CASE TakeBack
    BY <2>2, TakeBackAgrees DEF ScrimIInv, ScrimSound, ScrimShape, TakeBack
  <2>3. CASE UNCHANGED <<points, winners>>
    <3>1. points' \in [Winners -> Nat] /\ winners' \in Seq(Winners \cup {None})
          /\ Len(winners') <= Len(winners) /\ PointsAreWins'
      BY <2>3 DEF ScrimIInv, ScrimSound, ScrimShape, PointsAreWins
    <3>2. ~scrimming \/ (scrimming' = scrimming /\ winningPts' = winningPts) \/ ResetScrim
      BY DEF StartScrim, EndScrim, Rematch, TakeBack, Teams, ChangeTeamType, ScrimIInv, ScrimShape
    <3> QED
      BY <2>1, <2>3, <3>1, <3>2 DEF ScrimIInv, ScrimShape
  <2> QED
    BY <2>1, <2>2, <2>3 DEF StartScrim, EndScrim, Rematch, TakeBack, Teams, ChangeTeamType
<1>4. ScrimShape'
  BY <1>1, <1>3 DEF ScrimIInv, ScrimShape
<1>5. RoundsSpent'
  <2>1. Cardinality(Waiting) \in Nat /\ Len(winners) \in Nat /\ Len(winners') \in Nat
    BY <1>3, FS_CardinalityType DEF ScrimIInv, ScrimShape, RoundsSpent
  <2> QED
    BY <1>1, <1>3, <2>1 DEF ScrimIInv, RoundsSpent, ScrimShape
<1>6. ~meddled' => Waiting' = {} /\ ~meddled
  BY <1>1 DEF Meddles
<1>7. ~meddled' /\ ~scrimming' => points' = NoPoints
  BY <1>3, <1>6 DEF ScrimIInv, Undisturbed, StartScrim, EndScrim, Rematch, TakeBack, Teams,
     ChangeTeamType, ResetScrim
<1>8. Undisturbed'
  BY <1>1, <1>6, <1>7 DEF Undisturbed
<1>9. ScrimUndecided'
  <2>1. ASSUME ~meddled', scrimming', NEW w \in Winners
        PROVE  points'[w] < winningPts'
    <3>1. points'[w] \in Nat /\ winningPts' \in Nat /\ winningPts' > 0
      BY <1>1, <1>3, <2>1
    <3>2. CASE points' = NoPoints
      BY <3>1, <3>2 DEF NoPoints
    <3>3. CASE scrimming = scrimming' /\ winningPts' = winningPts
               /\ \A v \in Winners : points'[v] <= points[v]
      <4>1. points[w] < winningPts
        BY <1>6, <2>1, <3>3 DEF ScrimIInv, ScrimSound, ScrimUndecided
      <4>2. points[w] \in Nat /\ winningPts \in Nat
        BY DEF ScrimIInv, ScrimShape
      <4> QED
        BY <3>1, <3>3, <4>1, <4>2
    <3>4. CASE ~scrimming /\ points' = points
      BY <1>6, <2>1, <3>2, <3>4 DEF ScrimIInv, Undisturbed
    <3> QED
      BY <1>3, <3>2, <3>3, <3>4
  <2> QED
    BY <2>1 DEF ScrimUndecided
<1> QED
  BY <1>2, <1>3, <1>4, <1>5, <1>8, <1>9 DEF ScrimIInv, ScrimSound

\* A task that ends gives its place up, and the list one entry at most.
LEMMA TaskEnds ==
    ASSUME ScrimIInv, NEW k \in Waiting,
           awards' = [awards EXCEPT ![k] = NoTask], UNCHANGED <<rounds, meddled, type>>,
           Len(winners') \in Nat, Len(winners') <= Len(winners) + 1
    PROVE  /\ awards' \in [Awards -> AwardTypes] /\ RoundsSpent'
           /\ Waiting' = Waiting \ {k}
           /\ ~meddled => Waiting' = {}
           /\ \A j \in Waiting' : awards'[j] = awards[j]
<1>1. k \in Awards /\ awards[k] # NoTask /\ awards \in [Awards -> AwardTypes]
  BY DEF Waiting, ScrimIInv, ScrimShape
<1>2. /\ awards' \in [Awards -> AwardTypes] /\ Waiting' = Waiting \ {k}
      /\ \A j \in Waiting' : awards'[j] = awards[j]
  BY <1>1 DEF Waiting, AwardTypes
<1>3. IsFiniteSet(Waiting') /\ Cardinality(Waiting') = Cardinality(Waiting) - 1
  BY <1>2, FS_RemoveElement DEF ScrimIInv, RoundsSpent
<1>4. Cardinality(Waiting) \in Nat /\ Len(winners) \in Nat /\ rounds \in Nat
  BY FS_CardinalityType DEF ScrimIInv, RoundsSpent, ScrimShape
<1>5. RoundsSpent'
  BY <1>3, <1>4 DEF ScrimIInv, RoundsSpent
<1> QED
  BY <1>2, <1>5 DEF ScrimIInv, Undisturbed

LEMMA CompletePreserves ==
    ASSUME ScrimIInv, NEW k \in Awards, NEW played \in SUBSET Slots, Complete(k, played)
    PROVE  ScrimIInv'
<1>1. /\ UNCHANGED <<seat, side, type, scrimming, winningPts, points, winners>>
      /\ scrimming /\ awards[k] = NoTask /\ rounds < MaxRounds /\ rounds' = rounds + 1
      /\ awards' = [awards EXCEPT ![k] = [at |-> "created", left |-> played, ffa |-> FALSE,
                                         scored |-> {}]]
      /\ meddled' = (meddled \/ Waiting # {})
  BY DEF Complete, Meddles
<1>2. /\ awards' \in [Awards -> AwardTypes] /\ Waiting' = Waiting \cup {k} /\ k \notin Waiting
      /\ awards'[k].at = "created"
  BY <1>1 DEF Waiting, ScrimIInv, ScrimShape, AwardTypes, CreatedTasks, NoTask
<1>3. ScrimShape'
  <2>1. rounds' \in 0..MaxRounds /\ meddled' \in BOOLEAN
    BY <1>1, ScrimAssumption DEF ScrimIInv, ScrimShape
  <2> QED
    BY <1>1, <1>2, <2>1 DEF ScrimIInv, ScrimShape
<1>4. RoundsSpent'
  <2>1. IsFiniteSet(Waiting') /\ Cardinality(Waiting') = Cardinality(Waiting) + 1
    BY <1>2, FS_AddElement DEF ScrimIInv, RoundsSpent
  <2>2. Cardinality(Waiting) \in Nat /\ Len(winners) \in Nat /\ rounds \in Nat
    BY FS_CardinalityType DEF ScrimIInv, RoundsSpent, ScrimShape
  <2> QED
    BY <1>1, <2>1, <2>2 DEF ScrimIInv, RoundsSpent
<1>5. Undisturbed'
  BY <1>1, <1>2 DEF ScrimIInv, Undisturbed
<1>6. ScrimSound'
  BY <1>1 DEF ScrimIInv, ScrimSound, PointsAreWins, ScrimUndecided, TeamsHaveSides, Seated
<1> QED
  BY <1>3, <1>4, <1>5, <1>6 DEF ScrimIInv

LEMMA WaitingIsTask == \A task \in WaitingTasks : task \in AwardTypes /\ task # NoTask
BY DEF WaitingTasks, AwardTypes, NoTask

LEMMA TaskBegins ==
    ASSUME NEW task \in CreatedTasks, NEW ffa \in BOOLEAN
    PROVE  LET started == [task EXCEPT !.at = "waiting", !.ffa = ffa] IN
           started \in WaitingTasks /\ started.ffa = ffa /\ started.scored = {}
BY DEF CreatedTasks, WaitingTasks

LEMMA TaskScores ==
    ASSUME NEW task \in WaitingTasks, NEW left \in SUBSET Slots, NEW scored \in SUBSET Winners
    PROVE  LET next == [task EXCEPT !.left = left, !.scored = scored] IN
           next \in WaitingTasks /\ next.ffa = task.ffa /\ next.scored = scored
BY DEF WaitingTasks

\* Steps that leave the match alone.
LEMMA SearchPreserves ==
    ASSUME ScrimIInv, NEW k \in Waiting,
           ReadSettings(k) \/ \E s \in Slots : FindScore(k, s) \/ SlotIsEmpty(k, s)
    PROVE  ScrimIInv'
<1>1. /\ UNCHANGED <<seat, side, type, scrimming, winningPts, points, winners, rounds, meddled>>
      /\ k \in Awards /\ awards[k] \in AwardTypes \ {NoTask}
  BY DEF ReadSettings, FindScore, SlotIsEmpty, Waiting, ScrimIInv, ScrimShape
<1>2. ScrimSound'
  BY <1>1 DEF ScrimIInv, ScrimSound, PointsAreWins, ScrimUndecided, TeamsHaveSides, Seated
<1>3. CASE awards' = [awards EXCEPT ![k] = NoTask]
  <2>1. Len(winners') \in Nat /\ Len(winners') <= Len(winners) + 1
    BY <1>1, LenProperties DEF ScrimIInv, ScrimShape
  <2>2. /\ awards' \in [Awards -> AwardTypes] /\ RoundsSpent'
        /\ Waiting' \subseteq Waiting
        /\ \A j \in Waiting' : awards'[j] = awards[j]
    BY <1>1, <1>3, <2>1, TaskEnds
  <2>3. ScrimShape'
    BY <1>1, <2>2 DEF ScrimIInv, ScrimShape
  <2>4. Undisturbed'
    BY <1>1, <2>2 DEF ScrimIInv, Undisturbed
  <2> QED
    BY <1>2, <2>2, <2>3, <2>4 DEF ScrimIInv
<1>4. ASSUME NEW task \in AwardTypes \ {NoTask}, awards' = [awards EXCEPT ![k] = task],
             ~meddled => /\ task.ffa = (type = "ffa")
                         /\ task.scored \subseteq (IF type = "ffa" THEN Players ELSE Sides)
      PROVE  ScrimIInv'
  <2>1. Waiting' = Waiting /\ awards' \in [Awards -> AwardTypes]
    BY <1>1, <1>4 DEF Waiting, ScrimIInv, ScrimShape
  <2>2. ScrimShape' /\ RoundsSpent'
    BY <1>1, <2>1 DEF ScrimIInv, ScrimShape, RoundsSpent
  <2>3. \A j \in Waiting : awards'[j] = IF j = k THEN task ELSE awards[j]
    BY <1>4 DEF Waiting, ScrimIInv, ScrimShape
  <2>4. Undisturbed'
    BY <1>1, <1>4, <2>1, <2>3 DEF ScrimIInv, Undisturbed
  <2> QED
    BY <1>2, <2>2, <2>4 DEF ScrimIInv
<1>5. CASE ReadSettings(k)
  <2>1. awards[k].at = "created"
    BY <1>5 DEF ReadSettings
  <2>2. awards[k] \in CreatedTasks
    BY <1>1, <2>1 DEF AwardTypes, CreatedTasks, WaitingTasks
  <2>3. CASE awards' = [awards EXCEPT ![k].at = "waiting", ![k].ffa = type \in FreeForAll]
    <3> DEFINE ffa == type \in FreeForAll
    <3>0. ffa \in BOOLEAN /\ (ffa <=> type = "ffa")
      BY DEF FreeForAll
    <3> HIDE DEF ffa
    <3> DEFINE task == [awards[k] EXCEPT !.at = "waiting", !.ffa = ffa]
    <3>2. task \in WaitingTasks /\ task.ffa = ffa /\ task.scored = {}
      BY <2>2, <3>0, TaskBegins, Zenon
    <3>1. awards' = [awards EXCEPT ![k] = task]
      BY <2>3, Zenon DEF ffa
    <3> HIDE DEF task
    <3>3. task \in AwardTypes \ {NoTask}
      BY <3>2, WaitingIsTask
    <3> QED
      BY <1>4, <3>0, <3>1, <3>2, <3>3
  <2> QED
    BY <1>3, <1>5, <2>3 DEF ReadSettings
<1>6. ASSUME NEW s \in Slots, FindScore(k, s)
      PROVE  ScrimIInv'
  <2>1. awards[k].at = "waiting" /\ s \in awards[k].left /\ seat[s] # None
    BY <1>6 DEF FindScore
  <2>2. awards[k] \in WaitingTasks
    BY <1>1, <2>1 DEF AwardTypes, CreatedTasks, WaitingTasks
  <2>3. /\ Key(k, s) \in Winners
        /\ ~meddled => Key(k, s) \in (IF type = "ffa" THEN Players ELSE Sides)
    <3>1. seat[s] \in Players /\ side[s] \in Sides \cup {"neutral"}
      BY <2>1 DEF ScrimIInv, ScrimShape
    <3>2. type = "vs" => side[s] \in Sides
      BY <2>1 DEF ScrimIInv, ScrimSound, TeamsHaveSides, Seated
    <3>3. ~meddled => awards[k].ffa = (type = "ffa")
      BY <2>1 DEF ScrimIInv, Undisturbed
    <3> QED
      BY <2>2, <3>1, <3>2, <3>3 DEF Key, Winners, ScrimIInv, ScrimShape
  <2>4. PICK found \in {{}, {Key(k, s)}} :
          awards' = [awards EXCEPT ![k].left = @ \ {s}, ![k].scored = @ \cup found]
    BY <1>6 DEF FindScore
  <2> DEFINE left == awards[k].left \ {s}
             scored == awards[k].scored \cup found
  <2>4a. left \in SUBSET Slots /\ scored \in SUBSET Winners
    BY <2>2, <2>3, <2>4 DEF WaitingTasks
  <2> DEFINE task == [awards[k] EXCEPT !.left = left, !.scored = scored]
  <2>5. awards' = [awards EXCEPT ![k] = task]
    BY <2>4, Zenon
  <2> HIDE DEF left, scored
  <2>6. task \in WaitingTasks /\ task.ffa = awards[k].ffa /\ task.scored = scored
    BY <2>2, <2>4a, TaskScores, Zenon
  <2> HIDE DEF task
  <2>7. task \in AwardTypes \ {NoTask}
    BY <2>6, WaitingIsTask
  <2>8. ~meddled => /\ task.ffa = (type = "ffa")
                    /\ task.scored \subseteq (IF type = "ffa" THEN Players ELSE Sides)
    BY <2>1, <2>3, <2>4, <2>6 DEF ScrimIInv, Undisturbed, scored
  <2> QED
    BY <1>4, <2>5, <2>7, <2>8
<1>7. ASSUME NEW s \in Slots, SlotIsEmpty(k, s)
      PROVE  ScrimIInv'
  BY <1>3, <1>7 DEF SlotIsEmpty
<1> QED
  BY <1>5, <1>6, <1>7

LEMMA NoWinnerPreserves ==
    ASSUME ScrimIInv, NEW k \in Waiting, NoWinner(k)
    PROVE  ScrimIInv'
<1>1. /\ UNCHANGED <<seat, side, type, scrimming, winningPts, points, rounds, meddled>>
      /\ awards' = [awards EXCEPT ![k] = NoTask]
      /\ winners' = winners \/ winners' = Append(winners, None)
  BY DEF NoWinner
<1>2. /\ winners' \in Seq(Winners \cup {None}) /\ PointsAreWins'
      /\ Len(winners') \in Nat /\ Len(winners') <= Len(winners) + 1
  <2>1. CASE winners' = winners
    BY <1>1, <2>1, LenProperties DEF ScrimIInv, ScrimShape, ScrimSound, PointsAreWins
  <2>2. CASE winners' = Append(winners, None)
    <3>1. /\ winners' \in Seq(Winners \cup {None}) /\ PointsAreWins'
          /\ Len(winners') = Len(winners) + 1
      BY <1>1, <2>2, AppendAgrees DEF ScrimIInv, ScrimSound
    <3> QED
      BY <3>1, LenProperties DEF ScrimIInv, ScrimShape
  <2> QED
    BY <1>1, <2>1, <2>2
<1>3. /\ awards' \in [Awards -> AwardTypes] /\ RoundsSpent'
      /\ Waiting' \subseteq Waiting
      /\ \A j \in Waiting' : awards'[j] = awards[j]
  BY <1>1, <1>2, TaskEnds
<1>4. ScrimShape'
  BY <1>1, <1>2, <1>3 DEF ScrimIInv, ScrimShape
<1>5. Undisturbed'
  BY <1>1, <1>3 DEF ScrimIInv, Undisturbed
<1>6. ScrimUndecided' /\ TeamsHaveSides'
  BY <1>1 DEF ScrimIInv, ScrimSound, ScrimUndecided, TeamsHaveSides, Seated
<1> QED
  BY <1>2, <1>3, <1>4, <1>5, <1>6 DEF ScrimIInv, ScrimSound

\* Without meddling the winner fits, so that the point that decides ends the scrim.
LEMMA AwardPreserves ==
    ASSUME ScrimIInv, NEW k \in Waiting, Award(k)
    PROVE  ScrimIInv'
<1>1. /\ UNCHANGED <<seat, side, type, winningPts, rounds, meddled>>
      /\ awards[k].at = "waiting"
      /\ awards' = [awards EXCEPT ![k] = NoTask]
  BY DEF Award
<1>2. PICK w \in awards[k].scored :
        IF Fits(w) /\ winningPts # 0 /\ points[w] + 1 = winningPts
        THEN scrimming' = FALSE /\ ResetScrim
        ELSE /\ points' = [points EXCEPT ![w] = points[w] + 1]
             /\ winners' = Append(winners, w)
             /\ UNCHANGED scrimming
  BY DEF Award
<1>3. w \in Winners /\ w # None /\ points[w] \in Nat
  <2>1. awards[k] \in AwardTypes
    BY DEF Waiting, ScrimIInv, ScrimShape
  <2>2. awards[k].scored \subseteq Winners
    <3>1. awards[k] \in WaitingTasks
      BY <1>1, <2>1 DEF AwardTypes, CreatedTasks, Waiting
    <3> QED
      BY <3>1 DEF WaitingTasks
  <2> QED
    BY <2>2, ScrimAssumption DEF ScrimIInv, ScrimShape
<1>4. /\ points' \in [Winners -> Nat] /\ PointsAreWins'
      /\ winners' \in Seq(Winners \cup {None})
      /\ Len(winners') \in Nat /\ Len(winners') <= Len(winners) + 1
  <2>1. CASE ResetScrim
    BY <2>1, ResetAgrees, LenProperties DEF ScrimIInv, ScrimShape
  <2>2. CASE winners' = Append(winners, w) /\ points' = [points EXCEPT ![w] = points[w] + 1]
    <3>1. points' = IF w = None THEN points ELSE [points EXCEPT ![w] = @ + 1]
      BY <1>3, <2>2
    <3>2. /\ points' \in [Winners -> Nat] /\ PointsAreWins'
          /\ winners' \in Seq(Winners \cup {None}) /\ Len(winners') = Len(winners) + 1
      BY <1>3, <2>2, <3>1, AppendAgrees DEF ScrimIInv, ScrimSound
    <3> QED
      BY <3>2, LenProperties DEF ScrimIInv, ScrimShape
  <2> QED
    BY <1>2, <2>1, <2>2
<1>5. /\ awards' \in [Awards -> AwardTypes] /\ RoundsSpent'
      /\ ~meddled => Waiting' = {}
  BY <1>1, <1>4, TaskEnds
<1>6. ScrimShape'
  BY <1>1, <1>2, <1>4, <1>5 DEF ScrimIInv, ScrimShape
<1>7. Undisturbed'
  <2>1. scrimming' => winningPts' > 0
    BY <1>1, <1>2 DEF ScrimIInv, Undisturbed
  <2>2. ~meddled => scrimming
    BY DEF ScrimIInv, Undisturbed
  <2>3. ~meddled /\ ~scrimming' => points' = NoPoints
    BY <1>2, <2>2 DEF ResetScrim, ScrimIInv, ScrimShape
  <2> QED
    BY <1>1, <1>5, <2>1, <2>3 DEF Undisturbed
<1>8. ScrimUndecided'
  <2>1. ASSUME ~meddled', scrimming', NEW v \in Winners
        PROVE  points'[v] < winningPts'
    <3>1. scrimming /\ Fits(w) /\ winningPts > 0
      <4>1. scrimming
        BY <1>1, <2>1 DEF ScrimIInv, Undisturbed
      <4>2. awards[k].scored \subseteq (IF type = "ffa" THEN Players ELSE Sides)
        BY <1>1, <2>1 DEF ScrimIInv, Undisturbed
      <4> QED
        BY <4>1, <4>2 DEF Fits, FreeForAll, ScrimIInv, Undisturbed
    <3>2. points[v] < winningPts /\ points[w] < winningPts
      BY <1>1, <1>3, <2>1, <3>1 DEF ScrimIInv, ScrimSound, ScrimUndecided
    <3>3. winningPts # 0 /\ winningPts \in Nat /\ points[v] \in Nat
      BY <3>1 DEF ScrimIInv, ScrimShape
    <3>4. points' = [points EXCEPT ![w] = points[w] + 1] /\ points[w] + 1 # winningPts
      BY <1>2, <2>1, <3>1, <3>3
    <3>5. points'[v] = IF v = w THEN points[w] + 1 ELSE points[v]
      BY <3>4 DEF ScrimIInv, ScrimShape
    <3> QED
      BY <1>1, <1>3, <3>2, <3>3, <3>4, <3>5
  <2> QED
    BY <2>1 DEF ScrimUndecided
<1>9. TeamsHaveSides'
  BY <1>1 DEF ScrimIInv, ScrimSound, TeamsHaveSides, Seated
<1> QED
  BY <1>4, <1>5, <1>6, <1>7, <1>8, <1>9 DEF ScrimIInv, ScrimSound

LEMMA ScrimInductive == ScrimSpec => []ScrimIInv
<1>1. ASSUME ScrimIInv, [ScrimNext]_scrimVars
      PROVE  ScrimIInv'
  <2>1. CASE UNCHANGED scrimVars
    <3>1. UNCHANGED <<seat, side, type, scrimming, winningPts, points, winners, awards, rounds,
                      meddled, Waiting, Seated>>
      BY <2>1 DEF scrimVars, Waiting, Seated
    <3> QED
      BY <1>1, <3>1 DEF ScrimIInv, ScrimShape, RoundsSpent, Undisturbed, ScrimSound, PointsAreWins,
                       ScrimUndecided, TeamsHaveSides
  <2>2. CASE \E s \in Slots :
               \/ LeaveSlot(s) \/ ChangeTeam(s)
               \/ \E p \in Players : SitDown(s, p)
               \/ \E t \in Slots : ChangeSlot(s, t)
    BY <1>1, <2>2, PlayersPreserve
  <2>3. CASE \/ \E n \in BestOf : StartScrim(n)
             \/ EndScrim \/ Rematch \/ TakeBack
             \/ \E t \in {"ffa", "vs"} : Teams(t) \/ ChangeTeamType(t)
    BY <1>1, <2>3, RefereesPreserve
  <2>4. CASE \E k \in Awards, played \in SUBSET Slots : Complete(k, played)
    BY <1>1, <2>4, CompletePreserves
  <2>5. ASSUME NEW k \in Waiting,
               \/ ReadSettings(k) \/ NoWinner(k) \/ Award(k)
               \/ \E s \in Slots : FindScore(k, s) \/ SlotIsEmpty(k, s)
        PROVE  ScrimIInv'
    BY <1>1, <2>5, SearchPreserves, NoWinnerPreserves, AwardPreserves
  <2> QED
    BY <1>1, <2>1, <2>2, <2>3, <2>4, <2>5 DEF ScrimNext
<1> QED
  BY <1>1, ScrimInitially, PTL DEF ScrimSpec

\* However the commands of the referees, the moves of the players and further rounds
\* come between a round and the point for it, points are the wins in the list, a scrim
\* nobody meddled with is undecided while it goes on, and who plays in a match of teams
\* has one.
THEOREM ScrimsAreSound == ScrimSpec => []ScrimSound
<1>1. ScrimIInv => ScrimSound
  BY DEF ScrimIInv
<1> QED
  BY <1>1, ScrimInductive, PTL

\* The variables of a scrim keep their types: in particular no point is taken back that
\* was not given, and there are no more wins than rounds.
THEOREM ScrimTypeCorrect == ScrimSpec => []ScrimTypeOK
<1>1. ASSUME ScrimIInv
      PROVE  ScrimTypeOK
  <2>1. Len(winners) \in Nat /\ Len(winners) <= MaxRounds
    <3>1. Len(winners) \in Nat /\ Cardinality(Waiting) \in Nat
      BY <1>1, FS_CardinalityType, LenProperties DEF ScrimIInv, ScrimShape, RoundsSpent
    <3>2. rounds \in Nat /\ rounds <= MaxRounds /\ Len(winners) + Cardinality(Waiting) <= rounds
      BY <1>1, ScrimAssumption DEF ScrimIInv, ScrimShape, RoundsSpent
    <3> QED
      BY <3>1, <3>2, ScrimAssumption
  <2>2. \A w \in Winners : points[w] \in 0..MaxRounds
    <3>1. ASSUME NEW w \in Winners
          PROVE  points[w] \in 0..MaxRounds
      <4> DEFINE T == Winners \cup {None}
      <4>1. winners \in Seq(T)
        BY <1>1 DEF ScrimIInv, ScrimShape
      <4> HIDE DEF T
      <4>2. Cardinality(Entries(winners, w)) \in 0..Len(winners)
        BY <4>1, EntriesAreFinite
      <4>3. points[w] = Cardinality(Entries(winners, w))
        BY <1>1 DEF ScrimIInv, ScrimSound, PointsAreWins, Entries
      <4> QED
        BY <2>1, <4>2, <4>3, ScrimAssumption
    <3> QED
      BY <3>1
  <2>3. points \in [Winners -> 0..MaxRounds]
    BY <1>1, <2>2 DEF ScrimIInv, ScrimShape
  <2>4. \A k \in Waiting : awards[k].left \subseteq Slots
    BY <1>1 DEF ScrimIInv, ScrimShape, Waiting, AwardTypes, CreatedTasks, WaitingTasks
  <2> QED
    BY <1>1, <2>1, <2>3, <2>4 DEF ScrimIInv, ScrimShape, ScrimTypeOK
<1> QED
  BY <1>1, ScrimInductive, PTL

-----------------------------------------------------------------------------
(***************************************************************************)
(* Beatmaps. BeatmapsIInv is what holds however tasks overlap: tables,     *)
(* objects, sets and caches refer to what there is, a set has one map of   *)
(* an id, and a task knows what its next step needs.  SerialInv is about   *)
(* tasks that do not overlap: there is one task and one set, which will be *)
(* cached when the task that made it ends, and RowSound says what the      *)
(* stage the task is at will do with the row of a map.  SerialMapsAgree    *)
(* says nothing of the time while a task is open, so it is not inductive:  *)
(* tables and set differ from the moment the set is changed until the last *)
(* save.                                                                   *)
(***************************************************************************)

\* What the api, the tables and the objects are made of
ApiMap(b) == [id : {b}, version : 1..MaxVersion, status : Statuses]
MapRow(b) == [id : {b}, version : 1..MaxVersion, status : Statuses, frozen : BOOLEAN]
MapObject(n) ==
    [id : Bids, version : 1..MaxVersion, status : Statuses, frozen : BOOLEAN, set : 1..n]

TablesShape ==
    /\ api \in [Bids -> (UNION {ApiMap(b) : b \in Bids}) \cup {Absent}]
    /\ \A b \in Bids : api[b] # Absent => api[b] \in ApiMap(b)
    /\ rows \in [Bids -> (UNION {MapRow(b) : b \in Bids}) \cup {Absent}]
    /\ \A b \in Bids : rows[b] # Absent => rows[b] \in MapRow(b)
    /\ mapset \in BOOLEAN /\ up \in BOOLEAN /\ overlap \in BOOLEAN
    /\ scores \subseteq Md5s /\ unsubmitted \subseteq Md5s /\ needsUpdate \subseteq Md5s
    /\ ruled \in [Bids -> Statuses \cup {"none"}]
    /\ begun \in Nat

\* A set has one map of an id.
SetsSound ==
    /\ maps \in Seq(MapObject(Len(sets)))
    /\ sets \in Seq(SUBSET (1..Len(maps)))
    /\ \A k \in 1..Len(sets) : \A i, j \in sets[k] : maps[i].id = maps[j].id => i = j

\* The cache has every map under a key of its id, and none before the set is cached.
CachesSound ==
    /\ beatmap \in [Keys -> 0..Len(maps)]
    /\ \A key \in Keys : beatmap[key] # 0 => maps[beatmap[key]].id = key[1]
    /\ beatmapset \in 0..Len(sets)
    /\ beatmapset = 0 => \A key \in Keys : beatmap[key] = 0

\* Where a task can be, by what it does there
Lookups == {"cached", "row", "ask map", "filename", "set"}
Loads == {"mapset row", "map rows", "ask set", "frozen"}
Saves == {"delete maps", "delete scores", "delete set", "replace set", "save"}

Answers == UNION {[ids -> UNION {ApiMap(b) : b \in Bids}] : ids \in SUBSET Bids}
Writes == UNION {[ids -> UNION {MapRow(b) : b \in Bids}] : ids \in SUBSET Bids}
TaskShape == [id : {1}, do : {"lookup", "leaderboard", "map", "set"},
              at : Lookups \cup Loads \cup {"update"} \cup Saves \cup {"write", "commit"},
              key : Keys \cup {Nothing}, claim : BOOLEAN, set : Nat, found : Nat,
              answer : Answers,
              md5s : SUBSET Md5s, then : {"cache", "return"},
              last : {"none", "delete set", "replace set"}, saves : Writes,
              np : Nat, status : Statuses \cup {"none"}, ids : SUBSET Bids]

\* A task, while there are n sets and m objects
TaskSound(task, n, m) ==
    /\ task \in TaskShape
    /\ task.at \notin {"write", "commit"} => task.key \in Keys
    /\ task.do = "leaderboard" \/ task.at = "filename" => task.key \in Md5s
    /\ task.at \in {"update"} \cup Saves => task.set \in 1..n
    /\ task.at = "frozen" =>
         /\ DOMAIN task.answer \subseteq Bids
         /\ \A b \in DOMAIN task.answer : task.answer[b] \in ApiMap(b)
    /\ task.at \in {"delete maps", "delete scores"} =>
         task.last \in {"delete set", "replace set"}
    /\ task.at = "save" =>
         /\ DOMAIN task.saves \subseteq Bids
         /\ \A b \in DOMAIN task.saves : task.saves[b] \in MapRow(b)
    /\ task.at \in {"write", "commit"} =>
         task.do \in {"map", "set"} /\ task.np \in 1..m /\ task.status \in Statuses

\* What a task carries fits the sets and objects there are.
TasksSound ==
    /\ tasks \in [Tasks -> TaskShape \cup {Absent}]
    /\ \A t \in Open : TaskSound(tasks[t], Len(sets), Len(maps))

BeatmapsIInv == TablesShape /\ SetsSound /\ CachesSound /\ TasksSound

-----------------------------------------------------------------------------
(* Tasks that do not overlap *)

\* The row of a map is an object of the set.
Kept(row) == \E i \in sets[1] : Row(maps[i]) = row
\* An object of the set will take the place of the row, and keeps a ruling.
Replaced(row) == \E i \in sets[1] :
    /\ maps[i].id = row.id
    /\ row.frozen => maps[i].frozen /\ maps[i].status = row.status
\* The row once !map has committed
RuledRow(row, ruling) == [row EXCEPT !.status = ruling, !.frozen = TRUE]

\* What the task does with the row of a map, while it handles the one set there is: delete
\* it, replace it by a map of the set, write it with a status, or leave it what the set has.
RowSound(task, b) ==
    CASE task.at = "delete maps" /\ task.last = "replace set" ->
           Md5(rows[b]) \in task.md5s \/ Replaced(rows[b])
      [] task.at = "delete maps" /\ task.last = "delete set" ->
           Md5(rows[b]) \in task.md5s /\ Kept(rows[b])
      [] task.at = "delete scores" /\ task.last = "delete set" -> FALSE
      [] task.at = "delete set" -> FALSE
      [] \/ task.at = "delete scores" /\ task.last = "replace set"
         \/ task.at = "replace set" ->
           Replaced(rows[b])
      [] task.at = "save" ->
           IF b \in DOMAIN task.saves THEN Replaced(rows[b]) ELSE Kept(rows[b])
      [] task.at = "commit" ->
           Kept(IF b \in task.ids THEN RuledRow(rows[b], task.status) ELSE rows[b])
      [] OTHER -> Kept(rows[b])

\* Every row is accounted for, and carries what was ruled on its map, except of the
\* missed maps.
RowsSound ==
    /\ \A b \in Bids \ missed : rows[b] # Absent =>
         /\ mapset
         /\ sets # <<>> => IF Open = {} THEN Kept(rows[b])
                           ELSE \A t \in Open : RowSound(tasks[t], b)
    /\ \A b \in Bids \ missed : ruled[b] # "none" =>
         rows[b] # Absent /\ rows[b].frozen /\ rows[b].status = ruled[b]

\* What a task is to write are the objects of the set.
Due(task) == \A b \in DOMAIN task.saves :
    \E i \in sets[1] : maps[i].id = b /\ task.saves[b] = Row(maps[i])

\* Where a task can be, and that it caches the set it looks for
Placed(task) ==
    /\ task.at \in Loads => sets = <<>>
    /\ task.at \in {"ask set", "frozen"} => ~mapset
    /\ task.at = "save" => mapset /\ Due(task)
    /\ task.at \in {"replace set", "save"} => task.last = "replace set" \/ beatmapset = 0
    /\ task.at \in {"write", "commit"} => beatmapset = 1
    /\ task.at \in Loads \cup (Lookups \ {"filename"}) => task.then = "cache"

\* There is one set, which is cached when the task that made it ends.
OneSet ==
    /\ Len(sets) <= 1
    /\ sets # <<>> /\ beatmapset = 0 =>
         \E t \in Open : tasks[t].at \in {"update"} \cup Saves /\ tasks[t].then = "cache"
    /\ \A t \in Open : Placed(tasks[t])

\* What overlap denies
OneTask == \A t, u \in Open : t = u

SerialState == OneTask /\ OneSet /\ RowsSound
SerialInv == ~overlap => SerialState

-----------------------------------------------------------------------------
(* Operators of the model *)

LEMMA SetAsSequence ==
    ASSUME NEW S, IsFiniteSet(S)
    PROVE  /\ SetToSeq(S) \in [1..Cardinality(S) -> S] /\ Cardinality(S) \in Nat
           /\ \A j, k \in 1..Cardinality(S) : SetToSeq(S)[j] = SetToSeq(S)[k] => j = k
           /\ \A x \in S : \E k \in 1..Cardinality(S) : SetToSeq(S)[k] = x
<1> DEFINE n == Cardinality(S)
<1>1. n \in Nat /\ ExistsBijection(1..n, S)
  BY FS_CardinalityType
<1>2. \E f \in [1..n -> S] : IsInjective(f)
  BY <1>1 DEF ExistsBijection, Bijection, Injection
<1>3. SetToSeq(S) \in [1..n -> S] /\ IsInjective(SetToSeq(S))
  BY <1>2 DEF SetToSeq
<1>4. SetToSeq(S) \in Injection(1..n, S)
  BY <1>3 DEF Injection
<1>5. IsFiniteSet(1..n) /\ Cardinality(1..n) = n
  BY <1>1, FS_Interval
<1>6. SetToSeq(S) \in Surjection(1..n, S)
  BY <1>4, <1>5, FS_Injection
<1> QED
  BY <1>1, <1>3, <1>6 DEF IsInjective, Surjection

\* q is p with an object for every map in made behind those there were.
Extended(q, p, made) ==
    /\ NewMembers(made) \subseteq 1..Len(q) /\ Len(p) <= Len(q)
    /\ \A i \in 1..Len(p) : q[i] = p[i] /\ i \notin NewMembers(made)
    /\ \A i \in NewMembers(made) : \E b \in DOMAIN made : q[i] = made[b]
    /\ \A b \in DOMAIN made : \E i \in NewMembers(made) : q[i] = made[b]
    /\ \A i, j \in NewMembers(made) : q[i].id = q[j].id => i = j

LEMMA ObjectsMade ==
    ASSUME NEW made, DOMAIN made \subseteq Bids, NEW R, NEW p, p \in Seq(R), Len(p) = Len(maps),
           \A b \in DOMAIN made : made[b] \in R /\ made[b].id = b
    PROVE  p \o Make(made) \in Seq(R) /\ Extended(p \o Make(made), p, made)
<1> DEFINE D == DOMAIN made
           n == Cardinality(D)
           s == SetToSeq(D)
           m == Len(p)
           q == p \o Make(made)
<1>1. IsFiniteSet(D)
  BY FS_Subset, BeatmapsAssumption
<1>2. /\ s \in [1..n -> D] /\ n \in Nat
      /\ \A j, k \in 1..n : s[j] = s[k] => j = k
      /\ \A x \in D : \E k \in 1..n : s[k] = x
  BY <1>1, SetAsSequence
<1>3. Len(s) = n
  BY <1>2
<1>4. Make(made) = [k \in 1..n |-> made[s[k]]]
  BY <1>3 DEF Make
<1>5. Make(made) \in Seq(R) /\ Len(Make(made)) = n
  <2> HIDE DEF s, n
  <2>1. Make(made) \in [1..n -> R]
    BY <1>2, <1>4
  <2> QED
    BY <1>2, <2>1
<1>6. /\ q \in Seq(R) /\ Len(q) = m + n /\ m \in Nat
      /\ \A i \in 1..m : q[i] = p[i]
      /\ \A k \in 1..n : q[m + k] = Make(made)[k]
  <2>1. ASSUME NEW w \in Seq(R)
        PROVE  /\ p \o w \in Seq(R) /\ Len(p \o w) = m + Len(w) /\ m \in Nat
               /\ \A i \in 1..m : (p \o w)[i] = p[i]
               /\ \A k \in 1..Len(w) : (p \o w)[m + k] = w[k]
    BY SMT
  <2> HIDE DEF n, m
  <2>2. /\ q \in Seq(R) /\ Len(q) = m + Len(Make(made)) /\ m \in Nat
        /\ \A i \in 1..m : q[i] = p[i]
        /\ \A k \in 1..Len(Make(made)) : q[m + k] = Make(made)[k]
    BY <1>5, <2>1, Zenon
  <2> QED
    BY <1>5, <2>2, Zenon
<1>7. NewMembers(made) = m + 1 .. m + n
  BY DEF NewMembers
<1>8. \A k \in 1..n : q[m + k] = made[s[k]] /\ s[k] \in D
  <2> HIDE DEF n, s
  <2> QED
    BY <1>2, <1>4, <1>6
<1> HIDE DEF n, s, m, q
<1>9. \A i \in m + 1 .. m + n : i - m \in 1..n /\ i = m + (i - m)
  BY <1>2, <1>6
<1>10. \A i \in m + 1 .. m + n : q[i] = made[s[i - m]] /\ s[i - m] \in D
  BY <1>8, <1>9
<1>11. \A b \in D : \E i \in m + 1 .. m + n : q[i] = made[b]
  <2>1. TAKE b \in D
  <2>2. PICK k \in 1..n : s[k] = b
    BY <1>2
  <2>3. m + k \in m + 1 .. m + n /\ q[m + k] = made[b]
    BY <1>2, <1>6, <1>8, <2>2
  <2> QED
    BY <2>3
<1>12. \A i, j \in m + 1 .. m + n : q[i].id = q[j].id => i = j
  <2>1. TAKE i, j \in m + 1 .. m + n
  <2>2. HAVE q[i].id = q[j].id
  <2>3. s[i - m] = s[j - m]
    BY <1>10, <2>2
  <2> QED
    BY <1>2, <1>6, <1>9, <2>3
<1>13. m + 1 .. m + n \subseteq 1..Len(q) /\ m <= Len(q) /\ \A i \in 1..m : i \notin m + 1 .. m + n
  BY <1>2, <1>6
<1> QED
  BY <1>6, <1>7, <1>10, <1>11, <1>12, <1>13 DEF m, q, Extended

\* The api decides the version, and the status of what nobody ruled on.
LEMMA ParsedMap ==
    ASSUME NEW n, NEW m \in MapObject(n), NEW b, NEW answer \in ApiMap(b)
    PROVE  /\ Parse(m, answer) \in MapObject(n)
           /\ Parse(m, answer).id = m.id /\ Parse(m, answer).frozen = m.frozen
           /\ m.frozen => Parse(m, answer).status = m.status
BY DEF Parse, MapObject, ApiMap

LEMMA ObjectOf ==
    ASSUME NEW n, NEW k \in 1..n, NEW b \in Bids, NEW m \in ApiMap(b) \cup MapRow(b), NEW f \in BOOLEAN
    PROVE  /\ Object(m, f, k) \in MapObject(n)
           /\ Object(m, f, k).id = b /\ Object(m, f, k).frozen = f
           /\ Object(m, f, k).status = m.status
BY DEF Object, MapObject, ApiMap, MapRow

LEMMA ApiObject ==
    ASSUME NEW n, NEW k \in 1..n, NEW b \in Bids, NEW m \in ApiMap(b)
    PROVE  Object(m, FALSE, k) \in MapObject(n) /\ Object(m, FALSE, k).id = b
BY DEF Object, MapObject, ApiMap

\* One element of a sequence is replaced.
Put(r, s, k, e) == r = [s EXCEPT ![k] = e]
IsPut(r, s, k, e) ==
    /\ Len(r) = Len(s) /\ DOMAIN r = DOMAIN s /\ r[k] = e
    /\ \A j \in 1..Len(s) : j # k => r[j] = s[j]

LEMMA Replacing ==
    ASSUME NEW S, NEW s \in Seq(S), NEW r, NEW k \in 1..Len(s), NEW e \in S,
           Put(r, s, k, e)
    PROVE  r \in Seq(S) /\ IsPut(r, s, k, e)
<1>1. [s EXCEPT ![k] = e] \in Seq(S) /\ Len([s EXCEPT ![k] = e]) = Len(s)
  BY ExceptSeq
<1> QED
  BY <1>1 DEF Put, IsPut

\* An object made of a row is what the row says.
LEMMA RowOfObject ==
    ASSUME NEW b, NEW m \in MapRow(b), NEW k
    PROVE  Row(Object(m, m.frozen, k)) = m
BY DEF Object, MapRow, Row

LEMMA RowOf ==
    ASSUME NEW n, NEW m \in MapObject(n)
    PROVE  /\ Row(m) \in MapRow(m.id) /\ Row(m).id = m.id /\ Row(m).status = m.status
           /\ Row(m).frozen = m.frozen /\ Row(m) # Absent /\ Md5(Row(m)) = Md5(m)
BY BeatmapsAssumption DEF MapObject, MapRow, Row, Md5, Absent

-----------------------------------------------------------------------------
(* Types *)

\* Sets and objects are only added, and an object keeps its id.
Grows ==
    /\ Len(sets) <= Len(sets') /\ Len(maps) <= Len(maps')
    /\ \A i \in 1..Len(maps) : maps'[i].id = maps[i].id

LEMMA Lengths == ASSUME SetsSound PROVE Len(sets) \in Nat /\ Len(maps) \in Nat
BY DEF SetsSound

LEMMA NothingGrows ==
    ASSUME SetsSound, UNCHANGED objects
    PROVE  SetsSound' /\ Grows
BY Lengths DEF SetsSound, objects, Grows

LEMMA CachesKept ==
    ASSUME SetsSound, SetsSound', CachesSound, Grows, UNCHANGED caches
    PROVE  CachesSound'
<1>1. Len(sets) \in Nat /\ Len(maps) \in Nat /\ Len(sets') \in Nat /\ Len(maps') \in Nat
  BY DEF SetsSound
<1> QED
  BY <1>1 DEF CachesSound, Grows, caches, Keys

LEMMA IndexesStay ==
    ASSUME SetsSound, SetsSound', Grows
    PROVE  1..Len(sets) \subseteq 1..Len(sets') /\ 1..Len(maps) \subseteq 1..Len(maps')
<1>1. Len(sets) \in Nat /\ Len(maps) \in Nat /\ Len(sets') \in Nat /\ Len(maps') \in Nat
  BY DEF SetsSound
<1> QED
  BY <1>1 DEF Grows

LEMMA TaskStays ==
    ASSUME SetsSound, SetsSound', Grows, NEW task, TaskSound(task, Len(sets), Len(maps))
    PROVE  TaskSound(task, Len(sets'), Len(maps'))
BY IndexesStay, Zenon DEF TaskSound

LEMMA TasksKeep ==
    ASSUME SetsSound, SetsSound', TasksSound, Grows, NEW t \in Tasks, NEW task, Becomes(t, task),
           task = Absent \/ TaskSound(task, Len(sets'), Len(maps'))
    PROVE  TasksSound'
<1>1. task \in TaskShape \cup {Absent}
  BY DEF TaskSound
<1>2. tasks' \in [Tasks -> TaskShape \cup {Absent}]
  BY <1>1 DEF TasksSound, Becomes
<1>3. ASSUME NEW u \in Tasks, tasks'[u] # Absent PROVE TaskSound(tasks'[u], Len(sets'), Len(maps'))
  <2>1. CASE u = t
    BY <1>3, <2>1 DEF Becomes, TasksSound
  <2>2. CASE u # t
    <3>1. tasks'[u] = tasks[u]
      BY <2>2 DEF Becomes, TasksSound
    <3>2. TaskSound(tasks[u], Len(sets), Len(maps))
      BY <1>3, <3>1 DEF TasksSound, Open
    <3> QED
      BY <3>1, <3>2, TaskStays
  <2> QED
    BY <2>1, <2>2
<1> QED
  BY <1>2, <1>3 DEF TasksSound, Open

LEMMA TasksStay ==
    ASSUME SetsSound, SetsSound', TasksSound, Grows, UNCHANGED tasks
    PROVE  TasksSound'
<1>1. ASSUME NEW u \in Open PROVE TaskSound(tasks[u], Len(sets'), Len(maps'))
  BY TaskStays DEF TasksSound
<1> QED
  BY <1>1 DEF TasksSound, Open

LEMMA OpenTask ==
    ASSUME TasksSound, NEW t \in Tasks, NEW stage, Is(t, stage)
    PROVE  /\ TaskSound(tasks[t], Len(sets), Len(maps)) /\ tasks[t] \in TaskShape
           /\ tasks[t].at = stage /\ t \in Open
BY DEF TasksSound, Is, Open, TaskSound

LEMMA KeyOfMd5 ==
    /\ \A md5 \in Md5s : md5 \in Keys /\ md5[1] \in Bids
    /\ \A b \in Bids : ById(b) \in Keys /\ ById(b)[1] = b
    /\ \A key \in Keys : key[1] \in Bids
BY BeatmapsAssumption DEF Md5s, Keys, ById

LEMMA NotAbsent == Absent \notin TaskShape
BY DEF Absent, TaskShape

ForgottenSound == unsubmitted \subseteq Md5s /\ needsUpdate \subseteq Md5s

\* A lookup ends, or goes on to look for the filename.
LEMMA EndsKeeps ==
    ASSUME SetsSound, SetsSound', TasksSound, Grows, ForgottenSound, NEW t \in Tasks,
           tasks[t] # Absent, tasks[t].at \notin {"write", "commit"},
           NEW found, NEW ids, Ends(t, found, ids)
    PROVE  TasksSound' /\ ForgottenSound'
<1> DEFINE task == tasks[t]
<1>1. TaskSound(task, Len(sets), Len(maps)) /\ task \in TaskShape
  BY DEF TasksSound, Open, TaskSound
<1>2. CASE Becomes(t, Absent) /\ UNCHANGED forgotten
  BY <1>2, TasksKeep DEF ForgottenSound, forgotten
<1>3. CASE task.do = "leaderboard" /\ Goes(t, "filename") /\ UNCHANGED forgotten
  <2> DEFINE to == [task EXCEPT !.at = "filename"]
  <2>1. to \in TaskShape /\ to.at = "filename" /\ to.key = task.key /\ to.do = task.do
    BY <1>1 DEF TaskShape, Lookups
  <2>2. task.key \in Md5s
    BY <1>1, <1>3 DEF TaskSound
  <2>3. TaskSound(to, Len(sets'), Len(maps'))
    <3> HIDE DEF to, task
    <3> QED
      BY <2>1, <2>2, KeyOfMd5 DEF TaskSound, Saves
  <2>4. Becomes(t, to)
    BY <1>3 DEF Goes
  <2> QED
    BY <1>3, <2>3, <2>4, TasksKeep DEF ForgottenSound, forgotten
<1>4. CASE /\ task.do = "leaderboard" /\ Becomes(t, Absent)
           /\ unsubmitted' \cup needsUpdate' \subseteq unsubmitted \cup needsUpdate \cup {task.key}
  <2>1. task.key \in Md5s
    BY <1>1, <1>4 DEF TaskSound
  <2> QED
    BY <1>4, <2>1, TasksKeep DEF ForgottenSound
<1>5. task.do = "leaderboard" \/ (Becomes(t, Absent) /\ UNCHANGED forgotten)
  BY DEF Ends
<1> QED
  BY <1>2, <1>3, <1>4, <1>5 DEF Ends, forgotten

\* What a set has is put in the cache under keys of its id.
LEMMA CacheSetKeeps ==
    ASSUME SetsSound, SetsSound', CachesSound, TasksSound, Grows, ForgottenSound,
           NEW t \in Tasks, tasks[t] # Absent, tasks[t].at \notin {"write", "commit"},
           NEW set \in 1..Len(sets'), NEW members \in SUBSET (1..Len(maps')),
           CacheSet(t, set, members, maps')
    PROVE  CachesSound' /\ TasksSound' /\ ForgottenSound'
<1>1. Len(sets') \in Nat /\ Len(maps') \in Nat /\ Len(maps) \in Nat /\ Len(maps) <= Len(maps')
  BY DEF SetsSound, Grows
<1>2. beatmap' = Filled(members, maps') /\ beatmapset' = set
  BY DEF CacheSet
<1>3. ASSUME NEW key \in Keys
      PROVE  /\ beatmap'[key] \in 0..Len(maps')
             /\ beatmap'[key] # 0 => maps'[beatmap'[key]].id = key[1]
  <2> DEFINE holds == {i \in members : key \in {ById(maps'[i].id), Md5(maps'[i])}}
  <2>1. beatmap'[key] = IF holds = {} THEN beatmap[key] ELSE CHOOSE i \in holds : TRUE
    BY <1>2 DEF Filled, CachesSound
  <2>2. CASE holds = {}
    BY <1>1, <2>1, <2>2 DEF CachesSound, Grows
  <2>3. CASE holds # {}
    <3>1. beatmap'[key] \in holds
      BY <2>1, <2>3
    <3>2. PICK i \in members : beatmap'[key] = i /\ key \in {<<maps'[i].id, 0>>, <<maps'[i].id, maps'[i].version>>}
      BY <3>1 DEF ById, Md5
    <3>3. key[1] = maps'[i].id
      BY <3>2
    <3> QED
      BY <3>2, <3>3
  <2> QED
    BY <2>2, <2>3
<1>4. beatmap' \in [Keys -> 0..Len(maps')]
  <2>1. DOMAIN beatmap = Keys
    BY DEF CachesSound
  <2>2. beatmap' = [key \in Keys |-> beatmap'[key]]
    BY <1>2, <2>1 DEF Filled
  <2> QED
    BY <1>3, <2>2
<1>5. CachesSound'
  BY <1>1, <1>2, <1>3, <1>4 DEF CachesSound
<1>6. \E found, ids : Ends(t, found, ids)
  BY DEF CacheSet
<1> QED
  BY <1>5, <1>6, EndsKeeps

LEMMA FinishKeeps ==
    ASSUME SetsSound, CachesSound, TasksSound, ForgottenSound, UNCHANGED objects,
           NEW t \in Tasks, tasks[t] # Absent, tasks[t].at \in {"update"} \cup Saves, Finish(t)
    PROVE  CachesSound' /\ TasksSound' /\ ForgottenSound'
<1>1. SetsSound' /\ Grows
  BY NothingGrows
<1>2. tasks[t].at \notin {"write", "commit"} /\ tasks[t].set \in 1..Len(sets)
  BY DEF TasksSound, Open, TaskSound, Saves
<1>3. CASE UNCHANGED caches /\ Ends(t, tasks[t].found, CachedIds)
  BY <1>1, <1>2, <1>3, EndsKeeps, CachesKept
<1>4. CASE CacheSet(t, tasks[t].set, sets[tasks[t].set], maps)
  <2>1. sets[tasks[t].set] \in SUBSET (1..Len(maps')) /\ tasks[t].set \in 1..Len(sets') /\ maps' = maps
    BY <1>2 DEF SetsSound, objects
  <2> QED
    BY <1>1, <1>2, <1>4, <2>1, CacheSetKeeps
<1> QED
  BY <1>3, <1>4 DEF Finish

\* A task ends, and the sets stay, or nothing is in memory.
LEMMA RaisesKeeps ==
    ASSUME SetsSound, CachesSound, TasksSound, ForgottenSound, NEW t \in Tasks, Raises(t)
    PROVE  SetsSound' /\ CachesSound' /\ TasksSound' /\ ForgottenSound'
<1>1. Becomes(t, Absent) /\ UNCHANGED <<caches, forgotten>>
  BY DEF Raises
<1>2. ForgottenSound'
  BY <1>1 DEF ForgottenSound, forgotten
<1>3. CASE UNCHANGED objects
  <2>1. SetsSound' /\ Grows
    BY <1>3, NothingGrows
  <2> QED
    BY <1>1, <1>2, <2>1, CachesKept, TasksKeep
<1>4. CASE beatmapset = 0 /\ Open = {t} /\ maps' = <<>> /\ sets' = <<>>
  <2>1. /\ maps' \in Seq(MapObject(Len(sets'))) /\ sets' \in Seq(SUBSET (1..Len(maps')))
        /\ Len(sets') = 0 /\ Len(maps') = 0
    BY <1>4
  <2>2. SetsSound'
    BY <2>1 DEF SetsSound
  <2>3. CachesSound'
    <3>1. beatmapset' = 0 /\ beatmap' = beatmap /\ \A key \in Keys : beatmap[key] = 0
      BY <1>1, <1>4 DEF caches, CachesSound
    <3>2. DOMAIN beatmap = Keys /\ beatmap = [key \in Keys |-> beatmap[key]]
      BY DEF CachesSound
    <3>3. beatmap \in [Keys -> 0..0]
      BY <3>1, <3>2
    <3> QED
      BY <2>1, <3>1, <3>3 DEF CachesSound
  <2>4. TasksSound'
    <3>1. tasks' \in [Tasks -> TaskShape \cup {Absent}]
      BY <1>1 DEF TasksSound, Becomes
    <3>2. tasks'[t] = Absent /\ \A u \in Tasks : u # t => tasks'[u] = tasks[u]
      BY <1>1 DEF TasksSound, Becomes
    <3>3. \A u \in Tasks : tasks'[u] = Absent
      BY <1>4, <3>2 DEF Open
    <3>4. Open' = {}
      BY <3>3 DEF Open
    <3> QED
      BY <3>1, <3>4 DEF TasksSound
  <2> QED
    BY <1>2, <2>2, <2>3, <2>4
<1> QED
  BY <1>3, <1>4 DEF Raises

LEMMA UpdatesKeeps ==
    ASSUME SetsSound, SetsSound', TasksSound, Grows, ForgottenSound, NEW t \in Tasks,
           NEW stage \in Lookups \cup Loads, Is(t, stage), NEW set \in 1..Len(sets'),
           NEW then \in {"cache", "return"}, NEW found \in Nat, Updates(t, set, then, found)
    PROVE  TasksSound' /\ ForgottenSound'
<1> DEFINE task == tasks[t]
           to == [task EXCEPT !.at = "update", !.set = set, !.then = then, !.found = found]
<1>1. TaskSound(task, Len(sets), Len(maps)) /\ task \in TaskShape /\ task.at = stage
  BY OpenTask
<1>2. set \in Nat /\ found \in Nat
  <2>1. Len(sets') \in Nat
    BY DEF SetsSound
  <2> QED
    BY <2>1
<1>3. /\ to \in TaskShape /\ to.at = "update" /\ to.set = set /\ to.key = task.key /\ to.do = task.do
  <2> HIDE DEF task
  <2> QED
    BY <1>1, <1>2 DEF TaskShape
<1>4. TaskSound(to, Len(sets'), Len(maps'))
  <2>1. stage \notin {"write", "commit"}
    BY DEF Lookups, Loads
  <2> HIDE DEF to, task
  <2> QED
    BY <1>1, <1>3, <2>1 DEF TaskSound, Saves
<1>5. Becomes(t, to) /\ UNCHANGED forgotten
  BY DEF Updates
<1> QED
  BY <1>4, <1>5, TasksKeep DEF ForgottenSound, forgotten

\* A task takes a step and keeps what it has, or a part of it.
LEMMA GoesKeeps ==
    ASSUME SetsSound, TasksSound, SetsSound', Grows, NEW t \in Tasks, NEW from, Is(t, from),
           from \notin {"write", "commit"},
           NEW stage \in Lookups \cup Loads \cup Saves \cup {"update"}, Goes(t, stage),
           stage \in {"update"} \cup Saves => from \in {"update"} \cup Saves,
           stage \notin {"frozen", "filename", "save"},
           stage \in {"delete maps", "delete scores"} => from \in {"delete maps", "delete scores"}
    PROVE  TasksSound'
<1> DEFINE task == tasks[t]
           to == [task EXCEPT !.at = stage]
<1>1. TaskSound(task, Len(sets), Len(maps)) /\ task \in TaskShape /\ task.at = from
  BY OpenTask
<1>2. /\ to \in TaskShape /\ to.at = stage /\ to.set = task.set /\ to.key = task.key /\ to.do = task.do
      /\ to.last = task.last
  BY <1>1 DEF TaskShape
<1>3. 1..Len(sets) \subseteq 1..Len(sets')
  BY IndexesStay
<1>4. stage \notin {"write", "commit"}
  BY DEF Lookups, Loads, Saves
<1>5. TaskSound(to, Len(sets'), Len(maps'))
  <2> HIDE DEF to, task
  <2> QED
    BY <1>1, <1>2, <1>3, <1>4 DEF TaskSound
<1> QED
  BY <1>5, TasksKeep DEF Goes

LEMMA TablesKept ==
    ASSUME TablesShape, UNCHANGED <<external, tables, ruled, control>>, ForgottenSound'
    PROVE  TablesShape'
BY DEF TablesShape, external, tables, control, ForgottenSound, ApiMap, MapRow

LEMMA ForgottenIsSound == ASSUME TablesShape PROVE ForgottenSound
BY DEF TablesShape, ForgottenSound

\* Requests and commands begin.
LEMMA BeginKeeps ==
    ASSUME BeatmapsIInv, NEW t \in Tasks, NEW task, Begin(t, task),
           TaskSound(task, Len(sets), Len(maps))
    PROVE  BeatmapsIInv'
<1>1. SetsSound' /\ Grows
  BY NothingGrows DEF BeatmapsIInv, Begin
<1>2. CachesSound'
  BY <1>1, CachesKept DEF BeatmapsIInv, Begin
<1>3. UNCHANGED objects
  BY DEF Begin
<1>4. TasksSound'
  BY <1>1, <1>3, TasksKeep DEF BeatmapsIInv, Begin, objects
<1>5. TablesShape'
  <2>1. /\ UNCHANGED <<external, tables, ruled, forgotten>> /\ begun' = begun + 1
        /\ overlap' = (overlap \/ Open # {})
    BY DEF Begin
  <2>2. begun' \in Nat /\ overlap' \in BOOLEAN
    BY <2>1 DEF BeatmapsIInv, TablesShape
  <2> QED
    BY <2>1, <2>2 DEF BeatmapsIInv, TablesShape, external, tables, forgotten, ApiMap, MapRow
<1> QED
  BY <1>1, <1>2, <1>4, <1>5 DEF BeatmapsIInv

LEMMA NewTask ==
    /\ Task \in TaskShape /\ Task.at = "cached" /\ Task.do = "lookup" /\ Task.then = "cache"
<1>1. <<>> \in Answers
  <2>1. <<>> \in [{} -> UNION {ApiMap(b) : b \in Bids}]
    OBVIOUS
  <2> QED
    BY <2>1 DEF Answers
<1>2. Nothing \in Keys \cup {Nothing}
  OBVIOUS
<1>3. <<>> \in Writes
  <2>1. <<>> \in [{} -> UNION {MapRow(b) : b \in Bids}]
    OBVIOUS
  <2> QED
    BY <2>1 DEF Writes
<1> HIDE DEF Nothing
<1> QED
  BY <1>1, <1>2, <1>3 DEF Task, TaskShape, Lookups

LEMMA RequestsKeep ==
    ASSUME BeatmapsIInv, NEW t \in Tasks, NEW claim \in BOOLEAN, NEW md5 \in Md5s, NEW bid \in Bids,
           FromMd5(t, md5, claim) \/ FromBid(t, bid) \/ FetchLeaderboard(t, md5, claim)
    PROVE  BeatmapsIInv' /\ \E task : Begin(t, task) /\ task.at = "cached" /\ task.then = "cache"
<1>1. md5 \in Keys /\ ById(bid) \in Keys
  BY KeyOfMd5
<1>2. ASSUME NEW task \in TaskShape, task.at = "cached", task.key \in Keys,
             task.do = "lookup" \/ (task.do = "leaderboard" /\ task.key \in Md5s)
      PROVE  TaskSound(task, Len(sets), Len(maps))
  BY <1>2 DEF TaskSound, Saves
<1>3. CASE FromMd5(t, md5, claim)
  <2> DEFINE task == [Task EXCEPT !.key = md5, !.claim = claim]
  <2>1. /\ task \in TaskShape /\ task.at = "cached" /\ task.key = md5
        /\ task.do = "lookup" /\ task.then = "cache"
    BY <1>1, NewTask DEF TaskShape
  <2>2. Begin(t, task)
    BY <1>3 DEF FromMd5
  <2> HIDE DEF task
  <2> QED
    BY <1>1, <1>2, <2>1, <2>2, BeginKeeps
<1>4. CASE FromBid(t, bid)
  <2>1. ASSUME NEW key \in Keys, NEW made, made = [Task EXCEPT !.key = key]
        PROVE  TaskSound(made, Len(sets), Len(maps)) /\ made.at = "cached" /\ made.then = "cache"
    <3>1. /\ made \in TaskShape /\ made.at = "cached" /\ made.key = key
          /\ made.do = "lookup" /\ made.then = "cache"
      BY <2>1, NewTask DEF TaskShape
    <3> QED
      BY <1>2, <3>1
  <2> DEFINE task == [Task EXCEPT !.key = ById(bid)]
  <2>2. TaskSound(task, Len(sets), Len(maps)) /\ task.at = "cached" /\ task.then = "cache"
    BY <1>1, <2>1
  <2>3. Begin(t, task)
    BY <1>4 DEF FromBid
  <2> QED
    BY <2>2, <2>3, BeginKeeps
<1>5. CASE FetchLeaderboard(t, md5, claim)
  <2> DEFINE task == [Task EXCEPT !.do = "leaderboard", !.key = md5, !.claim = claim]
  <2>1. Begin(t, task)
    BY <1>5 DEF FetchLeaderboard
  <2>2. task \in TaskShape /\ task.at = "cached" /\ task.key = md5 /\ task.do = "leaderboard"
        /\ task.then = "cache"
    BY <1>1, NewTask DEF TaskShape
  <2> HIDE DEF task
  <2> QED
    BY <1>1, <1>2, <2>1, <2>2, BeginKeeps
<1> QED
  BY <1>3, <1>4, <1>5

ShownMaps == {beatmap[ById(b)] : b \in Bids} \ {0}

LEMMA MapCommandKeeps ==
    ASSUME BeatmapsIInv, NEW t \in Tasks, NEW np \in ShownMaps, NEW scope \in {"map", "set"},
           NEW ruling \in Statuses, MapCommand(t, np, scope, ruling)
    PROVE  BeatmapsIInv' /\ \E task : Begin(t, task) /\ task.at = "write"
<1> DEFINE task == [Task EXCEPT !.do = scope, !.at = "write", !.np = np, !.status = ruling]
<1>1. Begin(t, task)
  BY DEF MapCommand
<1>2. np \in 1..Len(maps) /\ np \in Nat
  <2>1. \A b \in Bids : beatmap[ById(b)] \in 0..Len(maps)
    BY KeyOfMd5 DEF BeatmapsIInv, CachesSound
  <2>2. Len(maps) \in Nat
    BY Lengths DEF BeatmapsIInv
  <2> QED
    BY <2>1, <2>2 DEF ShownMaps
<1>3. /\ task \in TaskShape /\ task.at = "write" /\ task.np = np /\ task.do = scope
      /\ task.status = ruling
  BY <1>2, NewTask DEF TaskShape
<1> HIDE DEF task
<1>4. TaskSound(task, Len(sets), Len(maps))
  BY <1>2, <1>3 DEF TaskSound, Saves
<1> QED
  BY <1>1, <1>3, <1>4, BeginKeeps

-----------------------------------------------------------------------------
(* Steps that change no set *)

\* A step that leaves the tables and the sets: what it does to task and caches
LEMMA LookupKeeps ==
    ASSUME BeatmapsIInv, UNCHANGED <<external, tables, objects, ruled, control>>,
           CachesSound', TasksSound', ForgottenSound'
    PROVE  BeatmapsIInv'
BY NothingGrows, TablesKept DEF BeatmapsIInv

LEMMA LookInCacheKeeps ==
    ASSUME BeatmapsIInv, NEW t \in Tasks, LookInCache(t)
    PROVE  BeatmapsIInv'
<1>1. SetsSound' /\ Grows /\ ForgottenSound
  BY NothingGrows, ForgottenIsSound DEF BeatmapsIInv, LookInCache
<1>2. SetsSound /\ CachesSound /\ TasksSound
  BY DEF BeatmapsIInv
<1>3. Is(t, "cached") /\ UNCHANGED <<external, tables, objects, caches, ruled, control>>
  BY DEF LookInCache, Tables, Rest
<1>4. TaskSound(tasks[t], Len(sets), Len(maps)) /\ tasks[t].at = "cached" /\ tasks[t] # Absent
  BY <1>2, <1>3, OpenTask DEF Is
<1>5. CachesSound'
  BY <1>1, <1>2, <1>3, CachesKept
<1> DEFINE found == beatmap[tasks[t].key]
           set == maps[found].set
<1>6. CASE \E stage \in {"set", "row"} : Goes(t, stage) /\ UNCHANGED forgotten
  <2>1. PICK stage \in {"set", "row"} : Goes(t, stage) /\ UNCHANGED forgotten
    BY <1>6
  <2>2. TasksSound'
    BY <1>1, <1>2, <1>3, <2>1, GoesKeeps DEF Lookups, Loads, Saves
  <2> QED
    BY <1>1, <1>3, <1>5, <2>1, <2>2, LookupKeeps DEF ForgottenSound, forgotten
<1>7. CASE Ends(t, found, CachedIds)
  <2>1. TasksSound' /\ ForgottenSound'
    BY <1>1, <1>2, <1>4, <1>7, EndsKeeps
  <2> QED
    BY <1>3, <1>5, <2>1, LookupKeeps
<1>8. CASE found # 0 /\ Updates(t, set, "return", found)
  <2>1. tasks[t].key \in Keys
    BY <1>4 DEF TaskSound
  <2>2. found \in 1..Len(maps) /\ found \in Nat
    <3>1. found \in 0..Len(maps) /\ Len(maps) \in Nat
      BY <1>2, <2>1, Lengths DEF CachesSound
    <3> QED
      BY <3>1, <1>8
  <2>3. maps[found] \in MapObject(Len(sets))
    BY <1>2, <2>2 DEF SetsSound
  <2>4. set \in 1..Len(sets')
    BY <1>3, <2>3 DEF MapObject, objects
  <2>5. TasksSound' /\ ForgottenSound'
    <3> HIDE DEF found, set
    <3> QED
      BY <1>1, <1>2, <1>3, <1>8, <2>2, <2>4, UpdatesKeeps DEF Lookups
  <2> QED
    BY <1>3, <1>5, <2>5, LookupKeeps
<1> QED
  BY <1>6, <1>7, <1>8 DEF LookInCache

LEMMA LookInTableKeeps ==
    ASSUME BeatmapsIInv, NEW t \in Tasks, LookInTable(t) \/ LookForSet(t)
    PROVE  BeatmapsIInv'
<1>1. SetsSound' /\ Grows
  BY NothingGrows DEF BeatmapsIInv, LookInTable, LookForSet, Memory
<1>2. SetsSound /\ CachesSound /\ TasksSound /\ ForgottenSound
  BY ForgottenIsSound DEF BeatmapsIInv
<1>3. UNCHANGED <<external, tables, objects, caches, ruled, control, forgotten>>
  BY DEF LookInTable, LookForSet, Tables, Rest, Memory
<1>4. PICK from \in {"row", "mapset row"}, stage \in {"set", "ask map", "map rows", "ask set"} :
        Is(t, from) /\ Goes(t, stage)
  BY DEF LookInTable, LookForSet
<1>5. TasksSound'
  BY <1>1, <1>2, <1>4, GoesKeeps DEF Lookups, Loads, Saves
<1> QED
  BY <1>1, <1>2, <1>3, <1>5, LookupKeeps, CachesKept DEF ForgottenSound, forgotten

LEMMA UnansweredKeeps ==
    ASSUME BeatmapsIInv, UNCHANGED objects, NEW t \in Tasks, tasks[t] # Absent,
           tasks[t].at \notin {"write", "commit"}, Unanswered(t)
    PROVE  TasksSound' /\ ForgottenSound'
<1>1. SetsSound' /\ Grows /\ SetsSound /\ TasksSound /\ ForgottenSound
  BY NothingGrows, ForgottenIsSound DEF BeatmapsIInv
<1>2. CASE Ends(t, 0, CachedIds)
  BY <1>1, <1>2, EndsKeeps
<1>3. CASE Becomes(t, Absent) /\ UNCHANGED forgotten
  BY <1>1, <1>3, TasksKeep DEF ForgottenSound, forgotten
<1> QED
  BY <1>2, <1>3 DEF Unanswered

LEMMA AskForMapKeeps ==
    ASSUME BeatmapsIInv, NEW t \in Tasks, AskForMap(t)
    PROVE  BeatmapsIInv'
<1>1. SetsSound' /\ Grows
  BY NothingGrows DEF BeatmapsIInv, AskForMap, Memory
<1>2. SetsSound /\ CachesSound /\ TasksSound /\ ForgottenSound
  BY ForgottenIsSound DEF BeatmapsIInv
<1>3. UNCHANGED <<external, tables, objects, caches, ruled, control>> /\ Is(t, "ask map")
  BY DEF AskForMap, Tables, Rest, Memory
<1>4. TasksSound' /\ ForgottenSound'
  <2>1. CASE Goes(t, "set") /\ UNCHANGED forgotten
    <3> DEFINE from == "ask map"
               to == "set"
    <3>1. /\ from \notin {"write", "commit"} /\ from \notin {"update"} \cup Saves
          /\ to \in Lookups /\ to \notin {"update", "frozen", "filename"} \cup Saves
          /\ Is(t, from) /\ Goes(t, to)
      BY <1>3, <2>1 DEF Lookups, Saves
    <3> HIDE DEF from, to
    <3>2. TasksSound'
      BY <1>1, <1>2, <3>1, GoesKeeps DEF Saves
    <3> QED
      BY <1>2, <2>1, <3>2 DEF ForgottenSound, forgotten
  <2>2. CASE Unanswered(t)
    BY <1>3, <2>2, UnansweredKeeps DEF Is
  <2> QED
    BY <2>1, <2>2 DEF AskForMap
<1> QED
  BY <1>1, <1>2, <1>3, <1>4, LookupKeeps, CachesKept

LEMMA LookForFilenameKeeps ==
    ASSUME BeatmapsIInv, NEW t \in Tasks, LookForFilename(t)
    PROVE  BeatmapsIInv'
<1>1. SetsSound' /\ Grows
  BY NothingGrows DEF BeatmapsIInv, LookForFilename, Memory
<1>2. SetsSound /\ CachesSound /\ TasksSound /\ ForgottenSound
  BY ForgottenIsSound DEF BeatmapsIInv
<1>3. UNCHANGED <<external, tables, objects, caches, ruled, control>> /\ Is(t, "filename")
  BY DEF LookForFilename, Tables, Rest, Memory
<1>4. tasks[t].key \in Md5s
  BY <1>2, <1>3, OpenTask DEF TaskSound
<1>5. ForgottenSound'
  BY <1>2, <1>4 DEF LookForFilename, ForgottenSound
<1>6. TasksSound'
  BY <1>1, <1>2, TasksKeep DEF LookForFilename
<1> QED
  BY <1>1, <1>2, <1>3, <1>5, <1>6, LookupKeeps, CachesKept

LEMMA TakeSetKeeps ==
    ASSUME BeatmapsIInv, NEW t \in Tasks, TakeSet(t)
    PROVE  BeatmapsIInv'
<1>1. SetsSound' /\ Grows
  BY NothingGrows DEF BeatmapsIInv, TakeSet
<1>2. SetsSound /\ CachesSound /\ TasksSound /\ ForgottenSound
  BY ForgottenIsSound DEF BeatmapsIInv
<1>3. UNCHANGED <<external, tables, objects, ruled, control>> /\ Is(t, "set")
  BY DEF TakeSet, Tables, Rest
<1>4. tasks[t] # Absent /\ tasks[t].at = "set"
  BY <1>3 DEF Is
<1>5. beatmapset \in 0..Len(sets) /\ Len(sets) \in Nat
  BY <1>2, Lengths DEF CachesSound
<1>6. CASE Goes(t, "mapset row") /\ UNCHANGED <<caches, forgotten>>
  <2> DEFINE from == "set"
             to == "mapset row"
  <2>1. /\ from \notin {"write", "commit"} /\ from \notin {"update"} \cup Saves
        /\ to \in Loads /\ to \notin {"update", "frozen", "filename"} \cup Saves
        /\ Is(t, from) /\ Goes(t, to)
    BY <1>3, <1>6 DEF Loads, Saves
  <2> HIDE DEF from, to
  <2>2. TasksSound'
    BY <1>1, <1>2, <2>1, GoesKeeps DEF Saves
  <2> QED
    BY <1>1, <1>2, <1>3, <1>6, <2>2, LookupKeeps, CachesKept DEF ForgottenSound, forgotten
<1>7. CASE beatmapset # 0 /\ CacheSet(t, beatmapset, sets[beatmapset], maps)
  <2>1. maps' = maps /\ sets' = sets /\ beatmapset \in 1..Len(sets)
    BY <1>3, <1>5, <1>7 DEF objects
  <2>2. sets[beatmapset] \in SUBSET (1..Len(maps))
    BY <1>2, <2>1 DEF SetsSound
  <2> DEFINE set == beatmapset
             members == sets[beatmapset]
  <2>3. set \in 1..Len(sets') /\ members \in SUBSET (1..Len(maps')) /\ CacheSet(t, set, members, maps')
    BY <1>7, <2>1, <2>2
  <2> HIDE DEF set, members
  <2>4. tasks[t].at \notin {"write", "commit"}
    BY <1>4
  <2>5. CachesSound' /\ TasksSound' /\ ForgottenSound'
    BY <1>1, <1>2, <1>4, <2>3, <2>4, CacheSetKeeps
  <2> QED
    BY <1>3, <2>5, LookupKeeps
<1>8. CASE beatmapset # 0 /\ Updates(t, beatmapset, "cache", 0) /\ UNCHANGED caches
  <2>1. beatmapset \in 1..Len(sets')
    BY <1>3, <1>5, <1>8 DEF objects
  <2>2. TasksSound' /\ ForgottenSound'
    BY <1>1, <1>2, <1>3, <1>8, <2>1, UpdatesKeeps DEF Lookups
  <2> QED
    BY <1>1, <1>2, <1>3, <1>8, <2>2, LookupKeeps, CachesKept
<1> QED
  BY <1>6, <1>7, <1>8 DEF TakeSet

LEMMA AskForSetKeeps ==
    ASSUME BeatmapsIInv, NEW t \in Tasks, AskForSet(t)
    PROVE  BeatmapsIInv'
<1>1. SetsSound' /\ Grows
  BY NothingGrows DEF BeatmapsIInv, AskForSet, Memory
<1>2. SetsSound /\ CachesSound /\ TasksSound /\ ForgottenSound
  BY ForgottenIsSound DEF BeatmapsIInv
<1>3. UNCHANGED <<external, tables, objects, caches, ruled, control>> /\ Is(t, "ask set")
  BY DEF AskForSet, Tables, Rest, Memory
<1>4. TaskSound(tasks[t], Len(sets), Len(maps)) /\ tasks[t] \in TaskShape /\ tasks[t].at = "ask set"
  BY <1>2, <1>3, OpenTask
<1> DEFINE answer == [b \in InApi |-> api[b]]
           task == tasks[t]
           to == [task EXCEPT !.at = "frozen", !.answer = answer]
<1>5. TasksSound' /\ ForgottenSound'
  <2>1. CASE Becomes(t, to) /\ UNCHANGED forgotten
    <3>1. DOMAIN answer \subseteq Bids /\ \A b \in DOMAIN answer : answer[b] \in ApiMap(b)
      BY DEF BeatmapsIInv, TablesShape, InApi
    <3>2. answer \in Answers
      <4>1. answer \in [InApi -> UNION {ApiMap(b) : b \in Bids}] /\ InApi \in SUBSET Bids
        BY <3>1 DEF InApi
      <4> QED
        BY <4>1 DEF Answers
    <3> HIDE DEF answer
    <3>3. /\ to \in TaskShape /\ to.at = "frozen" /\ to.answer = answer /\ to.key = task.key
          /\ to.do = task.do
      <4>1. task \in TaskShape
        BY <1>4
      <4> HIDE DEF task
      <4> QED
        BY <3>2, <4>1 DEF TaskShape, Loads
    <3>4. TaskSound(to, Len(sets'), Len(maps'))
      <4> HIDE DEF to, task
      <4>1. TaskSound(task, Len(sets), Len(maps)) /\ task.at = "ask set"
        BY <1>4 DEF task
      <4> QED
        BY <3>1, <3>3, <4>1 DEF TaskSound, Saves
    <3>5. TasksSound'
      <4> HIDE DEF to
      <4> QED
        BY <1>1, <1>2, <2>1, <3>4, TasksKeep
    <3> QED
      BY <1>2, <2>1, <3>5 DEF ForgottenSound, forgotten
  <2>2. CASE Unanswered(t)
    BY <1>3, <2>2, UnansweredKeeps DEF Is
  <2> QED
    BY <2>1, <2>2 DEF AskForSet
<1> QED
  BY <1>1, <1>2, <1>3, <1>5, LookupKeeps, CachesKept

-----------------------------------------------------------------------------
(* Sets are made *)

\* New maps go into a new set.
LEMMA SetMade ==
    ASSUME SetsSound, NEW made, DOMAIN made \subseteq Bids,
           \A b \in DOMAIN made : made[b] \in MapObject(Len(sets) + 1) /\ made[b].id = b,
           maps' = maps \o Make(made), sets' = Append(sets, NewMembers(made))
    PROVE  /\ SetsSound' /\ Grows
           /\ Len(sets') = Len(sets) + 1 /\ sets'[Len(sets) + 1] = NewMembers(made)
           /\ NewMembers(made) \in SUBSET (1..Len(maps'))
           /\ \A i \in NewMembers(made) : \E b \in DOMAIN made : maps'[i] = made[b]
           /\ \A b \in DOMAIN made : \E i \in NewMembers(made) : maps'[i] = made[b]
<1> DEFINE n == Len(sets)
           new == NewMembers(made)
<1>1. n \in Nat /\ Len(maps) \in Nat
  BY Lengths
<1>2. MapObject(n) \subseteq MapObject(n + 1)
  BY <1>1 DEF MapObject
<1>3. maps \in Seq(MapObject(n + 1))
  BY <1>2, SeqMonotonic DEF SetsSound
<1>4. /\ maps' \in Seq(MapObject(n + 1)) /\ new \subseteq 1..Len(maps') /\ Len(maps) <= Len(maps')
      /\ \A i \in 1..Len(maps) : maps'[i] = maps[i] /\ i \notin new
      /\ \A i \in new : \E b \in DOMAIN made : maps'[i] = made[b]
      /\ \A b \in DOMAIN made : \E i \in new : maps'[i] = made[b]
      /\ \A i, j \in new : maps'[i].id = maps'[j].id => i = j
  <2> DEFINE R == MapObject(n + 1)
  <2>1. maps \in Seq(R) /\ \A b \in DOMAIN made : made[b] \in R /\ made[b].id = b
    BY <1>3
  <2> HIDE DEF R
  <2>2. /\ maps' \in Seq(R) /\ new \subseteq 1..Len(maps') /\ Len(maps) <= Len(maps')
        /\ \A i \in 1..Len(maps) : maps'[i] = maps[i] /\ i \notin new
        /\ \A i \in new : \E b \in DOMAIN made : maps'[i] = made[b]
        /\ \A b \in DOMAIN made : \E i \in new : maps'[i] = made[b]
        /\ \A i, j \in new : maps'[i].id = maps'[j].id => i = j
    <3>1. /\ DOMAIN made \subseteq Bids /\ maps' = maps \o Make(made) /\ Len(maps) = Len(maps)
      OBVIOUS
    <3>2. DOMAIN made \subseteq Bids /\ maps \in Seq(R) /\ (\A b \in DOMAIN made : made[b] \in R /\ made[b].id = b)
      BY <2>1
    <3>3. Len(maps) = Len(maps)
      OBVIOUS
    <3>4. maps' \in Seq(R) /\ Extended(maps', maps, made)
      BY <3>1, <3>2, <3>3, ObjectsMade, Zenon
    <3> QED
      BY <3>4 DEF Extended
  <2> QED
    BY <2>2 DEF R
<1> HIDE DEF new
<1>5. /\ sets' \in Seq(SUBSET (1..Len(maps'))) /\ Len(sets') = n + 1 /\ sets'[n + 1] = new
      /\ \A k \in 1..n : sets'[k] = sets[k]
  <2> DEFINE S == SUBSET (1..Len(maps'))
  <2>1. Len(maps') \in Nat
    BY <1>4
  <2>2. SUBSET (1..Len(maps)) \subseteq S
    BY <1>1, <1>4, <2>1
  <2>3. sets \in Seq(S) /\ new \in S
    BY <1>4, <2>2, SeqMonotonic DEF SetsSound
  <2>4. sets' = Append(sets, new)
    BY DEF new
  <2> HIDE DEF S
  <2> QED
    BY <2>3, <2>4, AppendProperties DEF S
<1>6. \A k \in 1..n + 1 : \A i, j \in sets'[k] : maps'[i].id = maps'[j].id => i = j
  <2>1. TAKE k \in 1..n + 1
  <2>2. CASE k = n + 1
    BY <1>4, <1>5, <2>2
  <2>3. CASE k # n + 1
    <3>1. k \in 1..n
      BY <1>1, <2>3
    <3>2. sets'[k] = sets[k] /\ sets[k] \subseteq 1..Len(maps)
      BY <1>5, <3>1 DEF SetsSound
    <3> QED
      BY <1>4, <3>1, <3>2 DEF SetsSound
  <2> QED
    BY <2>2, <2>3
<1>7. SetsSound'
  BY <1>4, <1>5, <1>6 DEF SetsSound
<1>8. Grows
  BY <1>1, <1>4, <1>5 DEF Grows
<1> QED
  BY <1>4, <1>5, <1>7, <1>8 DEF new

\* A step that leaves the tables
LEMMA ObjectsKeep ==
    ASSUME BeatmapsIInv, UNCHANGED <<external, tables, ruled, control>>,
           SetsSound', CachesSound', TasksSound', ForgottenSound'
    PROVE  BeatmapsIInv'
BY TablesKept DEF BeatmapsIInv

\* An object for every row
FromRows(set) ==
    [b \in {b \in Bids : rows[b] # Absent} |-> Object(rows[b], rows[b].frozen, set)]

LEMMA FromRowsMade ==
    ASSUME TablesShape, NEW n \in Nat \ {0}
    PROVE  /\ DOMAIN FromRows(n) \subseteq Bids
           /\ \A b \in DOMAIN FromRows(n) : /\ FromRows(n)[b] \in MapObject(n)
                                          /\ FromRows(n)[b].id = b
                                          /\ Row(FromRows(n)[b]) = rows[b]
<1> DEFINE made == FromRows(n)
<1>1. ASSUME NEW b \in DOMAIN made
      PROVE  made[b] \in MapObject(n) /\ made[b].id = b /\ Row(made[b]) = rows[b] /\ b \in Bids
  <2>1. b \in Bids /\ rows[b] \in MapRow(b) /\ made[b] = Object(rows[b], rows[b].frozen, n)
    BY <1>1 DEF FromRows, TablesShape
  <2>2. rows[b].frozen \in BOOLEAN /\ n \in 1..n
    BY <2>1 DEF MapRow
  <2> HIDE DEF made
  <2>3. made[b] \in MapObject(n) /\ made[b].id = b
    BY <2>1, <2>2, ObjectOf
  <2>4. Row(made[b]) = rows[b]
    BY <2>1, RowOfObject
  <2> QED
    BY <2>1, <2>3, <2>4
<1> HIDE DEF made
<1>2. made = FromRows(n)
  BY DEF made
<1> QED
  BY <1>1, <1>2

LEMMA LoadRowsKeeps ==
    ASSUME BeatmapsIInv, NEW t \in Tasks, LoadRows(t)
    PROVE  BeatmapsIInv'
<1> DEFINE set == Len(sets) + 1
           made == FromRows(set)
           members == NewMembers(made)
<1>1. SetsSound /\ CachesSound /\ TasksSound /\ ForgottenSound /\ TablesShape
  BY ForgottenIsSound DEF BeatmapsIInv
<1>2. UNCHANGED <<external, tables, ruled, control>> /\ Is(t, "map rows")
  BY DEF LoadRows, Tables, Rest
<1>3. set \in 1..set /\ Len(sets) \in Nat /\ set \in Nat \ {0}
  BY <1>1, Lengths
<1>4. DOMAIN made \subseteq Bids
  BY <1>1, <1>3, FromRowsMade
<1>5. \A b \in DOMAIN made : made[b] \in MapObject(set) /\ made[b].id = b
  BY <1>1, <1>3, FromRowsMade
<1>6. maps' = maps \o Make(made) /\ sets' = Append(sets, members)
  BY DEF LoadRows, FromRows
<1>7. \/ CacheSet(t, set, members, maps')
      \/ Updates(t, set, "cache", 0) /\ UNCHANGED caches
  BY DEF LoadRows, FromRows
<1> HIDE DEF made
<1>8. /\ SetsSound' /\ Grows /\ Len(sets') = set /\ members \in SUBSET (1..Len(maps'))
  BY <1>1, <1>4, <1>5, <1>6, SetMade
<1>9. tasks[t] # Absent /\ tasks[t].at = "map rows" /\ set \in 1..Len(sets')
  BY <1>2, <1>3, <1>8 DEF Is
<1>10. tasks[t].at \notin {"write", "commit"}
  BY <1>9
<1> HIDE DEF set, members
<1>11. CASE CacheSet(t, set, members, maps')
  <2>1. CachesSound' /\ TasksSound' /\ ForgottenSound'
    BY <1>1, <1>8, <1>9, <1>10, <1>11, CacheSetKeeps
  <2> QED
    BY <1>2, <1>8, <2>1, ObjectsKeep
<1>12. CASE Updates(t, set, "cache", 0) /\ UNCHANGED caches
  <2>1. TasksSound' /\ ForgottenSound'
    BY <1>1, <1>2, <1>8, <1>9, <1>12, UpdatesKeeps DEF Loads
  <2> QED
    BY <1>1, <1>2, <1>8, <1>12, <2>1, CachesKept, ObjectsKeep
<1> QED
  BY <1>7, <1>11, <1>12

LEMMA MakeFromApiKeeps ==
    ASSUME BeatmapsIInv, NEW t \in Tasks, MakeFromApi(t)
    PROVE  BeatmapsIInv'
<1> DEFINE set == Len(sets) + 1
           answer == tasks[t].answer
           frozen(b) == rows[b] # Absent /\ rows[b].frozen
           made == [b \in DOMAIN answer |->
                      Parse(Object(IF frozen(b) THEN rows[b] ELSE answer[b], frozen(b), set),
                            answer[b])]
           task == tasks[t]
           to == [task EXCEPT !.at = "replace set", !.set = set, !.answer = <<>>]
<1>1. SetsSound /\ CachesSound /\ TasksSound /\ ForgottenSound
  BY ForgottenIsSound DEF BeatmapsIInv
<1>2. UNCHANGED <<external, tables, ruled, control, caches, forgotten>> /\ Is(t, "frozen")
  BY DEF MakeFromApi, Tables, Rest
<1>3. set \in 1..set /\ Len(sets) \in Nat
  BY <1>1, Lengths
<1>4. TaskSound(task, Len(sets), Len(maps)) /\ task \in TaskShape /\ task.at = "frozen"
  BY <1>1, <1>2, OpenTask
<1>5. DOMAIN answer \subseteq Bids /\ \A b \in DOMAIN answer : answer[b] \in ApiMap(b)
  BY <1>4 DEF TaskSound
<1>6. \A b \in DOMAIN made : made[b] \in MapObject(set) /\ made[b].id = b
  <2>1. TAKE b \in DOMAIN made
  <2> DEFINE f == frozen(b)
             from == IF f THEN rows[b] ELSE answer[b]
  <2>2. b \in Bids /\ answer[b] \in ApiMap(b)
    BY <1>5
  <2>3. f \in BOOLEAN /\ (f => rows[b] \in MapRow(b))
    BY <2>2 DEF BeatmapsIInv, TablesShape, MapRow
  <2>4. from \in ApiMap(b) \cup MapRow(b)
    BY <2>2, <2>3
  <2>5. made[b] = Parse(Object(from, f, set), answer[b])
    OBVIOUS
  <2> HIDE DEF set, from, f
  <2>6. Object(from, f, set) \in MapObject(set) /\ Object(from, f, set).id = b
    BY <1>3, <2>2, <2>3, <2>4, ObjectOf
  <2> QED
    BY <2>2, <2>5, <2>6, ParsedMap
<1>7. maps' = maps \o Make(made) /\ sets' = Append(sets, NewMembers(made)) /\ Becomes(t, to)
  BY DEF MakeFromApi
<1>8. DOMAIN made \subseteq Bids
  BY <1>5
<1> HIDE DEF made
<1>9. SetsSound' /\ Grows /\ Len(sets') = set
  BY <1>1, <1>6, <1>7, <1>8, SetMade
<1>10. TaskSound(to, Len(sets'), Len(maps'))
  <2>1. <<>> \in Answers /\ set \in Nat
    BY <1>3, NewTask DEF TaskShape, Task
  <2> HIDE DEF task, set
  <2>2. /\ to \in TaskShape /\ to.at = "replace set" /\ to.set = set
        /\ to.key = task.key /\ to.do = task.do
    BY <1>4, <2>1 DEF TaskShape, Saves
  <2> HIDE DEF to
  <2> QED
    BY <1>3, <1>4, <1>9, <2>2 DEF TaskSound, Saves
<1> HIDE DEF to
<1>11. TasksSound'
  BY <1>1, <1>7, <1>9, <1>10, TasksKeep
<1> QED
  BY <1>1, <1>2, <1>9, <1>11, CachesKept, ObjectsKeep DEF ForgottenSound, forgotten

-----------------------------------------------------------------------------
(* A set is updated *)

Gone(set) == {i \in sets[set] : maps[i].id \notin InApi}
Parsed(set) ==
    [i \in DOMAIN maps |->
       IF i \in sets[set] \ Gone(set) THEN Parse(maps[i], api[maps[i].id]) ELSE maps[i]]
Added(set) ==
    [b \in InApi \ {maps[i].id : i \in sets[set]} |-> Object(api[b], FALSE, set)]

LEMMA ParsedMaps ==
    ASSUME TablesShape, SetsSound, NEW set \in 1..Len(sets)
    PROVE  /\ Parsed(set) \in Seq(MapObject(Len(sets))) /\ Len(Parsed(set)) = Len(maps)
           /\ \A i \in 1..Len(maps) : /\ Parsed(set)[i].id = maps[i].id
                                      /\ Parsed(set)[i].frozen = maps[i].frozen
                                      /\ maps[i].frozen => Parsed(set)[i].status = maps[i].status
<1> DEFINE n == Len(sets)
           p == Parsed(set)
<1>1. maps \in [1..Len(maps) -> MapObject(n)] /\ Len(maps) \in Nat /\ DOMAIN maps = 1..Len(maps)
  BY DEF SetsSound
<1>2. ASSUME NEW i \in 1..Len(maps)
      PROVE  p[i] \in MapObject(n) /\ p[i].id = maps[i].id /\ p[i].frozen = maps[i].frozen
             /\ (maps[i].frozen => p[i].status = maps[i].status)
  <2>1. maps[i] \in MapObject(n)
    BY <1>1
  <2>2. CASE i \in sets[set] \ Gone(set)
    <3>1. maps[i].id \in InApi /\ p[i] = Parse(maps[i], api[maps[i].id])
      BY <1>1, <2>2 DEF Gone, Parsed
    <3>2. api[maps[i].id] \in ApiMap(maps[i].id)
      BY <3>1 DEF TablesShape, InApi
    <3> HIDE DEF n, p
    <3> QED
      BY <2>1, <3>1, <3>2, ParsedMap
  <2>3. CASE i \notin sets[set] \ Gone(set)
    <3>1. p[i] = maps[i]
      BY <1>1, <2>3 DEF Parsed
    <3> HIDE DEF n, p
    <3> QED
      BY <2>1, <3>1
  <2> QED
    BY <2>2, <2>3
<1>3. p \in [1..Len(maps) -> MapObject(n)]
  <2>1. p = [i \in 1..Len(maps) |-> p[i]]
    BY <1>1 DEF Parsed
  <2> HIDE DEF p, n
  <2> QED
    BY <1>2, <2>1
<1> HIDE DEF p, n
<1>4. p \in Seq(MapObject(n)) /\ Len(p) = Len(maps)
  BY <1>1, <1>3
<1> QED
  BY <1>2, <1>4 DEF p, n

LEMMA SetUpdated ==
    ASSUME TablesShape, SetsSound, NEW set \in 1..Len(sets),
           maps' = Parsed(set) \o Make(Added(set)),
           Put(sets', sets, set, (sets[set] \ Gone(set)) \cup NewMembers(Added(set)))
    PROVE  /\ SetsSound' /\ Grows /\ Len(sets') = Len(sets)
           /\ Extended(maps', Parsed(set), Added(set))
           /\ DOMAIN sets' = DOMAIN sets
<1> DEFINE n == Len(sets)
           p == Parsed(set)
           made == Added(set)
           new == NewMembers(made)
           left == sets[set] \ Gone(set)
<1>1. n \in Nat /\ Len(maps) \in Nat
  BY Lengths
<1>2. DOMAIN made \subseteq Bids /\ \A b \in DOMAIN made : made[b] \in MapObject(n) /\ made[b].id = b
  <2>1. DOMAIN made = InApi \ {maps[i].id : i \in sets[set]}
    BY DEF Added
  <2>2. ASSUME NEW b \in DOMAIN made PROVE made[b] \in MapObject(n) /\ made[b].id = b
    <3>1. b \in Bids /\ api[b] \in ApiMap(b) /\ made[b] = Object(api[b], FALSE, set)
      BY <2>1, <2>2 DEF InApi, TablesShape, Added
    <3>3. Object(api[b], FALSE, set) \in MapObject(n) /\ Object(api[b], FALSE, set).id = b
      BY <3>1, ApiObject, Zenon
    <3> QED
      BY <3>1, <3>3
  <2> QED
    BY <2>1, <2>2 DEF InApi
<1>3. /\ p \in Seq(MapObject(n)) /\ Len(p) = Len(maps)
      /\ \A i \in 1..Len(maps) : p[i].id = maps[i].id
  BY ParsedMaps
<1>4. maps' \in Seq(MapObject(n)) /\ Extended(maps', p, made)
  <2>1. maps' = p \o Make(made)
    OBVIOUS
  <2> DEFINE R == MapObject(n)
  <2>2. p \in Seq(R) /\ Len(p) = Len(maps) /\ \A b \in DOMAIN made : made[b] \in R /\ made[b].id = b
    BY <1>2, <1>3
  <2> HIDE DEF p, made, R
  <2>3. maps' \in Seq(R) /\ Extended(maps', p, made)
    BY <1>2, <2>1, <2>2, ObjectsMade, Zenon
  <2> QED
    BY <2>3 DEF R
<1>5. /\ \A i \in 1..Len(maps) : maps'[i].id = maps[i].id /\ i \notin new
      /\ new \subseteq 1..Len(maps') /\ Len(maps) <= Len(maps') /\ Len(maps') \in Nat
      /\ \A i \in new : maps'[i].id \in DOMAIN made
      /\ \A i, j \in new : maps'[i].id = maps'[j].id => i = j
  <2>1. /\ \A i \in new : \E b \in DOMAIN made : maps'[i] = made[b]
        /\ \A i, j \in new : maps'[i].id = maps'[j].id => i = j
        /\ \A i \in 1..Len(p) : maps'[i] = p[i] /\ i \notin new
        /\ new \subseteq 1..Len(maps') /\ Len(p) <= Len(maps')
    BY <1>4 DEF Extended
  <2>2. \A b \in DOMAIN made : made[b].id = b
    BY <1>2
  <2>3. Len(maps') \in Nat
    BY <1>4
  <2> HIDE DEF p, made, new
  <2>4. \A i \in 1..Len(maps) : maps'[i].id = maps[i].id /\ i \notin new
    BY <1>3, <2>1
  <2>5. Len(maps) <= Len(maps')
    BY <1>3, <2>1
  <2>6. \A i \in new : maps'[i].id \in DOMAIN made
    BY <2>1, <2>2, Zenon
  <2> QED
    BY <2>1, <2>3, <2>4, <2>5, <2>6, Zenon
<1>6. \A i \in left : maps[i].id \notin DOMAIN made
  BY DEF Added
<1>7. left \subseteq 1..Len(maps) /\ left \subseteq sets[set]
  BY DEF SetsSound
<1>8. /\ sets' \in Seq(SUBSET (1..Len(maps'))) /\ Len(sets') = n /\ sets'[set] = left \cup new
      /\ \A k \in 1..n : k # set => sets'[k] = sets[k]
      /\ DOMAIN sets' = DOMAIN sets
  <2> DEFINE S == SUBSET (1..Len(maps'))
  <2>1. SUBSET (1..Len(maps)) \subseteq S
    BY <1>1, <1>5
  <2>2. sets \in Seq(S)
    BY <2>1, SeqMonotonic DEF SetsSound
  <2>3. left \cup new \in S
    BY <1>1, <1>5, <1>7
  <2>4. Put(sets', sets, set, left \cup new)
    OBVIOUS
  <2> HIDE DEF left, new, S
  <2>5. set \in 1..Len(sets)
    OBVIOUS
  <2> DEFINE e == left \cup new
  <2>6. e \in S /\ Put(sets', sets, set, e)
    BY <2>3, <2>4
  <2> HIDE DEF e
  <2>7. sets' \in Seq(S) /\ IsPut(sets', sets, set, e)
    BY <2>2, <2>5, <2>6, Replacing, Zenon
  <2> QED
    BY <2>7 DEF S, e, IsPut
<1> HIDE DEF left, new, made, p
<1>9. \A k \in 1..n : \A i, j \in sets'[k] : maps'[i].id = maps'[j].id => i = j
  <2>1. TAKE k \in 1..n
  <2>2. TAKE i, j \in sets'[k]
  <2>3. HAVE maps'[i].id = maps'[j].id
  <2>4. CASE k # set
    <3>1. sets'[k] = sets[k] /\ sets[k] \subseteq 1..Len(maps)
      BY <1>8, <2>4 DEF SetsSound
    <3> QED
      BY <1>5, <2>3, <3>1 DEF SetsSound
  <2>5. CASE k = set
    <3>1. i \in left \cup new /\ j \in left \cup new
      BY <1>8, <2>5
    <3>2. CASE i \in new /\ j \in new
      BY <1>5, <2>3, <3>2
    <3>3. CASE i \in left /\ j \in left
      <4>1. maps[i].id = maps[j].id
        BY <1>5, <1>7, <2>3, <3>3
      <4> QED
        BY <1>7, <3>3, <4>1 DEF SetsSound
    <3>4. ASSUME NEW one \in left, NEW other \in new PROVE maps'[one].id # maps'[other].id
      BY <1>5, <1>6, <1>7
    <3> QED
      BY <2>3, <3>1, <3>2, <3>3, <3>4
  <2> QED
    BY <2>4, <2>5
<1>10. SetsSound'
  BY <1>4, <1>8, <1>9 DEF SetsSound
<1>11. Grows
  BY <1>1, <1>5, <1>8 DEF Grows
<1> QED
  BY <1>4, <1>8, <1>10, <1>11 DEF p, made

\* What an update does, if the api answers
Left(set) == (sets[set] \ Gone(set)) \cup NewMembers(Added(set))
Deleted(set) == {Md5(maps[i]) : i \in IF InApi = {} THEN sets[set] ELSE Gone(set)}
LastOf == IF InApi = {} THEN "delete set" ELSE "replace set"
Updated(task) ==
    [task EXCEPT !.md5s = Deleted(task.set), !.last = LastOf,
                 !.at = IF Deleted(task.set) = {} THEN LastOf ELSE "delete maps"]

LEMMA UpdateIs ==
    ASSUME NEW t \in Tasks, Update(t)
    PROVE  LET set == tasks[t].set IN
           /\ Is(t, "update")
           /\ \/ /\ up /\ Becomes(t, Updated(tasks[t])) /\ UNCHANGED <<caches, forgotten>>
                 /\ \/ InApi = {} /\ UNCHANGED objects
                    \/ /\ InApi # {} /\ maps' = Parsed(set) \o Make(Added(set))
                       /\ Put(sets', sets, set, Left(set))
              \/ ~up /\ UNCHANGED objects /\ Finish(t)
              \/ ~up /\ Raises(t)
           /\ UNCHANGED <<external, tables, ruled, control, missed>>
BY DEF Update, Updated, Deleted, LastOf, Left, Gone, Parsed, Added, Put, Tables, Rest

LEMMA DeletedAreMd5s ==
    ASSUME SetsSound, NEW set \in 1..Len(sets)
    PROVE  Deleted(set) \subseteq Md5s
<1>1. \A i \in sets[set] : maps[i] \in MapObject(Len(sets))
  BY DEF SetsSound
<1>2. \A i \in sets[set] : Md5(maps[i]) \in Md5s
  BY <1>1 DEF MapObject, Md5s, Md5
<1> QED
  BY <1>2 DEF Deleted, Gone

LEMMA UpdatedTask ==
    ASSUME SetsSound, NEW task, TaskSound(task, Len(sets), Len(maps)), task.at = "update"
    PROVE  /\ Updated(task) \in TaskShape
           /\ Updated(task).at \in {"delete maps", "delete set", "replace set"}
           /\ Updated(task).set = task.set /\ Updated(task).key = task.key
           /\ Updated(task).do = task.do /\ Updated(task).then = task.then
           /\ Updated(task).last = LastOf /\ Updated(task).md5s = Deleted(task.set)
           /\ Updated(task).at = IF Deleted(task.set) = {} THEN LastOf ELSE "delete maps"
<1>1. task \in TaskShape /\ task.set \in 1..Len(sets)
  BY DEF TaskSound
<1>2. Deleted(task.set) \in SUBSET Md5s
  BY <1>1, DeletedAreMd5s
<1>3. LastOf \in {"delete set", "replace set"}
  BY DEF LastOf
<1> DEFINE set == task.set
<1> HIDE DEF set
<1>4. Updated(task) = [task EXCEPT !.md5s = Deleted(set), !.last = LastOf,
                                   !.at = IF Deleted(set) = {} THEN LastOf ELSE "delete maps"]
  BY DEF Updated, set
<1>5. Deleted(set) \in SUBSET Md5s
  BY <1>2 DEF set
<1>6. /\ Updated(task) \in TaskShape
      /\ Updated(task).at \in {"delete maps", "delete set", "replace set"}
      /\ Updated(task).set = task.set /\ Updated(task).key = task.key
      /\ Updated(task).do = task.do /\ Updated(task).then = task.then
      /\ Updated(task).last = LastOf /\ Updated(task).md5s = Deleted(set)
      /\ Updated(task).at = IF Deleted(set) = {} THEN LastOf ELSE "delete maps"
  BY <1>1, <1>3, <1>4, <1>5 DEF TaskShape, Saves
<1> QED
  BY <1>6 DEF set

LEMMA UpdateKeeps ==
    ASSUME BeatmapsIInv, NEW t \in Tasks, Update(t)
    PROVE  BeatmapsIInv'
<1> DEFINE task == tasks[t]
<1>1. SetsSound /\ CachesSound /\ TasksSound /\ ForgottenSound /\ TablesShape
  BY ForgottenIsSound DEF BeatmapsIInv
<1>2. UNCHANGED <<external, tables, ruled, control>> /\ Is(t, "update")
  BY UpdateIs
<1>3. TaskSound(task, Len(sets), Len(maps)) /\ task.at = "update" /\ task # Absent
  BY <1>1, <1>2, OpenTask DEF Is
<1>4. task.set \in 1..Len(sets)
  BY <1>3 DEF TaskSound
<1>5. CASE up
  <2>1. Becomes(t, Updated(task)) /\ UNCHANGED <<caches, forgotten>>
    BY <1>5, UpdateIs
  <2>2. SetsSound' /\ Grows /\ Len(sets') = Len(sets)
    <3>1. CASE UNCHANGED objects
      BY <1>1, <3>1, NothingGrows DEF objects
    <3>2. CASE maps' = Parsed(task.set) \o Make(Added(task.set)) /\ Put(sets', sets, task.set, Left(task.set))
      <4> DEFINE set == task.set
      <4>1. /\ set \in 1..Len(sets) /\ maps' = Parsed(set) \o Make(Added(set))
            /\ Put(sets', sets, set, Left(set))
        BY <1>4, <3>2
      <4> HIDE DEF set
      <4> QED
        BY <1>1, <4>1, SetUpdated DEF Left
    <3> QED
      BY <1>5, <3>1, <3>2, UpdateIs
  <2> DEFINE to == Updated(task)
  <2>3. TaskSound(to, Len(sets'), Len(maps'))
    <3>1. /\ to \in TaskShape /\ to.at \in {"delete maps", "delete set", "replace set"}
          /\ to.set = task.set /\ to.key = task.key /\ to.do = task.do /\ to.last = LastOf
      BY <1>1, <1>3, UpdatedTask
    <3> HIDE DEF to, task
    <3> QED
      BY <1>3, <1>4, <2>2, <3>1 DEF TaskSound, LastOf, Saves
  <2> HIDE DEF to
  <2>4. TasksSound'
    BY <1>1, <2>1, <2>2, <2>3, TasksKeep DEF to
  <2> QED
    BY <1>1, <1>2, <2>1, <2>2, <2>4, CachesKept, ObjectsKeep DEF ForgottenSound, forgotten
<1>6. CASE ~up
  <2>1. CASE UNCHANGED objects /\ Finish(t)
    <3>1. CachesSound' /\ TasksSound' /\ ForgottenSound'
      BY <1>1, <1>3, <2>1, FinishKeeps
    <3> QED
      BY <1>2, <2>1, <3>1, LookupKeeps
  <2>2. CASE Raises(t)
    BY <1>1, <1>2, <2>2, RaisesKeeps, ObjectsKeep
  <2> QED
    BY <1>6, <2>1, <2>2, UpdateIs
<1> QED
  BY <1>5, <1>6

-----------------------------------------------------------------------------
(* Steps that write the tables *)

\* A step that leaves the sets, and writes rows of their maps
LEMMA RowsKeep ==
    ASSUME BeatmapsIInv, UNCHANGED <<external, objects, control>>,
           CachesSound', TasksSound', ForgottenSound',
           rows' \in [Bids -> (UNION {MapRow(b) : b \in Bids}) \cup {Absent}],
           \A b \in Bids : rows'[b] # Absent => rows'[b] \in MapRow(b),
           mapset' \in BOOLEAN, scores' \subseteq Md5s,
           ruled' \in [Bids -> Statuses \cup {"none"}]
    PROVE  BeatmapsIInv'
<1>1. SetsSound'
  BY NothingGrows DEF BeatmapsIInv
<1>2. TablesShape'
  BY DEF BeatmapsIInv, TablesShape, external, control, ForgottenSound, ApiMap, MapRow
<1> QED
  BY <1>1, <1>2 DEF BeatmapsIInv

\* Rows that are well formed one by one
LEMMA AllRows ==
    ASSUME NEW r, DOMAIN r = Bids, r = [b \in Bids |-> r[b]],
           \A b \in Bids : r[b] = Absent \/ r[b] \in MapRow(b)
    PROVE  /\ r \in [Bids -> (UNION {MapRow(b) : b \in Bids}) \cup {Absent}]
           /\ \A b \in Bids : r[b] # Absent => r[b] \in MapRow(b)
<1> DEFINE R == (UNION {MapRow(b) : b \in Bids}) \cup {Absent}
<1>1. \A b \in Bids : r[b] \in R
  <2>1. TAKE b \in Bids
  <2>2. CASE r[b] \in MapRow(b)
    BY <2>2
  <2>3. CASE r[b] = Absent
    BY <2>3, Zenon
  <2> QED
    BY <2>2, <2>3
<1> HIDE DEF R
<1>2. r \in [Bids -> R]
  BY <1>1
<1> QED
  BY <1>2 DEF R

LEMMA RowsAre ==
    ASSUME TablesShape
    PROVE  /\ DOMAIN rows = Bids /\ mapset \in BOOLEAN /\ scores \subseteq Md5s
           /\ ruled \in [Bids -> Statuses \cup {"none"}]
           /\ \A b \in Bids : rows[b] = Absent \/ rows[b] \in MapRow(b)
           /\ rows \in [Bids -> (UNION {MapRow(b) : b \in Bids}) \cup {Absent}]
BY DEF TablesShape, MapRow

LEMMA DeleteMapsKeeps ==
    ASSUME BeatmapsIInv, NEW t \in Tasks, DeleteMaps(t)
    PROVE  BeatmapsIInv'
<1> DEFINE gone == {b \in Bids : rows[b] # Absent /\ Md5(rows[b]) \in tasks[t].md5s}
<1>1. SetsSound /\ CachesSound /\ TasksSound /\ ForgottenSound /\ TablesShape
  BY ForgottenIsSound DEF BeatmapsIInv
<1>2. /\ UNCHANGED <<external, objects, caches, control, mapset, scores, forgotten>>
      /\ Is(t, "delete maps")
  BY DEF DeleteMaps, Memory, Rest
<1>3. SetsSound' /\ Grows
  BY <1>1, <1>2, NothingGrows
<1>4. rows' = [b \in Bids |-> IF b \in gone THEN Absent ELSE rows[b]]
  BY DEF DeleteMaps
<1>5. ruled' = [b \in Bids |-> IF b \in gone THEN "none" ELSE ruled[b]]
  BY DEF DeleteMaps
<1> HIDE DEF gone
<1>6. /\ rows' \in [Bids -> (UNION {MapRow(b) : b \in Bids}) \cup {Absent}]
      /\ \A b \in Bids : rows'[b] # Absent => rows'[b] \in MapRow(b)
  <2>1. DOMAIN rows' = Bids /\ rows' = [b \in Bids |-> rows'[b]]
    BY <1>4
  <2>2. \A b \in Bids : rows'[b] = Absent \/ rows'[b] \in MapRow(b)
    BY <1>1, <1>4, RowsAre
  <2> QED
    BY <2>1, <2>2, AllRows
<1>7. ruled' \in [Bids -> Statuses \cup {"none"}]
  BY <1>1, <1>5, RowsAre
<1>8. TasksSound'
  <2> DEFINE from == "delete maps"
             to == "delete scores"
  <2>1. /\ from \notin {"write", "commit"} /\ from \in {"update"} \cup Saves
        /\ to \in Saves /\ to \notin {"frozen", "filename", "save"}
        /\ from \in {"delete maps", "delete scores"}
        /\ Is(t, from) /\ Goes(t, to)
    BY <1>2 DEF Saves, DeleteMaps
  <2> HIDE DEF from, to
  <2> QED
    BY <1>1, <1>3, <2>1, GoesKeeps
<1>9. mapset' \in BOOLEAN /\ scores' \subseteq Md5s
  BY <1>1, <1>2, RowsAre
<1>10. CachesSound' /\ ForgottenSound'
  BY <1>1, <1>2, <1>3, CachesKept DEF ForgottenSound, forgotten
<1> QED
  BY <1>2, <1>6, <1>7, <1>8, <1>9, <1>10, RowsKeep

LEMMA DeleteScoresKeeps ==
    ASSUME BeatmapsIInv, NEW t \in Tasks, DeleteScores(t)
    PROVE  BeatmapsIInv'
<1> DEFINE task == tasks[t]
           to == [task EXCEPT !.at = task.last, !.md5s = {}]
<1>1. SetsSound /\ CachesSound /\ TasksSound /\ ForgottenSound /\ TablesShape
  BY ForgottenIsSound DEF BeatmapsIInv
<1>2. /\ UNCHANGED <<external, objects, caches, control, rows, mapset, forgotten, ruled>>
      /\ Is(t, "delete scores")
  BY DEF DeleteScores, Memory, Rest
<1>3. SetsSound' /\ Grows
  BY <1>1, <1>2, NothingGrows
<1>4. TaskSound(task, Len(sets), Len(maps)) /\ task \in TaskShape /\ task.at = "delete scores"
  BY <1>1, <1>2, OpenTask
<1>5. TaskSound(to, Len(sets'), Len(maps'))
  <2>1. task.last \in {"delete set", "replace set"}
    BY <1>4 DEF TaskSound
  <2> HIDE DEF task
  <2>2. /\ to \in TaskShape /\ to.at = task.last /\ to.set = task.set /\ to.key = task.key
        /\ to.do = task.do
    BY <1>4, <2>1 DEF TaskShape, Saves
  <2> HIDE DEF to
  <2>3. 1..Len(sets) \subseteq 1..Len(sets')
    BY <1>1, <1>3, IndexesStay
  <2> QED
    BY <1>4, <2>1, <2>2, <2>3 DEF TaskSound, Saves
<1>6. Becomes(t, to)
  BY DEF DeleteScores
<1> HIDE DEF to
<1>7. TasksSound'
  BY <1>1, <1>3, <1>5, <1>6, TasksKeep
<1>8. scores' \subseteq Md5s
  BY <1>1, RowsAre DEF DeleteScores
<1>9. CachesSound' /\ ForgottenSound'
  BY <1>1, <1>2, <1>3, CachesKept DEF ForgottenSound, forgotten
<1>10. /\ rows' \in [Bids -> (UNION {MapRow(b) : b \in Bids}) \cup {Absent}]
       /\ \A b \in Bids : rows'[b] # Absent => rows'[b] \in MapRow(b)
       /\ mapset' \in BOOLEAN /\ ruled' \in [Bids -> Statuses \cup {"none"}]
  BY <1>1, <1>2, RowsAre
<1> QED
  BY <1>2, <1>7, <1>8, <1>9, <1>10, RowsKeep

LEMMA DeleteSetKeeps ==
    ASSUME BeatmapsIInv, NEW t \in Tasks, DeleteSet(t)
    PROVE  BeatmapsIInv'
<1>1. SetsSound /\ CachesSound /\ TasksSound /\ ForgottenSound /\ TablesShape
  BY ForgottenIsSound DEF BeatmapsIInv
<1>2. /\ UNCHANGED <<external, objects, control, rows, scores, ruled>> /\ mapset' = FALSE
      /\ Is(t, "delete set") /\ Finish(t)
  BY DEF DeleteSet, Rest
<1>3. tasks[t] # Absent /\ tasks[t].at \in {"update"} \cup Saves
  BY <1>2 DEF Is, Saves
<1>4. CachesSound' /\ TasksSound' /\ ForgottenSound'
  BY <1>1, <1>2, <1>3, FinishKeeps
<1>5. /\ rows' \in [Bids -> (UNION {MapRow(b) : b \in Bids}) \cup {Absent}]
      /\ \A b \in Bids : rows'[b] # Absent => rows'[b] \in MapRow(b)
      /\ mapset' \in BOOLEAN /\ ruled' \in [Bids -> Statuses \cup {"none"}] /\ scores' \subseteq Md5s
  BY <1>1, <1>2, RowsAre
<1> QED
  BY <1>2, <1>4, <1>5, RowsKeep

\* What is going to be written for the maps of a set
SavesOf(set) ==
    [b \in {maps[i].id : i \in sets[set]} |->
       Row(maps[CHOOSE i \in sets[set] : maps[i].id = b])]

\* A row is that of a member of the set.
LEMMA SavesAre ==
    ASSUME SetsSound, NEW set \in 1..Len(sets)
    PROVE  /\ DOMAIN SavesOf(set) = {maps[i].id : i \in sets[set]}
           /\ DOMAIN SavesOf(set) \subseteq Bids /\ SavesOf(set) \in Writes
           /\ \A b \in DOMAIN SavesOf(set) :
                /\ SavesOf(set)[b] \in MapRow(b)
                /\ \E i \in sets[set] : maps[i].id = b /\ SavesOf(set)[b] = Row(maps[i])
<1> DEFINE ids == {maps[i].id : i \in sets[set]}
           s == SavesOf(set)
<1>1. \A i \in sets[set] : maps[i] \in MapObject(Len(sets))
  BY DEF SetsSound
<1>2. ids \subseteq Bids
  BY <1>1 DEF MapObject
<1>3. DOMAIN s = ids /\ s = [b \in ids |-> s[b]]
  BY DEF SavesOf
<1>4. ASSUME NEW b \in ids
      PROVE  s[b] \in MapRow(b) /\ \E i \in sets[set] : maps[i].id = b /\ s[b] = Row(maps[i])
  <2> DEFINE i == CHOOSE i \in sets[set] : maps[i].id = b
  <2>1. i \in sets[set] /\ maps[i].id = b
    BY <1>4
  <2>2. s[b] = Row(maps[i])
    BY <1>4 DEF SavesOf
  <2> HIDE DEF i, s
  <2>3. Row(maps[i]) \in MapRow(b)
    BY <1>1, <2>1, RowOf
  <2> QED
    BY <2>1, <2>2, <2>3
<1> HIDE DEF s
<1>5. s \in Writes
  <2>1. \A b \in ids : s[b] \in UNION {MapRow(c) : c \in Bids}
    BY <1>2, <1>4
  <2>2. s \in [ids -> UNION {MapRow(c) : c \in Bids}] /\ ids \in SUBSET Bids
    BY <1>2, <1>3, <2>1
  <2> HIDE DEF ids
  <2> QED
    BY <2>2 DEF Writes
<1> QED
  BY <1>2, <1>3, <1>4, <1>5 DEF s

LEMMA ReplaceSetIs ==
    ASSUME NEW t \in Tasks, ReplaceSet(t)
    PROVE  /\ Is(t, "replace set") /\ mapset' = TRUE
           /\ Becomes(t, [tasks[t] EXCEPT !.at = "save", !.saves = SavesOf(tasks[t].set)])
           /\ UNCHANGED <<external, objects, caches, control, rows, scores, ruled, forgotten, missed>>
BY DEF ReplaceSet, SavesOf, Rest, Memory

LEMMA SavingTask ==
    ASSUME NEW task \in TaskShape, NEW saves \in Writes
    PROVE  LET to == [task EXCEPT !.at = "save", !.saves = saves] IN
           /\ to \in TaskShape /\ to.at = "save" /\ to.saves = saves /\ to.set = task.set
           /\ to.key = task.key /\ to.do = task.do /\ to.then = task.then /\ to.last = task.last
BY DEF TaskShape, Saves

LEMMA ReplaceSetKeeps ==
    ASSUME BeatmapsIInv, NEW t \in Tasks, ReplaceSet(t)
    PROVE  BeatmapsIInv'
<1> DEFINE task == tasks[t]
           set == task.set
           to == [task EXCEPT !.at = "save", !.saves = SavesOf(set)]
<1>1. SetsSound /\ CachesSound /\ TasksSound /\ ForgottenSound /\ TablesShape
  BY ForgottenIsSound DEF BeatmapsIInv
<1>2. /\ UNCHANGED <<external, objects, caches, control, rows, scores, ruled, forgotten>>
      /\ mapset' = TRUE
      /\ Is(t, "replace set") /\ Becomes(t, to)
  BY ReplaceSetIs
<1>3. SetsSound' /\ Grows
  BY <1>1, <1>2, NothingGrows
<1>4. TaskSound(task, Len(sets), Len(maps)) /\ task \in TaskShape /\ task.at = "replace set"
  BY <1>1, <1>2, OpenTask
<1>5. TaskSound(to, Len(sets'), Len(maps'))
  <2>1. set \in 1..Len(sets)
    BY <1>4 DEF TaskSound, Saves
  <2>2. /\ SavesOf(set) \in Writes /\ DOMAIN SavesOf(set) \subseteq Bids
        /\ \A b \in DOMAIN SavesOf(set) : SavesOf(set)[b] \in MapRow(b)
    BY <1>1, <2>1, SavesAre
  <2>3. /\ to \in TaskShape /\ to.at = "save" /\ to.saves = SavesOf(set) /\ to.set = set
        /\ to.key = task.key /\ to.do = task.do
    BY <1>4, <2>2, SavingTask
  <2>4. sets' = sets
    BY <1>2 DEF objects
  <2> HIDE DEF to, task, set
  <2> QED
    BY <1>4, <2>1, <2>2, <2>3, <2>4 DEF TaskSound, set
<1> HIDE DEF to
<1>6. TasksSound'
  BY <1>1, <1>2, <1>3, <1>5, TasksKeep
<1>7. /\ rows' \in [Bids -> (UNION {MapRow(b) : b \in Bids}) \cup {Absent}]
      /\ \A b \in Bids : rows'[b] # Absent => rows'[b] \in MapRow(b)
      /\ mapset' \in BOOLEAN /\ ruled' \in [Bids -> Statuses \cup {"none"}] /\ scores' \subseteq Md5s
  BY <1>1, <1>2, RowsAre
<1>8. CachesSound' /\ ForgottenSound'
  BY <1>1, <1>2, <1>3, CachesKept DEF ForgottenSound, forgotten
<1> QED
  BY <1>2, <1>6, <1>7, <1>8, RowsKeep

\* What is left to write
Unsaved(saves, b) == [c \in DOMAIN saves \ {b} |-> saves[c]]

LEMMA SaveMapIs ==
    ASSUME NEW t \in Tasks, NEW b \in Bids, SaveMap(t, b)
    PROVE  /\ Is(t, "save") /\ b \in DOMAIN tasks[t].saves
           /\ rows' = [rows EXCEPT ![b] = tasks[t].saves[b]]
           /\ Becomes(t, [tasks[t] EXCEPT !.saves = Unsaved(tasks[t].saves, b)])
           /\ UNCHANGED <<external, objects, caches, control, mapset, scores, ruled, forgotten, missed>>
BY DEF SaveMap, Unsaved, Rest, Memory

LEMMA UnsavedIs ==
    ASSUME NEW saves, NEW b, DOMAIN saves \subseteq Bids,
           \A c \in DOMAIN saves : saves[c] \in MapRow(c)
    PROVE  /\ Unsaved(saves, b) \in Writes /\ DOMAIN Unsaved(saves, b) = DOMAIN saves \ {b}
           /\ \A c \in DOMAIN saves \ {b} : Unsaved(saves, b)[c] = saves[c]
<1> DEFINE left == Unsaved(saves, b)
           ids == DOMAIN saves \ {b}
<1>1. DOMAIN left = ids /\ left = [c \in ids |-> left[c]] /\ \A c \in ids : left[c] = saves[c]
  BY DEF Unsaved
<1> HIDE DEF left
<1>2. \A c \in ids : left[c] \in UNION {MapRow(d) : d \in Bids}
  BY <1>1
<1>3. left \in [ids -> UNION {MapRow(d) : d \in Bids}] /\ ids \in SUBSET Bids
  BY <1>1, <1>2
<1> HIDE DEF ids
<1>4. left \in Writes
  BY <1>3 DEF Writes
<1> QED
  BY <1>1, <1>4 DEF left, ids

LEMMA UnsavedTask ==
    ASSUME NEW task \in TaskShape, NEW saves \in Writes
    PROVE  LET to == [task EXCEPT !.saves = saves] IN
           /\ to \in TaskShape /\ to.at = task.at /\ to.saves = saves /\ to.set = task.set
           /\ to.key = task.key /\ to.do = task.do /\ to.then = task.then /\ to.last = task.last
BY DEF TaskShape

LEMMA SaveMapKeeps ==
    ASSUME BeatmapsIInv, NEW t \in Tasks, NEW b \in Bids, SaveMap(t, b)
    PROVE  BeatmapsIInv'
<1> DEFINE task == tasks[t]
           left == Unsaved(task.saves, b)
           to == [task EXCEPT !.saves = left]
<1>1. SetsSound /\ CachesSound /\ TasksSound /\ ForgottenSound /\ TablesShape
  BY ForgottenIsSound DEF BeatmapsIInv
<1>2. /\ UNCHANGED <<external, objects, caches, control, mapset, scores, ruled, forgotten>>
      /\ Is(t, "save") /\ b \in DOMAIN task.saves /\ Becomes(t, to)
      /\ rows' = [rows EXCEPT ![b] = task.saves[b]]
  BY SaveMapIs
<1>3. SetsSound' /\ Grows
  BY <1>1, <1>2, NothingGrows
<1>4. TaskSound(task, Len(sets), Len(maps)) /\ task \in TaskShape /\ task.at = "save"
  BY <1>1, <1>2, OpenTask
<1>5. DOMAIN task.saves \subseteq Bids /\ \A c \in DOMAIN task.saves : task.saves[c] \in MapRow(c)
  BY <1>4 DEF TaskSound
<1>6. TaskSound(to, Len(sets'), Len(maps'))
  <2>1. /\ left \in Writes /\ DOMAIN left = DOMAIN task.saves \ {b}
        /\ \A c \in DOMAIN left : left[c] = task.saves[c]
    BY <1>5, UnsavedIs
  <2> HIDE DEF left, task
  <2>2. /\ to \in TaskShape /\ to.at = "save" /\ to.saves = left /\ to.set = task.set
        /\ to.key = task.key /\ to.do = task.do
    BY <1>4, <2>1, UnsavedTask
  <2>3. sets' = sets
    BY <1>2 DEF objects
  <2> HIDE DEF to
  <2> QED
    BY <1>4, <1>5, <2>1, <2>2, <2>3 DEF TaskSound
<1> HIDE DEF to
<1>7. TasksSound'
  BY <1>1, <1>2, <1>3, <1>6, TasksKeep
<1>8. /\ rows' \in [Bids -> (UNION {MapRow(c) : c \in Bids}) \cup {Absent}]
      /\ \A c \in Bids : rows'[c] # Absent => rows'[c] \in MapRow(c)
  <2>1. DOMAIN rows = Bids /\ \A c \in Bids : rows[c] = Absent \/ rows[c] \in MapRow(c)
    BY <1>1, RowsAre
  <2>2. DOMAIN rows' = Bids /\ rows' = [c \in Bids |-> rows'[c]]
    BY <1>2, <2>1
  <2>3. \A c \in Bids : rows'[c] = Absent \/ rows'[c] \in MapRow(c)
    BY <1>2, <1>5, <2>1
  <2> QED
    BY <2>2, <2>3, AllRows
<1>9. mapset' \in BOOLEAN /\ ruled' \in [Bids -> Statuses \cup {"none"}] /\ scores' \subseteq Md5s
  BY <1>1, <1>2, RowsAre
<1>10. CachesSound' /\ ForgottenSound'
  BY <1>1, <1>2, <1>3, CachesKept DEF ForgottenSound, forgotten
<1> QED
  BY <1>2, <1>7, <1>8, <1>9, <1>10, RowsKeep

LEMMA SavedKeeps ==
    ASSUME BeatmapsIInv, NEW t \in Tasks, Saved(t)
    PROVE  BeatmapsIInv'
<1>1. SetsSound /\ CachesSound /\ TasksSound /\ ForgottenSound
  BY ForgottenIsSound DEF BeatmapsIInv
<1>2. UNCHANGED <<external, objects, control, tables, ruled>> /\ Is(t, "save") /\ Finish(t)
  BY DEF Saved, Tables, Rest
<1>3. tasks[t] # Absent /\ tasks[t].at \in {"update"} \cup Saves
  BY <1>2 DEF Is, Saves
<1>4. CachesSound' /\ TasksSound' /\ ForgottenSound'
  BY <1>1, <1>2, <1>3, FinishKeeps
<1> QED
  BY <1>2, <1>4, LookupKeeps

-----------------------------------------------------------------------------
(* !map *)

Touched(task) ==
    IF task.do = "map" THEN {beatmap[Md5(maps[task.np])]} ELSE sets[beatmapset]
Chosen(task) ==
    IF task.do = "map" THEN {maps[task.np].id} ELSE {m.id : m \in MapsOf(maps[task.np].set)}
Ruled(m, ruling) == [m EXCEPT !.status = ruling, !.frozen = TRUE]

LEMMA WriteIs ==
    ASSUME NEW t \in Tasks, WriteStatus(t)
    PROVE  /\ Is(t, "write")
           /\ maps' = [i \in DOMAIN maps |-> IF i \in Touched(tasks[t])
                                             THEN Ruled(maps[i], tasks[t].status) ELSE maps[i]]
           /\ Becomes(t, [tasks[t] EXCEPT !.at = "commit", !.ids = Chosen(tasks[t])])
           /\ missed' = missed \cup
                (Chosen(tasks[t]) \ {maps[i].id : i \in Touched(tasks[t]) \cap sets[beatmapset]})
           /\ UNCHANGED <<external, tables, control, sets, caches, forgotten, ruled>>
BY DEF WriteStatus, Touched, Chosen, Ruled, Tables

LEMMA RuledIsRow ==
    ASSUME NEW b, NEW m \in MapRow(b), NEW ruling \in Statuses
    PROVE  RuledRow(m, ruling) \in MapRow(b) /\ RuledRow(m, ruling) # Absent
           /\ RuledRow(m, ruling).frozen = TRUE /\ RuledRow(m, ruling).status = ruling
           /\ RuledRow(m, ruling).version = m.version /\ RuledRow(m, ruling).id = b
BY BeatmapsAssumption DEF MapRow, RuledRow, Absent

IsRow(row, b, version, ruling, frozen) ==
    row \in MapRow(b) /\ row.version = version /\ row.status = ruling /\ row.frozen = frozen

LEMMA SameRows ==
    ASSUME NEW b, NEW v, NEW s, NEW f, NEW x, NEW y, IsRow(x, b, v, s, f), IsRow(y, b, v, s, f)
    PROVE  x = y
BY DEF MapRow, IsRow

IsRuling(row, ruling) == row # Absent /\ row.frozen /\ row.status = ruling

LEMMA RulingIs ==
    ASSUME NEW b, NEW m \in MapRow(b), NEW ruling \in Statuses
    PROVE  IsRuling(RuledRow(m, ruling), ruling)
BY BeatmapsAssumption DEF MapRow, RuledRow, Absent, IsRuling

LEMMA RuledVersion ==
    ASSUME NEW b, NEW v, NEW m \in MapRow(b), m.version = v, NEW ruling \in Statuses
    PROVE  IsRow(RuledRow(m, ruling), b, v, ruling, TRUE)
BY DEF RuledRow, MapRow, IsRow

LEMMA RuledMap ==
    ASSUME NEW n, NEW m \in MapObject(n), NEW ruling \in Statuses
    PROVE  /\ Ruled(m, ruling) \in MapObject(n) /\ Ruled(m, ruling).id = m.id
           /\ Row(Ruled(m, ruling)) = RuledRow(Row(m), ruling)
           /\ Ruled(m, ruling).frozen /\ Ruled(m, ruling).status = ruling
<1>1. /\ Ruled(m, ruling) \in MapObject(n) /\ Ruled(m, ruling).id = m.id
      /\ Ruled(m, ruling).frozen = TRUE /\ Ruled(m, ruling).status = ruling
      /\ Ruled(m, ruling).version = m.version
  BY DEF Ruled, MapObject
<1>2. IsRow(Row(Ruled(m, ruling)), m.id, m.version, ruling, TRUE)
  BY <1>1 DEF Row, MapRow, MapObject, IsRow
<1>3. Row(m) \in MapRow(m.id) /\ Row(m).version = m.version
  BY DEF Row, MapRow, MapObject
<1>4. IsRow(RuledRow(Row(m), ruling), m.id, m.version, ruling, TRUE)
  BY <1>3, RuledVersion, Zenon
<1>5. Row(Ruled(m, ruling)) = RuledRow(Row(m), ruling)
  BY <1>2, <1>4, SameRows
<1> QED
  BY <1>1, <1>5

LEMMA MapsOfSound ==
    ASSUME SetsSound, NEW k \in 1..Len(sets)
    PROVE  \A m \in MapsOf(k) : m.id \in Bids
<1>1. \A i \in sets[k] : maps[i] \in MapObject(Len(sets))
  BY DEF SetsSound
<1> QED
  BY <1>1 DEF MapsOf, MapObject

LEMMA ChosenAreMaps ==
    ASSUME SetsSound, NEW task, TaskSound(task, Len(sets), Len(maps)), task.at = "write"
    PROVE  Chosen(task) \subseteq Bids
<1>1. task.np \in 1..Len(maps)
  BY DEF TaskSound
<1>2. maps[task.np] \in MapObject(Len(sets))
  BY <1>1 DEF SetsSound
<1>3. maps[task.np].id \in Bids /\ maps[task.np].set \in 1..Len(sets)
  BY <1>2 DEF MapObject
<1> QED
  BY <1>3, MapsOfSound DEF Chosen

LEMMA WriteStatusKeeps ==
    ASSUME BeatmapsIInv, NEW t \in Tasks, WriteStatus(t)
    PROVE  BeatmapsIInv'
<1> DEFINE task == tasks[t]
           n == Len(sets)
           to == [task EXCEPT !.at = "commit", !.ids = Chosen(task)]
<1>1. SetsSound /\ CachesSound /\ TasksSound /\ ForgottenSound /\ TablesShape
  BY ForgottenIsSound DEF BeatmapsIInv
<1>2. /\ UNCHANGED <<external, tables, control, sets, caches, forgotten, ruled>> /\ Is(t, "write")
      /\ Becomes(t, to)
      /\ maps' = [i \in DOMAIN maps |-> IF i \in Touched(task) THEN Ruled(maps[i], task.status) ELSE maps[i]]
  BY WriteIs
<1>3. TaskSound(task, n, Len(maps)) /\ task \in TaskShape /\ task.at = "write"
  BY <1>1, <1>2, OpenTask
<1>4. /\ maps' \in Seq(MapObject(n)) /\ Len(maps') = Len(maps)
      /\ \A i \in 1..Len(maps) : maps'[i].id = maps[i].id
  <2>1. task.status \in Statuses
    BY <1>3 DEF TaskSound
  <2>2. maps \in [1..Len(maps) -> MapObject(n)] /\ Len(maps) \in Nat /\ DOMAIN maps = 1..Len(maps)
    BY <1>1 DEF SetsSound
  <2>3. \A i \in 1..Len(maps) : maps[i] \in MapObject(n)
    BY <2>2
  <2>4. \A i \in 1..Len(maps) : maps'[i] \in MapObject(n) /\ maps'[i].id = maps[i].id
    <3> HIDE DEF n, task
    <3> QED
      BY <1>2, <2>1, <2>2, <2>3, RuledMap
  <2>5. maps' = [i \in 1..Len(maps) |-> maps'[i]]
    BY <1>2, <2>2
  <2> HIDE DEF n
  <2>6. maps' \in [1..Len(maps) -> MapObject(n)]
    BY <2>4, <2>5
  <2> QED
    BY <2>2, <2>4, <2>6
<1>5. SetsSound' /\ Grows
  <2>1. sets' = sets /\ n \in Nat /\ Len(maps) \in Nat
    BY <1>1, <1>2, Lengths
  <2>2. /\ sets \in Seq(SUBSET (1..Len(maps))) /\ \A k \in 1..Len(sets) : sets[k] \subseteq 1..Len(maps)
        /\ \A k \in 1..Len(sets) : \A i, j \in sets[k] : maps[i].id = maps[j].id => i = j
    BY <1>1 DEF SetsSound
  <2>3. \A k \in 1..Len(sets) : \A i, j \in sets[k] : maps'[i].id = maps'[j].id => i = j
    BY <1>4, <2>2
  <2> QED
    BY <1>4, <2>1, <2>2, <2>3 DEF SetsSound, Grows
<1>6. TaskSound(to, Len(sets'), Len(maps'))
  <2> DEFINE ids == Chosen(task)
  <2>1. ids \in SUBSET Bids
    BY <1>1, <1>3, ChosenAreMaps
  <2> HIDE DEF ids, task, n
  <2>2. /\ to \in TaskShape /\ to.at = "commit" /\ to.key = task.key /\ to.do = task.do
        /\ to.np = task.np /\ to.status = task.status
    BY <1>3, <2>1 DEF TaskShape, ids
  <2> HIDE DEF to
  <2> QED
    BY <1>3, <1>4, <2>2 DEF TaskSound, Saves
<1> HIDE DEF to
<1>7. TasksSound'
  BY <1>1, <1>2, <1>5, <1>6, TasksKeep
<1>8. CachesSound' /\ ForgottenSound'
  BY <1>1, <1>2, <1>5, CachesKept DEF ForgottenSound, forgotten
<1> QED
  BY <1>2, <1>5, <1>7, <1>8, ObjectsKeep

LEMMA CommitStatusKeeps ==
    ASSUME BeatmapsIInv, NEW t \in Tasks, CommitStatus(t)
    PROVE  BeatmapsIInv'
<1> DEFINE task == tasks[t]
           hit == {b \in task.ids : rows[b] # Absent}
<1>1. SetsSound /\ CachesSound /\ TasksSound /\ ForgottenSound /\ TablesShape
  BY ForgottenIsSound DEF BeatmapsIInv
<1>2. /\ UNCHANGED <<external, objects, control, caches, mapset, scores, forgotten>> /\ Is(t, "commit")
      /\ Becomes(t, Absent)
  BY DEF CommitStatus, Memory, Rest
<1>3. rows' = [b \in Bids |-> IF b \in hit THEN RuledRow(rows[b], task.status) ELSE rows[b]]
  BY DEF CommitStatus, RuledRow
<1>4. ruled' = [b \in Bids |-> IF b \in hit THEN task.status ELSE ruled[b]]
  BY DEF CommitStatus
<1>5. task.status \in Statuses
  BY <1>1, <1>2, OpenTask DEF TaskSound
<1>6. \A b \in hit : rows[b] # Absent
  OBVIOUS
<1> HIDE DEF hit, task
<1>7. /\ rows' \in [Bids -> (UNION {MapRow(b) : b \in Bids}) \cup {Absent}]
      /\ \A b \in Bids : rows'[b] # Absent => rows'[b] \in MapRow(b)
  <2>1. DOMAIN rows' = Bids /\ rows' = [b \in Bids |-> rows'[b]]
    BY <1>3
  <2>2. \A b \in Bids : rows'[b] = Absent \/ rows'[b] \in MapRow(b)
    BY <1>1, <1>3, <1>5, <1>6, RowsAre, RuledIsRow
  <2> QED
    BY <2>1, <2>2, AllRows
<1>8. ruled' \in [Bids -> Statuses \cup {"none"}]
  BY <1>1, <1>4, <1>5, RowsAre
<1>9. SetsSound' /\ Grows
  BY <1>1, <1>2, NothingGrows
<1>10. TasksSound'
  BY <1>1, <1>2, <1>9, TasksKeep
<1>11. CachesSound' /\ ForgottenSound' /\ mapset' \in BOOLEAN /\ scores' \subseteq Md5s
  BY <1>1, <1>2, <1>9, CachesKept, RowsAre DEF ForgottenSound, forgotten
<1> QED
  BY <1>2, <1>7, <1>8, <1>10, <1>11, RowsKeep

LEMMA DatabaseFailsKeeps ==
    ASSUME BeatmapsIInv, NEW t \in Tasks, DatabaseFails(t)
    PROVE  BeatmapsIInv'
<1>1. SetsSound /\ CachesSound /\ TasksSound /\ ForgottenSound
  BY ForgottenIsSound DEF BeatmapsIInv
<1>2. UNCHANGED <<api, up, control, tables, ruled>> /\ Raises(t)
  BY DEF DatabaseFails, Tables
<1>3. SetsSound' /\ CachesSound' /\ TasksSound' /\ ForgottenSound'
  BY <1>1, <1>2, RaisesKeeps
<1>4. TablesShape'
  BY <1>2, <1>3 DEF BeatmapsIInv, TablesShape, tables, control, ForgottenSound, ApiMap, MapRow
<1> QED
  BY <1>3, <1>4 DEF BeatmapsIInv

-----------------------------------------------------------------------------
(* The outside, and all steps *)

LEMMA OutsideKeeps ==
    ASSUME BeatmapsIInv, (\E b \in Bids : ApiChanges(b)) \/ ApiUpDown
    PROVE  BeatmapsIInv'
<1>1. SetsSound /\ CachesSound /\ TasksSound /\ TablesShape
  BY DEF BeatmapsIInv
<1>2. UNCHANGED <<tables, objects, caches, forgotten, tasks, ruled, control>>
  BY DEF ApiChanges, ApiUpDown, Outside
<1>3. SetsSound' /\ Grows
  BY <1>1, <1>2, NothingGrows
<1>4. CachesSound' /\ TasksSound'
  BY <1>1, <1>2, <1>3, CachesKept, TasksStay
<1>5. /\ api' \in [Bids -> (UNION {ApiMap(c) : c \in Bids}) \cup {Absent}]
      /\ \A c \in Bids : api'[c] # Absent => api'[c] \in ApiMap(c)
      /\ up' \in BOOLEAN
  <2>0. /\ api \in [Bids -> (UNION {ApiMap(c) : c \in Bids}) \cup {Absent}]
        /\ \A c \in Bids : api[c] # Absent => api[c] \in ApiMap(c)
        /\ up \in BOOLEAN
    BY <1>1 DEF TablesShape
  <2>1. CASE ApiUpDown
    BY <2>0, <2>1 DEF ApiUpDown
  <2>2. CASE \E b \in Bids : ApiChanges(b)
    <3>0. PICK b \in Bids : ApiChanges(b)
      BY <2>2
    <3>1. PICK m \in ApiMap(b) \cup {Absent} : api' = [api EXCEPT ![b] = m]
      <4>1. ASSUME NEW v \in 1..MaxVersion, NEW s \in Statuses
            PROVE  [id |-> b, version |-> v, status |-> s] \in ApiMap(b)
        BY DEF ApiMap
      <4> QED
        BY <3>0, <4>1 DEF ApiChanges
    <3> DEFINE R == (UNION {ApiMap(c) : c \in Bids}) \cup {Absent}
    <3>2. m \in R
      OBVIOUS
    <3> HIDE DEF R
    <3>3. api' \in [Bids -> R] /\ \A c \in Bids : api'[c] = IF c = b THEN m ELSE api[c]
      BY <2>0, <3>1, <3>2 DEF R
    <3>4. up' = up
      BY <3>0 DEF ApiChanges
    <3> QED
      BY <2>0, <3>3, <3>4 DEF R
  <2> QED
    BY <2>1, <2>2
<1>6. TablesShape'
  <2>1. /\ rows' = rows /\ mapset' = mapset /\ overlap' = overlap /\ begun' = begun /\ scores' = scores
        /\ unsubmitted' = unsubmitted /\ needsUpdate' = needsUpdate /\ ruled' = ruled
    BY <1>2 DEF tables, control, forgotten
  <2> QED
    BY <1>1, <1>5, <2>1 DEF TablesShape, ApiMap, MapRow
<1> QED
  BY <1>3, <1>4, <1>6 DEF BeatmapsIInv

LEMMA ScoreStoredKeeps ==
    ASSUME BeatmapsIInv, NEW b \in Bids, ScoreStored(b)
    PROVE  BeatmapsIInv'
<1>1. SetsSound /\ CachesSound /\ TasksSound /\ TablesShape /\ ForgottenSound
  BY ForgottenIsSound DEF BeatmapsIInv
<1>2. /\ UNCHANGED <<external, rows, mapset, objects, caches, forgotten, tasks, ruled, control>>
  BY DEF ScoreStored
<1>3. SetsSound' /\ Grows
  BY <1>1, <1>2, NothingGrows
<1>4. CachesSound' /\ TasksSound' /\ ForgottenSound'
  BY <1>1, <1>2, <1>3, CachesKept, TasksStay DEF ForgottenSound, forgotten
<1>5. rows[b] \in MapRow(b) /\ scores' = scores \cup {Md5(rows[b])} /\ scores \subseteq Md5s
  BY <1>1 DEF ScoreStored, TablesShape
<1>6. Md5(rows[b]) \in Md5s
  BY <1>5 DEF MapRow, Md5, Md5s
<1>7. /\ rows' \in [Bids -> (UNION {MapRow(c) : c \in Bids}) \cup {Absent}]
      /\ \A c \in Bids : rows'[c] # Absent => rows'[c] \in MapRow(c)
      /\ mapset' \in BOOLEAN /\ ruled' \in [Bids -> Statuses \cup {"none"}] /\ scores' \subseteq Md5s
  BY <1>1, <1>2, <1>5, <1>6, RowsAre
<1> QED
  BY <1>2, <1>4, <1>7, RowsKeep

\* Nothing is in memory.
LEMMA Forgotten ==
    ASSUME NEW objs, NEW sts, NEW cache, NEW work,
           objs = <<>>, sts = <<>>, cache = [key \in Keys |-> 0], work = [t \in Tasks |-> Absent]
    PROVE  /\ objs \in Seq(MapObject(Len(sts))) /\ sts \in Seq(SUBSET (1..Len(objs)))
           /\ Len(sts) = 0 /\ Len(objs) = 0
           /\ cache \in [Keys -> 0..Len(objs)] /\ \A key \in Keys : cache[key] = 0
           /\ work \in [Tasks -> TaskShape \cup {Absent}]
           /\ {t \in Tasks : work[t] # Absent} = {}
<1>1. work \in [Tasks -> TaskShape \cup {Absent}] /\ {t \in Tasks : work[t] # Absent} = {}
  OBVIOUS
<1>2. Len(sts) = 0 /\ Len(objs) = 0 /\ objs \in Seq(MapObject(0)) /\ sts \in Seq(SUBSET (1..0))
  OBVIOUS
<1> QED
  BY <1>1, <1>2

LEMMA RestartKeeps ==
    ASSUME BeatmapsIInv, Restart
    PROVE  BeatmapsIInv' /\ Open' = {} /\ Len(sets)' = 0 /\ Len(maps)' = 0
<1>1. /\ maps' = <<>> /\ sets' = <<>> /\ beatmap' = [key \in Keys |-> 0] /\ beatmapset' = 0
      /\ unsubmitted' = {} /\ needsUpdate' = {} /\ tasks' = [t \in Tasks |-> Absent]
      /\ UNCHANGED <<api, up, tables, ruled, control>>
  BY DEF Restart
<1>2. /\ maps' \in Seq(MapObject(Len(sets'))) /\ sets' \in Seq(SUBSET (1..Len(maps')))
      /\ Len(sets') = 0 /\ Len(maps') = 0
      /\ beatmap' \in [Keys -> 0..Len(maps')] /\ \A key \in Keys : beatmap'[key] = 0
      /\ tasks' \in [Tasks -> TaskShape \cup {Absent}]
      /\ {t \in Tasks : tasks'[t] # Absent} = {}
  BY <1>1, Forgotten
<1>3. SetsSound'
  BY <1>2 DEF SetsSound
<1>4. CachesSound'
  BY <1>1, <1>2 DEF CachesSound
<1>5. TasksSound' /\ Open' = {}
  BY <1>2 DEF TasksSound, Open
<1>6. TablesShape'
  BY <1>1 DEF BeatmapsIInv, TablesShape, tables, control, ApiMap, MapRow
<1> QED
  BY <1>2, <1>3, <1>4, <1>5, <1>6 DEF BeatmapsIInv

LEMMA BeatmapsIInvInit == BeatmapsInit => BeatmapsIInv /\ Open = {} /\ Len(sets) = 0
<1> SUFFICES ASSUME BeatmapsInit PROVE BeatmapsIInv /\ Open = {} /\ Len(sets) = 0
  OBVIOUS
<1>1. /\ maps = <<>> /\ sets = <<>> /\ beatmap = [key \in Keys |-> 0] /\ beatmapset = 0
      /\ unsubmitted = {} /\ needsUpdate = {} /\ tasks = [t \in Tasks |-> Absent]
      /\ rows = [b \in Bids |-> Absent] /\ ruled = [b \in Bids |-> "none"]
      /\ mapset = FALSE /\ scores = {} /\ up = TRUE /\ overlap = FALSE /\ begun = 0
  BY DEF BeatmapsInit
<1>2. /\ maps \in Seq(MapObject(Len(sets))) /\ sets \in Seq(SUBSET (1..Len(maps)))
      /\ Len(sets) = 0 /\ Len(maps) = 0
      /\ beatmap \in [Keys -> 0..Len(maps)] /\ \A key \in Keys : beatmap[key] = 0
      /\ tasks \in [Tasks -> TaskShape \cup {Absent}]
      /\ {t \in Tasks : tasks[t] # Absent} = {}
  BY <1>1, Forgotten
<1>3. /\ api \in [Bids -> (UNION {ApiMap(b) : b \in Bids}) \cup {Absent}]
      /\ \A b \in Bids : api[b] # Absent => api[b] \in ApiMap(b)
  <2>1. PICK there \in SUBSET Bids :
          api = [b \in Bids |-> IF b \in there THEN [id |-> b, version |-> 1, status |-> "pending"]
                                ELSE Absent]
    BY DEF BeatmapsInit
  <2>2. \A b \in Bids : [id |-> b, version |-> 1, status |-> "pending"] \in ApiMap(b)
    BY BeatmapsAssumption DEF ApiMap, Statuses
  <2> DEFINE R == (UNION {ApiMap(b) : b \in Bids}) \cup {Absent}
  <2>3. \A b \in Bids : [id |-> b, version |-> 1, status |-> "pending"] \in R /\ Absent \in R
    BY <2>2
  <2> HIDE DEF R
  <2>4. api \in [Bids -> R]
    BY <2>1, <2>3
  <2>5. \A b \in Bids : api[b] # Absent => api[b] \in ApiMap(b)
    BY <2>1, <2>2
  <2> QED
    BY <2>4, <2>5 DEF R
<1>4. TablesShape
  BY <1>1, <1>3 DEF TablesShape
<1>5. SetsSound /\ CachesSound /\ TasksSound /\ Open = {}
  BY <1>1, <1>2 DEF SetsSound, CachesSound, TasksSound, Open
<1> QED
  BY <1>2, <1>4, <1>5 DEF BeatmapsIInv

LEMMA HandleKeeps ==
    ASSUME BeatmapsIInv, NEW t \in Tasks, Handle(t)
    PROVE  BeatmapsIInv'
<1>1. CASE \E md5 \in Md5s, claim \in BOOLEAN :
             FromMd5(t, md5, claim) \/ FetchLeaderboard(t, md5, claim)
  <2>1. PICK md5 \in Md5s, claim \in BOOLEAN :
             FromMd5(t, md5, claim) \/ FetchLeaderboard(t, md5, claim)
    BY <1>1
  <2>2. md5[1] \in Bids
    BY KeyOfMd5
  <2> QED
    BY <2>1, <2>2, RequestsKeep
<1>2. CASE \E bid \in Bids : FromBid(t, bid)
  <2>1. PICK bid \in Bids : FromBid(t, bid)
    BY <1>2
  <2>2. <<bid, 1>> \in Md5s
    BY BeatmapsAssumption DEF Md5s
  <2>3. TRUE \in BOOLEAN
    OBVIOUS
  <2> QED
    BY <2>1, <2>2, <2>3, RequestsKeep, Zenon
<1>3. CASE \E np \in ShownMaps, scope \in {"map", "set"}, s \in Statuses : MapCommand(t, np, scope, s)
  BY <1>3, MapCommandKeeps
<1>4. CASE LookInCache(t) \/ LookInTable(t) \/ AskForMap(t) \/ LookForFilename(t) \/ TakeSet(t)
  BY <1>4, LookInCacheKeeps, LookInTableKeeps, AskForMapKeeps, LookForFilenameKeeps, TakeSetKeeps
<1>5. CASE LookForSet(t) \/ LoadRows(t) \/ AskForSet(t) \/ MakeFromApi(t) \/ Update(t)
  BY <1>5, LookInTableKeeps, LoadRowsKeeps, AskForSetKeeps, MakeFromApiKeeps, UpdateKeeps
<1>6. CASE DeleteMaps(t) \/ DeleteScores(t) \/ DeleteSet(t) \/ ReplaceSet(t) \/ Saved(t)
             \/ \E b \in Bids : SaveMap(t, b)
  BY <1>6, DeleteMapsKeeps, DeleteScoresKeeps, DeleteSetKeeps, ReplaceSetKeeps, SavedKeeps, SaveMapKeeps
<1>7. CASE WriteStatus(t) \/ CommitStatus(t) \/ DatabaseFails(t)
  BY <1>7, WriteStatusKeeps, CommitStatusKeeps, DatabaseFailsKeeps
<1> QED
  BY <1>1, <1>2, <1>3, <1>4, <1>5, <1>6, <1>7 DEF Handle, ShownMaps

LEMMA BeatmapsIInvStep == BeatmapsIInv /\ [BeatmapsNext]_beatmapsVars => BeatmapsIInv'
<1> SUFFICES ASSUME BeatmapsIInv, [BeatmapsNext]_beatmapsVars PROVE BeatmapsIInv'
  OBVIOUS
<1>1. CASE \E b \in Bids : ApiChanges(b) \/ ScoreStored(b)
  BY <1>1, OutsideKeeps, ScoreStoredKeeps
<1>2. CASE ApiUpDown
  BY <1>2, OutsideKeeps
<1>3. CASE Restart
  BY <1>3, RestartKeeps
<1>4. CASE \E t \in Tasks : Handle(t)
  BY <1>4, HandleKeeps
<1>5. CASE UNCHANGED beatmapsVars
  <2>1. UNCHANGED <<external, tables, objects, caches, forgotten, tasks, ruled, control>>
    BY <1>5 DEF beatmapsVars
  <2>2. SetsSound' /\ Grows
    BY <2>1, NothingGrows DEF BeatmapsIInv
  <2>3. CachesSound' /\ TasksSound' /\ ForgottenSound'
    BY <2>1, <2>2, CachesKept, TasksStay, ForgottenIsSound DEF BeatmapsIInv, ForgottenSound, forgotten
  <2> QED
    BY <2>1, <2>3, LookupKeeps
<1> QED
  BY <1>1, <1>2, <1>3, <1>4, <1>5 DEF BeatmapsNext

LEMMA BeatmapsIInvHolds == BeatmapsSpec => []BeatmapsIInv
  BY BeatmapsIInvInit, BeatmapsIInvStep, PTL DEF BeatmapsSpec

LEMMA BeatmapsTyped == BeatmapsIInv => BeatmapsTypeOK
<1> SUFFICES ASSUME BeatmapsIInv PROVE BeatmapsTypeOK
  OBVIOUS
<1>1. SetsSound /\ CachesSound /\ TablesShape
  BY DEF BeatmapsIInv
<1>2. \A b \in Bids : rows[b].id \in {0, b} /\ api[b].id \in {0, b}
  BY <1>1 DEF TablesShape, ApiMap, MapRow, Absent
<1>3. DOMAIN maps = 1..Len(maps) /\ DOMAIN sets = 1..Len(sets) /\ Len(maps) \in Nat /\ Len(sets) \in Nat
  BY <1>1 DEF SetsSound
<1>4. \A i \in DOMAIN maps : maps[i].id \in Bids /\ maps[i].set \in DOMAIN sets
  <2>1. \A i \in 1..Len(maps) : maps[i] \in MapObject(Len(sets))
    BY <1>1, <1>3 DEF SetsSound
  <2> QED
    BY <1>3, <2>1 DEF MapObject
<1>5. \A k \in DOMAIN sets : sets[k] \subseteq DOMAIN maps
  BY <1>1, <1>3 DEF SetsSound
<1>6. /\ \A key \in DOMAIN beatmap : beatmap[key] \in {0} \cup DOMAIN maps
      /\ beatmapset \in {0} \cup DOMAIN sets
  BY <1>1, <1>3 DEF CachesSound
<1> QED
  BY <1>1, <1>2, <1>4, <1>5, <1>6 DEF BeatmapsTypeOK, TablesShape

\* Tables, objects, sets and caches keep their types, and refer only to objects and sets
\* there are, through every step of any tasks, every outage and every restart.
THEOREM BeatmapsTypesCorrect == BeatmapsSpec => []BeatmapsTypeOK
  BY BeatmapsIInvHolds, BeatmapsTyped, PTL

-----------------------------------------------------------------------------
(* While no tasks overlapped *)

\* The one task there is becomes another, or ends.
LEMMA OneTaskSteps ==
    ASSUME TasksSound, OneTask, NEW t \in Open, NEW task, Becomes(t, task)
    PROVE  /\ Open = {t} /\ OneTask'
           /\ IF task = Absent THEN Open' = {} ELSE Open' = {t} /\ tasks'[t] = task
<1>1. Open = {t} /\ t \in Tasks
  BY DEF OneTask, Open
<1>2. tasks'[t] = task /\ \A u \in Tasks : u # t => tasks'[u] = tasks[u]
  BY <1>1 DEF Becomes, TasksSound
<1>3. \A u \in Tasks : u # t => tasks'[u] = Absent
  BY <1>1, <1>2 DEF Open
<1>4. IF task = Absent THEN Open' = {} ELSE Open' = {t}
  BY <1>1, <1>2, <1>3 DEF Open
<1> QED
  BY <1>1, <1>2, <1>4 DEF OneTask

\* The task is over, but for what it remembers.
Over(t) == Open' = {} \/ (Open' = {t} /\ tasks'[t].at = "filename")

LEMMA EndsIs ==
    ASSUME TasksSound, OneTask, NEW t \in Open, NEW found, NEW ids, Ends(t, found, ids)
    PROVE  Open = {t} /\ OneTask' /\ Over(t)
<1> DEFINE task == tasks[t]
           to == [task EXCEPT !.at = "filename"]
<1>1. task \in TaskShape
  BY DEF TasksSound, Open
<1>2. to.at = "filename" /\ to \in TaskShape
  <2> HIDE DEF task
  <2> QED
    BY <1>1 DEF TaskShape, Lookups
<1>3. Becomes(t, Absent) \/ Becomes(t, to)
  BY DEF Ends, Goes
<1> HIDE DEF to
<1> QED
  BY <1>2, <1>3, OneTaskSteps, NotAbsent DEF Over

LEMMA GoesIs ==
    ASSUME TasksSound, OneTask, NEW t \in Open,
           NEW stage \in Lookups \cup Loads \cup Saves, Goes(t, stage)
    PROVE  /\ Open = {t} /\ OneTask' /\ Open' = {t}
           /\ tasks'[t].at = stage /\ tasks'[t].then = tasks[t].then /\ tasks'[t].last = tasks[t].last
           /\ tasks'[t].md5s = tasks[t].md5s
<1> DEFINE task == tasks[t]
           to == [task EXCEPT !.at = stage]
<1>1. task \in TaskShape
  BY DEF TasksSound, Open
<1>2. /\ to.at = stage /\ to \in TaskShape /\ to.then = task.then /\ to.last = task.last
      /\ to.md5s = task.md5s
  <2> HIDE DEF task
  <2> QED
    BY <1>1 DEF TaskShape
<1>3. Becomes(t, to)
  BY DEF Goes
<1> HIDE DEF to
<1> QED
  BY <1>2, <1>3, OneTaskSteps, NotAbsent

LEMMA UpdatesIs ==
    ASSUME SetsSound, TasksSound, OneTask, NEW t \in Open, NEW set \in Nat,
           NEW then \in {"cache", "return"}, NEW found \in Nat, Updates(t, set, then, found)
    PROVE  /\ Open = {t} /\ OneTask' /\ Open' = {t}
           /\ tasks'[t].at = "update" /\ tasks'[t].then = then
<1> DEFINE task == tasks[t]
           to == [task EXCEPT !.at = "update", !.set = set, !.then = then, !.found = found]
<1>1. task \in TaskShape
  BY DEF TasksSound, Open
<1>2. to.at = "update" /\ to \in TaskShape /\ to.then = then
  <2> HIDE DEF task
  <2> QED
    BY <1>1 DEF TaskShape
<1>3. Becomes(t, to)
  BY DEF Updates
<1> HIDE DEF to
<1> QED
  BY <1>2, <1>3, OneTaskSteps, NotAbsent

LEMMA OverSet ==
    ASSUME NEW t, Over(t), Len(sets') = 1, beatmapset' = 1
    PROVE  OneSet'
<1>1. \A u \in Open' : tasks'[u].at = "filename"
  BY DEF Over
<1>2. \A u \in Open' : Placed(tasks[u])'
  BY <1>1 DEF Placed, Lookups, Loads
<1>3. Len(sets') <= 1 /\ beatmapset' # 0
  OBVIOUS
<1> QED
  BY <1>2, <1>3 DEF OneSet

LEMMA NotEmpty == ASSUME NEW s, Len(s) = 1 PROVE s # <<>>
<1> SUFFICES ASSUME s = <<>> PROVE FALSE
  OBVIOUS
<1>1. Len(s) = 0
  OBVIOUS
<1> QED
  BY <1>1

\* A task that did not change the set, or has written it, leaves it in the cache.
LEMMA FinishIs ==
    ASSUME BeatmapsIInv, OneTask, OneSet, NEW t \in Open, tasks[t].at \in {"update"} \cup Saves,
           UNCHANGED objects, Finish(t)
    PROVE  /\ Open = {t} /\ OneTask' /\ Over(t)
           /\ sets # <<>> /\ Len(sets') = 1 /\ beatmapset' = 1
<1>1. TasksSound /\ SetsSound /\ CachesSound /\ Len(sets) \in Nat
  BY Lengths DEF BeatmapsIInv
<1>2. TaskSound(tasks[t], Len(sets), Len(maps))
  BY <1>1 DEF TasksSound
<1>3. tasks[t].set \in 1..Len(sets)
  BY <1>2 DEF TaskSound
<1>4. Len(sets) = 1 /\ tasks[t].set = 1 /\ sets # <<>> /\ Len(sets') = 1
  <2>1. Len(sets) <= 1 /\ sets' = sets
    BY DEF OneSet, objects
  <2> DEFINE n == Len(sets)
             k == tasks[t].set
  <2>2. n = 1 /\ k = 1
    <3>1. n \in Nat /\ n <= 1 /\ k \in 1..n
      BY <1>1, <1>3, <2>1
    <3> HIDE DEF n, k
    <3> QED
      BY <3>1
  <2>3. sets # <<>>
    BY <2>2, NotEmpty, Zenon
  <2> QED
    BY <2>1, <2>2, <2>3, Zenon
<1>5. Open = {t}
  BY DEF OneTask
<1>6. CASE tasks[t].then = "return"
  <2>1. UNCHANGED caches /\ Ends(t, tasks[t].found, CachedIds)
    BY <1>6 DEF Finish
  <2>2. beatmapset # 0
    BY <1>4, <1>5, <1>6 DEF OneSet
  <2>3. beatmapset' = 1
    BY <1>1, <1>4, <2>1, <2>2 DEF CachesSound, caches
  <2> QED
    BY <1>1, <1>4, <2>1, <2>3, EndsIs
<1>7. CASE tasks[t].then # "return"
  <2>1. CacheSet(t, 1, sets[1], maps)
    BY <1>4, <1>7 DEF Finish
  <2>2. beatmapset' = 1 /\ \E found, ids : Ends(t, found, ids)
    BY <2>1 DEF CacheSet
  <2> QED
    BY <1>1, <1>4, <2>2, EndsIs
<1> QED
  BY <1>6, <1>7

\* No row needs a task: each is a map of the set.
LEMMA AllKept ==
    ASSUME NEW t, Open' \subseteq {t}, t \in Open' => tasks'[t].at \notin Saves \cup {"commit"},
           \A b \in Bids \ missed' : rows'[b] # Absent =>
             mapset' /\ (sets' # <<>> => \E i \in sets'[1] : Row(maps'[i]) = rows'[b]),
           \A b \in Bids \ missed' : ruled'[b] # "none" =>
             rows'[b] # Absent /\ rows'[b].frozen /\ rows'[b].status = ruled'[b]
    PROVE  RowsSound'
<1>1. ASSUME NEW b \in Bids \ missed', rows'[b] # Absent, sets' # <<>>
      PROVE  IF Open' = {} THEN Kept(rows[b])' ELSE \A u \in Open' : RowSound(tasks[u], b)'
  <2>1. Kept(rows[b])'
    BY <1>1 DEF Kept
  <2>2. ASSUME NEW u \in Open' PROVE RowSound(tasks[u], b)'
    <3>1. tasks'[u].at \notin Saves \cup {"commit"}
      BY <2>2
    <3> QED
      BY <2>1, <3>1 DEF RowSound, Saves
  <2> QED
    BY <2>1, <2>2
<1> QED
  BY <1>1 DEF RowsSound

\* What is known of a row while the task does not write
LEMMA RowsKept ==
    ASSUME RowsSound, Open = {} \/ \A t \in Open : tasks[t].at \notin Saves \cup {"commit"}
    PROVE  \A b \in Bids \ missed : rows[b] # Absent =>
             mapset /\ (sets # <<>> => \E i \in sets[1] : Row(maps[i]) = rows[b])
<1>1. ASSUME NEW b \in Bids \ missed, rows[b] # Absent, sets # <<>>
      PROVE  \E i \in sets[1] : Row(maps[i]) = rows[b]
  <2>1. CASE Open = {}
    BY <1>1, <2>1 DEF RowsSound, Kept
  <2>2. CASE Open # {}
    <3>1. PICK u \in Open : RowSound(tasks[u], b) /\ tasks[u].at \notin Saves \cup {"commit"}
      BY <1>1, <2>2 DEF RowsSound
    <3> QED
      BY <3>1 DEF RowSound, Kept, Saves
  <2> QED
    BY <2>1, <2>2
<1> QED
  BY <1>1 DEF RowsSound

\* Steps that leave the tables and the objects, of a task that has nothing to write
LEMMA QuietRows ==
    ASSUME RowsSound, NEW t \in Open, Open = {t}, tasks[t].at \notin Saves \cup {"commit"},
           UNCHANGED <<tables, objects, ruled, missed>>,
           Open' = {} \/ (Open' = {t} /\ tasks'[t].at \notin Saves \cup {"commit"})
    PROVE  RowsSound'
<1>1. \A b \in Bids \ missed : rows[b] # Absent =>
        mapset /\ (sets # <<>> => \E i \in sets[1] : Row(maps[i]) = rows[b])
  BY RowsKept
<1>2. /\ rows' = rows /\ mapset' = mapset /\ maps' = maps /\ sets' = sets
      /\ ruled' = ruled /\ missed' = missed
  BY DEF tables, objects
<1>3. \A b \in Bids \ missed : ruled[b] # "none" =>
         rows[b] # Absent /\ rows[b].frozen /\ rows[b].status = ruled[b]
  BY DEF RowsSound
<1> QED
  BY <1>1, <1>2, <1>3, AllKept

LEMMA QuietSet ==
    ASSUME OneSet, NEW t \in Open, Open = {t}, tasks[t].at \notin {"update"} \cup Saves,
           UNCHANGED <<sets, mapset, beatmapset>>,
           \/ Over(t)
           \/ /\ Open' = {t} /\ tasks'[t].at \in Lookups \cup {"update"}
              /\ tasks'[t].at \in Lookups => tasks'[t].then = "cache"
    PROVE  OneSet'
<1>1. Len(sets') <= 1
  BY DEF OneSet
<1>2. sets' = <<>> \/ beatmapset' # 0
  BY DEF OneSet
<1>3. ASSUME NEW u \in Open' PROVE Placed(tasks[u])'
  <2>1. u = t
    BY <1>3 DEF Over
  <2>2. tasks'[t].at \in Lookups \cup {"update"} /\ (tasks'[t].at \in Lookups \ {"filename"} => tasks'[t].then = "cache")
    BY <1>3 DEF Over, Lookups
  <2> QED
    BY <2>1, <2>2 DEF Placed, Lookups, Loads
<1> QED
  BY <1>1, <1>2, <1>3 DEF OneSet

\* A step of a task that reads
LEMMA QuietStep ==
    ASSUME SerialState, NEW t \in Open, Open = {t}, OneTask',
           tasks[t].at \notin {"update"} \cup Saves \cup {"commit"},
           UNCHANGED <<tables, objects, beatmapset, ruled, missed>>,
           \/ Over(t)
           \/ /\ Open' = {t} /\ tasks'[t].at \in Lookups \cup {"update"}
              /\ tasks'[t].at \in Lookups => tasks'[t].then = "cache"
    PROVE  SerialState'
<1>1. OneSet'
  BY QuietSet DEF SerialState, tables, objects
<1>2. Open' = {} \/ (Open' = {t} /\ tasks'[t].at \notin Saves \cup {"commit"})
  BY DEF Over, Lookups, Saves
<1>3. RowsSound'
  BY <1>2, QuietRows DEF SerialState
<1> QED
  BY <1>1, <1>3 DEF SerialState

\* What is known of the task that takes a step
LEMMA TheTask ==
    ASSUME BeatmapsIInv, SerialState, NEW t \in Tasks, NEW stage, Is(t, stage)
    PROVE  /\ t \in Open /\ Open = {t} /\ tasks[t].at = stage /\ tasks[t] # Absent
           /\ TaskSound(tasks[t], Len(sets), Len(maps)) /\ Placed(tasks[t])
           /\ TasksSound /\ SetsSound /\ CachesSound /\ TablesShape /\ OneTask /\ OneSet /\ RowsSound
<1>1. t \in Open /\ tasks[t].at = stage /\ tasks[t] # Absent
  BY DEF Is, Open
<1>2. TaskSound(tasks[t], Len(sets), Len(maps))
  BY <1>1 DEF BeatmapsIInv, TasksSound
<1>3. Open = {t} /\ Placed(tasks[t])
  BY <1>1 DEF SerialState, OneTask, OneSet
<1> QED
  BY <1>1, <1>2, <1>3 DEF BeatmapsIInv, SerialState

\* A task ends early: nothing is in memory, or the rows that no task missed are as the
\* set is, which stays.
LEMMA RaisesSerial ==
    ASSUME BeatmapsIInv, SerialState, NEW t \in Tasks, t \in Open, Raises(t),
           UNCHANGED <<tables, ruled>>, missed \subseteq missed',
           \A b \in Bids \ missed' : rows[b] # Absent /\ beatmapset # 0 => Kept(rows[b])
    PROVE  SerialState'
<1>1. TasksSound /\ OneTask /\ OneSet /\ RowsSound /\ Becomes(t, Absent) /\ UNCHANGED caches
  BY DEF BeatmapsIInv, SerialState, Raises
<1>2. Open' = {} /\ OneTask' /\ Open = {t}
  BY <1>1, OneTaskSteps
<1>3. rows' = rows /\ mapset' = mapset /\ ruled' = ruled /\ beatmapset' = beatmapset
  BY <1>1 DEF tables, caches
<1>4. /\ \A b \in Bids \ missed' : rows'[b] # Absent => mapset'
      /\ \A b \in Bids \ missed' : ruled'[b] # "none" =>
           rows'[b] # Absent /\ rows'[b].frozen /\ rows'[b].status = ruled'[b]
  BY <1>1, <1>3 DEF RowsSound
<1>5. CASE beatmapset = 0
  <2>1. sets' = <<>>
    BY <1>2, <1>5 DEF Raises
  <2>2. Len(sets') <= 1
    BY <2>1
  <2> QED
    BY <1>2, <1>4, <2>1, <2>2 DEF SerialState, OneSet, RowsSound
<1>6. CASE beatmapset # 0
  <2>1. UNCHANGED objects
    BY <1>6 DEF Raises
  <2>2. OneSet'
    BY <1>1, <1>2, <1>3, <1>6, <2>1 DEF OneSet, objects
  <2>3. \A b \in Bids \ missed' : rows'[b] # Absent => Kept(rows[b])'
    BY <1>3, <1>6, <2>1 DEF Kept, objects
  <2> QED
    BY <1>2, <1>4, <2>2, <2>3 DEF SerialState, RowsSound
<1> QED
  BY <1>5, <1>6

LEMMA LookInCacheSerial ==
    ASSUME BeatmapsIInv, SerialState, NEW t \in Tasks, LookInCache(t)
    PROVE  SerialState'
<1> DEFINE found == beatmap[tasks[t].key]
           set == maps[found].set
<1>1. Is(t, "cached") /\ UNCHANGED <<external, tables, objects, caches, ruled, control, missed>>
  BY DEF LookInCache, Tables, Rest
<1>2. /\ t \in Open /\ Open = {t} /\ tasks[t].at = "cached" /\ TasksSound /\ SetsSound /\ OneTask
      /\ TaskSound(tasks[t], Len(sets), Len(maps)) /\ Placed(tasks[t]) /\ CachesSound
  BY <1>1, TheTask
<1>3. tasks[t].then = "cache" /\ tasks[t].at \notin {"update"} \cup Saves \cup {"commit"}
  BY <1>2 DEF Placed, Lookups, Saves
<1>4. CASE \E stage \in {"set", "row"} : Goes(t, stage)
  <2>1. PICK stage \in {"set", "row"} : Goes(t, stage)
    BY <1>4
  <2>2. stage \in Lookups
    BY DEF Lookups
  <2>3. Open' = {t} /\ OneTask' /\ tasks'[t].at = stage /\ tasks'[t].then = "cache"
    BY <1>2, <1>3, <2>1, <2>2, GoesIs
  <2> QED
    BY <1>1, <1>2, <1>3, <2>2, <2>3, QuietStep DEF caches
<1>5. CASE Ends(t, found, CachedIds)
  <2>1. OneTask' /\ Over(t)
    BY <1>2, <1>5, EndsIs
  <2> QED
    BY <1>1, <1>2, <1>3, <2>1, QuietStep DEF caches
<1>6. CASE found # 0 /\ Updates(t, set, "return", found)
  <2>1. tasks[t].key \in Keys
    BY <1>2 DEF TaskSound
  <2>2. found \in 1..Len(maps) /\ found \in Nat
    <3>1. found \in 0..Len(maps) /\ Len(maps) \in Nat
      BY <1>2, <2>1, Lengths DEF CachesSound
    <3> QED
      BY <3>1, <1>6
  <2>3. set \in Nat
    <3>1. maps[found] \in MapObject(Len(sets)) /\ Len(sets) \in Nat
      BY <1>2, <2>2, Lengths DEF SetsSound
    <3> QED
      BY <3>1 DEF MapObject
  <2>4. OneTask' /\ Open' = {t} /\ tasks'[t].at = "update"
    <3> HIDE DEF found, set
    <3> QED
      BY <1>2, <1>6, <2>2, <2>3, UpdatesIs
  <2>5. tasks'[t].at \in Lookups \cup {"update"} /\ tasks'[t].at \notin Lookups
    BY <2>4 DEF Lookups
  <2> QED
    BY <1>1, <1>2, <1>3, <2>4, <2>5, QuietStep DEF caches
<1> QED
  BY <1>4, <1>5, <1>6 DEF LookInCache

LEMMA LookInTableSerial ==
    ASSUME BeatmapsIInv, SerialState, NEW t \in Tasks, LookInTable(t)
    PROVE  SerialState'
<1>1. Is(t, "row") /\ UNCHANGED <<external, tables, objects, caches, ruled, control, missed>>
  BY DEF LookInTable, Tables, Memory, Rest
<1>2. /\ t \in Open /\ Open = {t} /\ tasks[t].at = "row" /\ TasksSound /\ OneTask /\ Placed(tasks[t])
  BY <1>1, TheTask
<1>3. tasks[t].then = "cache" /\ tasks[t].at \notin {"update"} \cup Saves \cup {"commit"}
  BY <1>2 DEF Placed, Lookups, Saves
<1>4. PICK stage \in {"set", "ask map"} : Goes(t, stage)
  BY DEF LookInTable
<1>5. stage \in Lookups
  BY DEF Lookups
<1>6. Open' = {t} /\ OneTask' /\ tasks'[t].at = stage /\ tasks'[t].then = "cache"
  BY <1>2, <1>3, <1>4, <1>5, GoesIs
<1> QED
  BY <1>1, <1>2, <1>3, <1>5, <1>6, QuietStep DEF caches

LEMMA UnansweredIs ==
    ASSUME TasksSound, OneTask, NEW t \in Open, Unanswered(t)
    PROVE  OneTask' /\ Over(t)
BY EndsIs, OneTaskSteps DEF Unanswered, Over

LEMMA AskForMapSerial ==
    ASSUME BeatmapsIInv, SerialState, NEW t \in Tasks, AskForMap(t)
    PROVE  SerialState'
<1>1. Is(t, "ask map") /\ UNCHANGED <<external, tables, objects, caches, ruled, control, missed>>
  BY DEF AskForMap, Tables, Memory, Rest
<1>2. /\ t \in Open /\ Open = {t} /\ tasks[t].at = "ask map" /\ TasksSound
      /\ OneTask /\ Placed(tasks[t])
  BY <1>1, TheTask
<1>3. tasks[t].then = "cache" /\ tasks[t].at \notin {"update"} \cup Saves \cup {"commit"}
  BY <1>2 DEF Placed, Lookups, Saves
<1>4. CASE Goes(t, "set")
  <2>1. "set" \in Lookups
    BY DEF Lookups
  <2>2. Open' = {t} /\ OneTask' /\ tasks'[t].at = "set" /\ tasks'[t].then = "cache"
    BY <1>2, <1>3, <1>4, <2>1, GoesIs
  <2> QED
    BY <1>1, <1>2, <1>3, <2>1, <2>2, QuietStep DEF caches
<1>5. CASE Unanswered(t)
  <2>1. OneTask' /\ Over(t)
    BY <1>2, <1>5, UnansweredIs
  <2> QED
    BY <1>1, <1>2, <1>3, <2>1, QuietStep DEF caches
<1> QED
  BY <1>4, <1>5 DEF AskForMap

LEMMA LookForFilenameSerial ==
    ASSUME BeatmapsIInv, SerialState, NEW t \in Tasks, LookForFilename(t)
    PROVE  SerialState'
<1>1. /\ Is(t, "filename") /\ UNCHANGED <<external, tables, objects, caches, ruled, control, missed>>
      /\ Becomes(t, Absent)
  BY DEF LookForFilename, Tables, Memory, Rest
<1>2. /\ t \in Open /\ Open = {t} /\ tasks[t].at = "filename" /\ TasksSound /\ OneTask
  BY <1>1, TheTask
<1>3. tasks[t].at \notin {"update"} \cup Saves \cup {"commit"}
  BY <1>2 DEF Saves
<1>4. OneTask' /\ Over(t)
  BY <1>1, <1>2, OneTaskSteps DEF Over
<1> QED
  BY <1>1, <1>2, <1>3, <1>4, QuietStep DEF caches

LEMMA TakeSetSerial ==
    ASSUME BeatmapsIInv, SerialState, NEW t \in Tasks, TakeSet(t)
    PROVE  SerialState'
<1>1. Is(t, "set") /\ UNCHANGED <<external, tables, objects, ruled, control, missed>>
  BY DEF TakeSet, Tables, Rest
<1>2. /\ t \in Open /\ Open = {t} /\ tasks[t].at = "set" /\ TasksSound /\ SetsSound /\ OneTask
      /\ Placed(tasks[t]) /\ CachesSound /\ OneSet /\ RowsSound
  BY <1>1, TheTask
<1>3. tasks[t].then = "cache" /\ tasks[t].at \notin {"update"} \cup Saves \cup {"commit"}
  BY <1>2 DEF Placed, Lookups, Saves
<1>4. CASE beatmapset = 0 /\ Goes(t, "mapset row") /\ UNCHANGED caches
  <2>1. "mapset row" \in Loads
    BY DEF Loads
  <2>2. Open' = {t} /\ OneTask' /\ tasks'[t].at = "mapset row" /\ tasks'[t].then = "cache"
    BY <1>2, <1>3, <1>4, <2>1, GoesIs
  <2>3. sets = <<>>
    BY <1>2, <1>3, <1>4 DEF OneSet
  <2>4. OneSet'
    BY <1>1, <1>2, <2>2, <2>3 DEF OneSet, Placed, objects, tables
  <2>5. tasks'[t].at \notin Saves \cup {"commit"} /\ tasks[t].at \notin Saves \cup {"commit"}
    BY <1>3, <2>2 DEF Saves
  <2>6. RowsSound'
    BY <1>1, <1>2, <2>2, <2>5, QuietRows
  <2> QED
    BY <2>2, <2>4, <2>6 DEF SerialState
<1>5. CASE CacheSet(t, beatmapset, sets[beatmapset], maps)
  <2>1. beatmapset' = beatmapset /\ \E found, ids : Ends(t, found, ids)
    BY <1>5 DEF CacheSet
  <2>2. OneTask' /\ Over(t)
    BY <1>2, <2>1, EndsIs
  <2> QED
    BY <1>1, <1>2, <1>3, <2>1, <2>2, QuietStep
<1>6. CASE Updates(t, beatmapset, "cache", 0) /\ UNCHANGED caches
  <2>1. beatmapset \in Nat
    <3>1. beatmapset \in 0..Len(sets) /\ Len(sets) \in Nat
      BY <1>2, Lengths DEF CachesSound
    <3> QED
      BY <3>1
  <2>2. OneTask' /\ Open' = {t} /\ tasks'[t].at = "update"
    BY <1>2, <1>6, <2>1, UpdatesIs
  <2>3. tasks'[t].at \in Lookups \cup {"update"} /\ tasks'[t].at \notin Lookups
    BY <2>2 DEF Lookups
  <2> QED
    BY <1>1, <1>2, <1>3, <1>6, <2>2, <2>3, QuietStep DEF caches
<1> QED
  BY <1>4, <1>5, <1>6 DEF TakeSet

LEMMA LookForSetSerial ==
    ASSUME BeatmapsIInv, SerialState, NEW t \in Tasks, LookForSet(t)
    PROVE  SerialState'
<1>1. /\ Is(t, "mapset row") /\ UNCHANGED <<external, tables, objects, caches, ruled, control, missed>>
      /\ Goes(t, IF mapset THEN "map rows" ELSE "ask set")
  BY DEF LookForSet, Tables, Memory, Rest
<1>2. /\ t \in Open /\ Open = {t} /\ tasks[t].at = "mapset row" /\ TasksSound /\ OneTask
      /\ Placed(tasks[t]) /\ OneSet /\ RowsSound
  BY <1>1, TheTask
<1>3. /\ tasks[t].then = "cache" /\ tasks[t].at \notin Saves \cup {"commit"} /\ sets = <<>>
  BY <1>2 DEF Placed, Loads, Saves
<1>4. PICK stage \in {"map rows", "ask set"} : Goes(t, stage) /\ (stage = "ask set" => ~mapset)
  BY <1>1
<1>5. stage \in Loads /\ stage \notin {"frozen", "save", "write", "commit"}
  BY DEF Loads
<1>6. Open' = {t} /\ OneTask' /\ tasks'[t].at = stage /\ tasks'[t].then = "cache"
  BY <1>2, <1>3, <1>4, <1>5, GoesIs
<1>7. OneSet'
  BY <1>1, <1>2, <1>3, <1>4, <1>5, <1>6 DEF OneSet, Placed, objects, tables
<1>8. tasks'[t].at \notin Saves \cup {"commit"}
  BY <1>5, <1>6 DEF Saves, Loads
<1>9. RowsSound'
  BY <1>1, <1>2, <1>3, <1>6, <1>8, QuietRows
<1> QED
  BY <1>6, <1>7, <1>9 DEF SerialState

LEMMA AskForSetSerial ==
    ASSUME BeatmapsIInv, SerialState, NEW t \in Tasks, AskForSet(t)
    PROVE  SerialState'
<1>1. /\ Is(t, "ask set") /\ UNCHANGED <<external, tables, objects, caches, ruled, control, missed>>
  BY DEF AskForSet, Tables, Memory, Rest
<1>2. /\ t \in Open /\ Open = {t} /\ tasks[t].at = "ask set" /\ TasksSound /\ OneTask
      /\ Placed(tasks[t]) /\ OneSet /\ RowsSound /\ TaskSound(tasks[t], Len(sets), Len(maps))
      /\ TablesShape
  BY <1>1, TheTask
<1>3. /\ tasks[t].then = "cache" /\ tasks[t].at \notin {"update"} \cup Saves \cup {"commit"}
      /\ sets = <<>> /\ ~mapset
  BY <1>2 DEF Placed, Loads, Saves
<1> DEFINE answer == [b \in InApi |-> api[b]]
           task == tasks[t]
           to == [task EXCEPT !.at = "frozen", !.answer = answer]
<1>4. CASE Becomes(t, to)
  <2>1. answer \in Answers
    <3>1. DOMAIN answer \subseteq Bids /\ \A b \in DOMAIN answer : answer[b] \in ApiMap(b)
      BY <1>2 DEF TablesShape, InApi
    <3>2. answer \in [InApi -> UNION {ApiMap(b) : b \in Bids}] /\ InApi \in SUBSET Bids
      BY <3>1 DEF InApi
    <3> QED
      BY <3>2 DEF Answers
  <2>2. task \in TaskShape
    BY <1>2 DEF TaskSound
  <2>3. to \in TaskShape /\ to.at = "frozen" /\ to.then = task.then
    <3> HIDE DEF task, answer
    <3> QED
      BY <2>1, <2>2 DEF TaskShape, Loads
  <2> HIDE DEF to
  <2>4. OneTask' /\ Open' = {t} /\ tasks'[t].at = "frozen" /\ tasks'[t].then = "cache"
    BY <1>2, <1>3, <1>4, <2>3, OneTaskSteps, NotAbsent
  <2>5. OneSet'
    BY <1>1, <1>2, <1>3, <2>4 DEF OneSet, Placed, objects, tables
  <2>6. tasks'[t].at \notin Saves \cup {"commit"} /\ tasks[t].at \notin Saves \cup {"commit"}
    BY <1>3, <2>4 DEF Saves
  <2>7. RowsSound'
    BY <1>1, <1>2, <2>4, <2>6, QuietRows
  <2> QED
    BY <2>4, <2>5, <2>7 DEF SerialState
<1>5. CASE Unanswered(t)
  <2>1. OneTask' /\ Over(t)
    BY <1>2, <1>5, UnansweredIs
  <2> QED
    BY <1>1, <1>2, <1>3, <2>1, QuietStep DEF caches
<1> QED
  BY <1>4, <1>5 DEF AskForSet

\* A request or a command begins, when nothing is under way.
LEMMA BeginSerial ==
    ASSUME BeatmapsIInv, SerialState, NEW t \in Tasks, NEW task, Begin(t, task), ~overlap',
           \/ task.at = "cached" /\ task.then = "cache"
           \/ task.at = "write" /\ sets # <<>>
    PROVE  SerialState'
<1>1. /\ UNCHANGED <<external, tables, objects, caches, forgotten, ruled, missed>> /\ Open = {}
      /\ Becomes(t, task)
  BY DEF Begin
<1>2. tasks'[t] = task /\ \A u \in Tasks : u # t => tasks'[u] = Absent
  BY <1>1 DEF Becomes, BeatmapsIInv, TasksSound, Open
<1>3. Open' \subseteq {t}
  BY <1>2 DEF Open
<1>4. beatmapset \in 0..Len(sets) /\ Len(sets) \in Nat /\ Len(sets) <= 1
  BY Lengths DEF BeatmapsIInv, CachesSound, SerialState, OneSet
<1>5. sets # <<>> => beatmapset = 1
  <2>1. sets # <<>> => beatmapset # 0
    BY <1>1 DEF SerialState, OneSet
  <2> QED
    BY <1>4, <2>1
<1>6. OneSet'
  <2>1. sets' = sets /\ mapset' = mapset /\ beatmapset' = beatmapset
    BY <1>1 DEF objects, tables, caches
  <2>2. Placed(tasks[t])'
    <3>1. CASE task.at = "cached" /\ task.then = "cache"
      BY <1>2, <3>1 DEF Placed, Loads
    <3>2. CASE task.at = "write" /\ sets # <<>>
      BY <1>2, <1>5, <2>1, <3>2 DEF Placed, Loads, Lookups
    <3> QED
      BY <3>1, <3>2
  <2>3. \A u \in Open' : Placed(tasks[u])'
    BY <1>3, <2>2
  <2>4. Len(sets') <= 1 /\ (sets' # <<>> => beatmapset' # 0)
    BY <1>4, <1>5, <2>1
  <2> QED
    BY <2>3, <2>4 DEF OneSet
<1>7. tasks'[t].at \notin Saves \cup {"commit"}
  BY <1>2 DEF Saves
<1>8. RowsSound'
  <2>1. \A b \in Bids \ missed : rows[b] # Absent =>
          mapset /\ (sets # <<>> => \E i \in sets[1] : Row(maps[i]) = rows[b])
    BY <1>1, RowsKept DEF SerialState
  <2>2. /\ rows' = rows /\ mapset' = mapset /\ maps' = maps /\ sets' = sets
        /\ ruled' = ruled /\ missed' = missed
    BY <1>1 DEF tables, objects
  <2>3. \A b \in Bids \ missed : ruled[b] # "none" =>
           rows[b] # Absent /\ rows[b].frozen /\ rows[b].status = ruled[b]
    BY DEF SerialState, RowsSound
  <2> QED
    BY <1>3, <1>7, <2>1, <2>2, <2>3, AllKept
<1>9. OneTask'
  BY <1>3 DEF OneTask
<1> QED
  BY <1>6, <1>8, <1>9 DEF SerialState

\* The rows of the table become the one set.
LEMMA LoadRowsSerial ==
    ASSUME BeatmapsIInv, SerialState, NEW t \in Tasks, LoadRows(t)
    PROVE  SerialState'
<1> DEFINE set == Len(sets) + 1
           made == FromRows(set)
           members == NewMembers(made)
<1>1. UNCHANGED <<external, tables, ruled, control, missed>> /\ Is(t, "map rows")
  BY DEF LoadRows, Tables, Rest
<1>2. /\ t \in Open /\ Open = {t} /\ tasks[t].at = "map rows" /\ TasksSound /\ SetsSound
      /\ TablesShape /\ OneTask /\ Placed(tasks[t]) /\ OneSet /\ RowsSound
  BY <1>1, TheTask
<1>3. sets = <<>> /\ set = 1 /\ Len(sets) = 0 /\ set \in Nat \ {0}
  <2>1. sets = <<>>
    BY <1>2 DEF Placed, Loads
  <2> QED
    BY <2>1
<1>4. /\ DOMAIN made \subseteq Bids
      /\ \A b \in DOMAIN made : /\ made[b] \in MapObject(set) /\ made[b].id = b
                                /\ Row(made[b]) = rows[b]
  BY <1>2, <1>3, FromRowsMade
<1>5. \A b \in Bids : rows[b] # Absent => b \in DOMAIN made
  BY DEF FromRows
<1>6. maps' = maps \o Make(made) /\ sets' = Append(sets, members)
  BY DEF LoadRows, FromRows
<1>7. \/ CacheSet(t, set, members, maps')
      \/ Updates(t, set, "cache", 0) /\ UNCHANGED caches
  BY DEF LoadRows, FromRows
<1> HIDE DEF made
<1>8. /\ Len(sets') = set /\ sets'[set] = members
      /\ \A b \in DOMAIN made : \E i \in members : maps'[i] = made[b]
  BY <1>2, <1>4, <1>6, SetMade
<1>9. \A b \in Bids : rows[b] # Absent => \E i \in sets'[1] : Row(maps'[i]) = rows[b]
  <2>1. TAKE b \in Bids
  <2>2. HAVE rows[b] # Absent
  <2>3. PICK i \in members : maps'[i] = made[b]
    BY <1>5, <1>8, <2>2
  <2>4. Row(maps'[i]) = rows[b]
    BY <1>4, <1>5, <2>2, <2>3
  <2>5. sets'[1] = members
    BY <1>3, <1>8
  <2> QED
    BY <2>3, <2>4, <2>5
<1> HIDE DEF members
<1>10. OneTask' /\ Open' \subseteq {t} /\ (t \in Open' => tasks'[t].at \notin Saves \cup {"commit"}) /\ OneSet'
  <2>0. Len(sets') <= 1
    BY <1>3, <1>8
  <2>1. CASE CacheSet(t, set, members, maps')
    <3>1. beatmapset' = 1 /\ \E found, ids : Ends(t, found, ids)
      BY <1>3, <2>1 DEF CacheSet
    <3>2. OneTask' /\ Over(t)
      BY <1>2, <3>1, EndsIs
    <3>3. \A u \in Open' : tasks'[u].at = "filename"
      BY <3>2 DEF Over
    <3>4. \A u \in Open' : Placed(tasks[u])'
      BY <3>3 DEF Placed, Lookups, Loads
    <3>5. OneSet'
      BY <2>0, <3>1, <3>4 DEF OneSet
    <3> QED
      BY <3>2, <3>3, <3>5 DEF Over, Saves
  <2>2. CASE Updates(t, set, "cache", 0)
    <3>1. OneTask' /\ Open' = {t} /\ tasks'[t].at = "update" /\ tasks'[t].then = "cache"
      BY <1>2, <1>3, <2>2, UpdatesIs
    <3>2. Placed(tasks[t])'
      BY <3>1 DEF Placed, Lookups, Loads
    <3>3. OneSet'
      BY <2>0, <3>1, <3>2 DEF OneSet
    <3> QED
      BY <3>1, <3>3 DEF Saves
  <2> QED
    BY <1>7, <2>1, <2>2
<1>11. /\ rows' = rows /\ mapset' = mapset /\ ruled' = ruled /\ missed' = missed
  BY <1>1 DEF tables
<1>12. /\ \A b \in Bids \ missed : rows[b] # Absent => mapset
       /\ \A b \in Bids \ missed : ruled[b] # "none" =>
           rows[b] # Absent /\ rows[b].frozen /\ rows[b].status = ruled[b]
  BY <1>2 DEF RowsSound
<1>13. RowsSound'
  BY <1>9, <1>10, <1>11, <1>12, AllKept
<1> QED
  BY <1>10, <1>13 DEF SerialState

\* What the task that writes knows of a row
LEMMA RowsAt ==
    ASSUME RowsSound, NEW t \in Open, sets # <<>>
    PROVE  \A b \in Bids \ missed : rows[b] # Absent => mapset /\ RowSound(tasks[t], b)
BY DEF RowsSound

LEMMA RowsAfter ==
    ASSUME NEW t, Open' = {t},
           \A b \in Bids \ missed' : rows'[b] # Absent => mapset' /\ RowSound(tasks[t], b)',
           \A b \in Bids \ missed' : ruled'[b] # "none" =>
             rows'[b] # Absent /\ rows'[b].frozen /\ rows'[b].status = ruled'[b]
    PROVE  RowsSound'
BY DEF RowsSound

LEMMA RulingsAre ==
    ASSUME RowsSound
    PROVE  \A b \in Bids \ missed : ruled[b] # "none" =>
             rows[b] # Absent /\ rows[b].frozen /\ rows[b].status = ruled[b]
BY DEF RowsSound

LEMMA TheSet ==
    ASSUME SetsSound, OneSet, NEW k \in 1..Len(sets)
    PROVE  k = 1 /\ Len(sets) = 1 /\ sets # <<>>
<1> DEFINE n == Len(sets)
<1>1. n \in Nat /\ n <= 1 /\ k \in 1..n
  BY Lengths DEF OneSet
<1>2. k = 1 /\ n = 1
  <2> HIDE DEF n
  <2> QED
    BY <1>1
<1>3. sets # <<>>
  BY <1>2, NotEmpty, Zenon
<1> QED
  BY <1>2, <1>3

\* There are no rows to agree with when the api is asked.
LEMMA MakeFromApiSerial ==
    ASSUME BeatmapsIInv, SerialState, NEW t \in Tasks, MakeFromApi(t)
    PROVE  SerialState'
<1> DEFINE task == tasks[t]
           set == Len(sets) + 1
           to == [task EXCEPT !.at = "replace set", !.set = set, !.answer = <<>>]
<1>1. /\ UNCHANGED <<external, tables, ruled, control, missed, caches>>
      /\ Is(t, "frozen") /\ Becomes(t, to)
  BY DEF MakeFromApi, Tables, Rest
<1>2. /\ t \in Open /\ Open = {t} /\ tasks[t].at = "frozen" /\ TasksSound /\ SetsSound
      /\ OneTask /\ Placed(tasks[t]) /\ OneSet /\ RowsSound /\ TaskSound(tasks[t], Len(sets), Len(maps))
      /\ CachesSound
  BY <1>1, TheTask
<1>3. sets = <<>> /\ ~mapset /\ task.then = "cache"
  BY <1>2 DEF Placed, Loads
<1>4. Len(sets') = 1
  <2>1. \E members : sets' = Append(sets, members)
    BY DEF MakeFromApi
  <2> QED
    BY <1>3, <2>1
<1>5. OneTask' /\ Open' = {t} /\ tasks'[t].at = "replace set" /\ tasks'[t].then = "cache"
  <2>1. <<>> \in Answers /\ set \in Nat
    BY <1>3, NewTask DEF TaskShape, Task
  <2>2. task \in TaskShape
    BY <1>2 DEF TaskSound
  <2>3. to \in TaskShape /\ to.at = "replace set" /\ to.then = task.then
    <3> HIDE DEF task, set
    <3> QED
      BY <2>1, <2>2 DEF TaskShape, Saves
  <2> HIDE DEF to
  <2> QED
    BY <1>1, <1>2, <1>3, <2>3, OneTaskSteps, NotAbsent
<1>6. OneSet'
  <2>0. beatmapset' = 0
    BY <1>1, <1>2, <1>3 DEF CachesSound, caches
  <2>2. \E u \in Open' : tasks'[u].at \in {"update"} \cup Saves /\ tasks'[u].then = "cache"
    BY <1>5 DEF Saves
  <2>3. Len(sets') <= 1
    BY <1>4
  <2>4. \A u \in Open' : tasks'[u].at = "replace set"
    BY <1>5
  <2>5. \A u \in Open' : Placed(tasks[u])'
    BY <2>0, <2>4 DEF Placed, Lookups, Loads
  <2> QED
    BY <2>2, <2>3, <2>5 DEF OneSet
<1>7. \A b \in Bids \ missed : rows[b] = Absent /\ ruled[b] = "none"
  BY <1>2, <1>3 DEF RowsSound
<1>8. RowsSound'
  BY <1>1, <1>7 DEF RowsSound, tables
<1> QED
  BY <1>5, <1>6, <1>8 DEF SerialState

\* The maps that stay in the set keep a ruling.
LEMMA MapsStay ==
    ASSUME TablesShape, SetsSound, NEW set \in 1..Len(sets),
           maps' = Parsed(set) \o Make(Added(set)), Put(sets', sets, set, Left(set))
    PROVE  \A i \in sets[set] \ Gone(set) :
             /\ i \in sets'[set] /\ maps'[i].id = maps[i].id /\ maps'[i].frozen = maps[i].frozen
             /\ maps[i].frozen => maps'[i].status = maps[i].status
<1>1. Extended(maps', Parsed(set), Added(set))
  BY SetUpdated DEF Left
<1>2. /\ Len(Parsed(set)) = Len(maps)
      /\ \A i \in 1..Len(maps) : /\ Parsed(set)[i].id = maps[i].id
                                 /\ Parsed(set)[i].frozen = maps[i].frozen
                                 /\ maps[i].frozen => Parsed(set)[i].status = maps[i].status
  BY ParsedMaps
<1>3. \A i \in 1..Len(maps) : maps'[i] = Parsed(set)[i]
  BY <1>1, <1>2 DEF Extended
<1>4. sets[set] \subseteq 1..Len(maps)
  BY DEF SetsSound
<1>5. sets'[set] = Left(set)
  BY DEF Put, SetsSound
<1> QED
  BY <1>2, <1>3, <1>4, <1>5 DEF Left

LEMMA UpdateSerial ==
    ASSUME BeatmapsIInv, SerialState, NEW t \in Tasks, Update(t)
    PROVE  SerialState'
<1> DEFINE task == tasks[t]
<1>1. UNCHANGED <<external, tables, ruled, control, missed>> /\ Is(t, "update")
  BY UpdateIs
<1>2. /\ t \in Open /\ Open = {t} /\ tasks[t].at = "update" /\ TasksSound /\ SetsSound /\ TablesShape
      /\ OneTask /\ OneSet /\ RowsSound /\ TaskSound(tasks[t], Len(sets), Len(maps))
  BY <1>1, TheTask
<1>3. task.set = 1 /\ Len(sets) = 1 /\ sets # <<>> /\ 1 \in 1..Len(sets)
  <2>1. task.set \in 1..Len(sets)
    BY <1>2 DEF TaskSound
  <2> QED
    BY <1>2, <2>1, TheSet
<1>4. \A b \in Bids \ missed : rows[b] # Absent =>
        mapset /\ (sets # <<>> => \E i \in sets[1] : Row(maps[i]) = rows[b])
  BY <1>2, RowsKept DEF Saves
<1>5. rows' = rows /\ mapset' = mapset /\ ruled' = ruled /\ missed' = missed
  BY <1>1 DEF tables
<1>6. CASE ~up /\ UNCHANGED objects /\ Finish(t)
  <2>2. OneTask' /\ Over(t) /\ Len(sets') = 1 /\ beatmapset' = 1
    BY <1>2, <1>6, FinishIs
  <2>3. tasks[t].at \notin Saves \cup {"commit"}
    BY <1>2 DEF Saves
  <2>4. Open' = {} \/ (Open' = {t} /\ tasks'[t].at \notin Saves \cup {"commit"})
    BY <2>2 DEF Over, Saves
  <2>5. RowsSound'
    BY <1>1, <1>2, <1>6, <2>3, <2>4, QuietRows
  <2>6. OneSet'
    BY <2>2, OverSet
  <2> QED
    BY <2>2, <2>5, <2>6 DEF SerialState
<1>8. CASE Raises(t)
  <2>1. \A b \in Bids \ missed' : rows[b] # Absent => Kept(rows[b])
    BY <1>3, <1>4, <1>5 DEF Kept
  <2> QED
    BY <1>1, <1>2, <1>5, <1>8, <2>1, RaisesSerial
<1>7. CASE up
  <2>1. Becomes(t, Updated(task)) /\ UNCHANGED caches
    BY <1>7, UpdateIs
  <2> DEFINE to == Updated(task)
  <2>2. /\ to \in TaskShape
        /\ to.at \in {"delete maps", "delete set", "replace set"}
        /\ to.then = task.then /\ to.last = LastOf /\ to.md5s = Deleted(1)
        /\ to.at = IF Deleted(1) = {} THEN LastOf ELSE "delete maps"
    BY <1>2, <1>3, UpdatedTask
  <2> HIDE DEF to
  <2>3. OneTask' /\ Open' = {t} /\ tasks'[t] = to
    BY <1>2, <2>1, <2>2, OneTaskSteps, NotAbsent DEF to
  <2>4. Len(sets') = 1
    <3>1. CASE UNCHANGED objects
      BY <1>3, <3>1 DEF objects
    <3>2. CASE Put(sets', sets, 1, Left(1))
      BY <1>2, <1>3, <3>2 DEF Put, SetsSound
    <3> QED
      BY <1>3, <1>7, <3>1, <3>2, UpdateIs
  <2>5. OneSet'
    <3>1. beatmapset' = beatmapset
      BY <2>1 DEF caches
    <3>2. beatmapset = 0 => task.then = "cache"
      BY <1>2, <1>3 DEF OneSet
    <3>3. Placed(tasks[t])'
      BY <2>2, <2>3 DEF Placed, Lookups, Loads, LastOf
    <3>4. beatmapset' = 0 => \E u \in Open' : tasks'[u].at \in {"update"} \cup Saves /\ tasks'[u].then = "cache"
      BY <2>2, <2>3, <3>1, <3>2 DEF Saves
    <3> QED
      BY <2>3, <2>4, <3>3, <3>4 DEF OneSet
  <2>6. ASSUME NEW b \in Bids \ missed, rows[b] # Absent
        PROVE  RowSound(tasks[t], b)'
    <3>1. PICK i \in sets[1] : Row(maps[i]) = rows[b]
      BY <1>3, <1>4, <2>6
    <3>2. maps[i] \in MapObject(1)
      BY <1>2, <1>3, <3>1 DEF SetsSound
    <3>3. /\ rows[b].id = maps[i].id /\ rows[b].frozen = maps[i].frozen
          /\ rows[b].status = maps[i].status /\ Md5(rows[b]) = Md5(maps[i])
      BY <3>1, <3>2, RowOf
    <3>4. CASE InApi = {}
      <4>1. Deleted(1) = {Md5(maps[j]) : j \in sets[1]} /\ LastOf = "delete set"
        BY <3>4 DEF Deleted, LastOf
      <4>2. Md5(rows[b]) \in Deleted(1)
        BY <3>1, <3>3, <4>1
      <4>3. to.at = "delete maps" /\ to.last = "delete set" /\ Md5(rows[b]) \in to.md5s
        BY <2>2, <4>1, <4>2
      <4>4. Kept(rows[b])'
        BY <1>5, <1>7, <3>1, <3>4, UpdateIs DEF Kept, objects
      <4> QED
        BY <1>5, <2>3, <4>3, <4>4 DEF RowSound
    <3>5. CASE InApi # {}
      <4>1. Deleted(1) = {Md5(maps[j]) : j \in Gone(1)} /\ LastOf = "replace set"
        BY <3>5 DEF Deleted, LastOf
      <4>2. CASE i \in Gone(1)
        <5>1. Md5(rows[b]) \in Deleted(1)
          BY <3>3, <4>1, <4>2
        <5>2. to.at = "delete maps" /\ to.last = "replace set" /\ Md5(rows[b]) \in to.md5s
          BY <2>2, <4>1, <5>1
        <5> QED
          BY <1>5, <2>3, <5>2 DEF RowSound
      <4>3. CASE i \notin Gone(1)
        <5>1. maps' = Parsed(1) \o Make(Added(1)) /\ Put(sets', sets, 1, Left(1))
          BY <1>3, <1>7, <3>5, UpdateIs
        <5>2. /\ i \in sets'[1] /\ maps'[i].id = maps[i].id /\ maps'[i].frozen = maps[i].frozen
              /\ maps[i].frozen => maps'[i].status = maps[i].status
          BY <1>2, <1>3, <3>1, <4>3, <5>1, MapsStay
        <5>3. Replaced(rows[b])'
          BY <1>5, <3>3, <5>2 DEF Replaced
        <5>4. (to.at = "delete maps" /\ to.last = "replace set") \/ to.at = "replace set"
          BY <2>2, <4>1
        <5> QED
          BY <2>3, <5>3, <5>4 DEF RowSound
      <4> QED
        BY <4>2, <4>3
    <3> QED
      BY <3>4, <3>5
  <2>7. RowsSound'
    BY <1>2, <1>4, <1>5, <2>3, <2>6, RulingsAre, RowsAfter
  <2> QED
    BY <2>3, <2>5, <2>7 DEF SerialState
<1> QED
  BY <1>6, <1>7, <1>8, UpdateIs

\* A task that writes goes on to write.
LEMMA SavesOn ==
    ASSUME OneSet, NEW t \in Open, Open = {t}, Open' = {t}, UNCHANGED <<sets, beatmapset>>,
           tasks[t].at \in Saves, tasks'[t].at \in Saves, tasks'[t].then = tasks[t].then,
           tasks'[t].at = "save" => mapset' /\ Due(tasks[t])',
           tasks'[t].at \in {"replace set", "save"} => tasks'[t].last = "replace set" \/ beatmapset = 0
    PROVE  OneSet'
<1>1. Placed(tasks[t])'
  BY DEF Placed, Saves, Lookups, Loads
<1>2. sets' # <<>> /\ beatmapset' = 0 => tasks'[t].then = "cache"
  BY DEF OneSet
<1> QED
  BY <1>1, <1>2 DEF OneSet

LEMMA DeleteMapsSerial ==
    ASSUME BeatmapsIInv, SerialState, NEW t \in Tasks, DeleteMaps(t)
    PROVE  SerialState'
<1> DEFINE gone == {b \in Bids : rows[b] # Absent /\ Md5(rows[b]) \in tasks[t].md5s}
<1>1. /\ UNCHANGED <<external, objects, caches, control, mapset, missed>> /\ Is(t, "delete maps")
      /\ rows' = [b \in Bids |-> IF b \in gone THEN Absent ELSE rows[b]]
      /\ ruled' = [b \in Bids |-> IF b \in gone THEN "none" ELSE ruled[b]]
      /\ Goes(t, "delete scores")
  BY DEF DeleteMaps, Memory, Rest
<1>2. /\ t \in Open /\ Open = {t} /\ tasks[t].at = "delete maps" /\ TasksSound
      /\ SetsSound /\ TablesShape
      /\ OneTask /\ OneSet /\ RowsSound /\ TaskSound(tasks[t], Len(sets), Len(maps))
  BY <1>1, TheTask
<1>3. sets # <<>> /\ tasks[t].last \in {"delete set", "replace set"}
  <2>1. tasks[t].set \in 1..Len(sets) /\ tasks[t].last \in {"delete set", "replace set"}
    BY <1>2 DEF TaskSound, Saves
  <2> QED
    BY <1>2, <2>1, TheSet
<1>4. /\ Open' = {t} /\ OneTask' /\ tasks'[t].at = "delete scores"
      /\ tasks'[t].then = tasks[t].then /\ tasks'[t].last = tasks[t].last
  <2>1. "delete scores" \in Saves
    BY DEF Saves
  <2> QED
    BY <1>1, <1>2, <2>1, GoesIs
<1>5. OneSet'
  BY <1>1, <1>2, <1>4, SavesOn DEF objects, caches, Saves
<1>6. ASSUME NEW b \in Bids \ missed, rows'[b] # Absent
      PROVE  mapset /\ RowSound(tasks[t], b)'
  <2>1. rows'[b] = rows[b] /\ rows[b] # Absent /\ Md5(rows[b]) \notin tasks[t].md5s
    BY <1>1, <1>6
  <2>2. mapset /\ RowSound(tasks[t], b)
    BY <1>2, <1>3, <2>1, RowsAt
  <2>3. tasks[t].last = "replace set" /\ Replaced(rows[b])
    BY <1>2, <1>3, <2>1, <2>2 DEF RowSound
  <2>4. Replaced(rows[b])'
    BY <1>1, <2>1, <2>3 DEF Replaced, objects
  <2> QED
    BY <1>4, <2>2, <2>3, <2>4 DEF RowSound
<1>7. \A b \in Bids \ missed : ruled'[b] # "none" =>
         rows'[b] # Absent /\ rows'[b].frozen /\ rows'[b].status = ruled'[b]
  BY <1>1, <1>2, RulingsAre
<1>8. mapset' = mapset /\ missed' = missed
  BY <1>1
<1>9. RowsSound'
  BY <1>4, <1>6, <1>7, <1>8, RowsAfter
<1> QED
  BY <1>4, <1>5, <1>9 DEF SerialState

LEMMA DeleteScoresSerial ==
    ASSUME BeatmapsIInv, SerialState, NEW t \in Tasks, DeleteScores(t)
    PROVE  SerialState'
<1> DEFINE task == tasks[t]
           to == [task EXCEPT !.at = task.last, !.md5s = {}]
<1>1. /\ UNCHANGED <<external, objects, caches, control, rows, mapset, ruled, missed>>
      /\ Is(t, "delete scores") /\ Becomes(t, to)
  BY DEF DeleteScores, Memory, Rest
<1>2. /\ t \in Open /\ Open = {t} /\ tasks[t].at = "delete scores" /\ TasksSound /\ SetsSound
      /\ OneTask /\ OneSet /\ RowsSound /\ TaskSound(tasks[t], Len(sets), Len(maps))
  BY <1>1, TheTask
<1>3. sets # <<>> /\ task.last \in {"delete set", "replace set"} /\ task \in TaskShape
  <2>1. task.set \in 1..Len(sets) /\ task.last \in {"delete set", "replace set"} /\ task \in TaskShape
    BY <1>2 DEF TaskSound, Saves
  <2> QED
    BY <1>2, <2>1, TheSet
<1>4. /\ Open' = {t} /\ OneTask' /\ tasks'[t].at = task.last /\ tasks'[t].then = task.then
      /\ tasks'[t].last = task.last
  <2>1. to \in TaskShape /\ to.at = task.last /\ to.then = task.then /\ to.last = task.last
    <3> HIDE DEF task
    <3> QED
      BY <1>3 DEF TaskShape, Saves
  <2> HIDE DEF to
  <2> QED
    BY <1>1, <1>2, <2>1, OneTaskSteps, NotAbsent
<1>5. OneSet'
  BY <1>1, <1>2, <1>3, <1>4, SavesOn DEF objects, caches, Saves
<1>6. ASSUME NEW b \in Bids \ missed, rows[b] # Absent
      PROVE  mapset /\ RowSound(tasks[t], b)'
  <2>1. mapset /\ RowSound(tasks[t], b)
    BY <1>2, <1>3, <1>6, RowsAt
  <2>2. task.last = "replace set" /\ Replaced(rows[b])
    BY <1>2, <1>3, <2>1 DEF RowSound
  <2>3. Replaced(rows[b])'
    BY <1>1, <2>2 DEF Replaced, objects
  <2> QED
    BY <1>4, <2>1, <2>2, <2>3 DEF RowSound
<1>7. rows' = rows /\ mapset' = mapset /\ missed' = missed /\ ruled' = ruled
  BY <1>1
<1>8. RowsSound'
  BY <1>2, <1>4, <1>6, <1>7, RulingsAre, RowsAfter
<1> QED
  BY <1>4, <1>5, <1>8 DEF SerialState

LEMMA DeleteSetSerial ==
    ASSUME BeatmapsIInv, SerialState, NEW t \in Tasks, DeleteSet(t)
    PROVE  SerialState'
<1>1. /\ UNCHANGED <<external, objects, control, rows, scores, ruled, missed>>
      /\ Is(t, "delete set") /\ Finish(t)
  BY DEF DeleteSet, Rest
<1>2. /\ t \in Open /\ Open = {t} /\ tasks[t].at = "delete set" /\ TasksSound /\ SetsSound
      /\ OneTask /\ OneSet /\ RowsSound
  BY <1>1, TheTask
<1>3. OneTask' /\ Over(t) /\ Len(sets') = 1 /\ beatmapset' = 1 /\ sets # <<>>
  BY <1>1, <1>2, FinishIs DEF Saves
<1>4. \A b \in Bids \ missed : rows[b] = Absent
  BY <1>2, <1>3, RowsAt DEF RowSound
<1>5. \A b \in Bids \ missed : ruled[b] = "none"
  BY <1>2, <1>4, RulingsAre
<1>6. RowsSound'
  BY <1>1, <1>4, <1>5 DEF RowsSound
<1> QED
  BY <1>3, <1>6, OverSet DEF SerialState

LEMMA ReplaceSetSerial ==
    ASSUME BeatmapsIInv, SerialState, NEW t \in Tasks, ReplaceSet(t)
    PROVE  SerialState'
<1> DEFINE task == tasks[t]
           to == [task EXCEPT !.at = "save", !.saves = SavesOf(task.set)]
<1>1. /\ UNCHANGED <<external, objects, caches, control, rows, ruled, missed>> /\ mapset' = TRUE
      /\ Is(t, "replace set") /\ Becomes(t, to)
  BY ReplaceSetIs
<1>2. /\ t \in Open /\ Open = {t} /\ task.at = "replace set" /\ TasksSound /\ SetsSound /\ TablesShape
      /\ OneTask /\ OneSet /\ RowsSound /\ TaskSound(task, Len(sets), Len(maps)) /\ Placed(task)
  BY <1>1, TheTask
<1>3. sets # <<>> /\ task.set = 1 /\ 1 \in 1..Len(sets) /\ task \in TaskShape
  <2>1. task.set \in 1..Len(sets) /\ task \in TaskShape
    BY <1>2 DEF TaskSound, Saves
  <2> QED
    BY <1>2, <2>1, TheSet
<1>4. /\ DOMAIN SavesOf(1) = {maps[i].id : i \in sets[1]} /\ SavesOf(1) \in Writes
      /\ \A b \in DOMAIN SavesOf(1) :
           \E i \in sets[1] : maps[i].id = b /\ SavesOf(1)[b] = Row(maps[i])
  BY <1>2, <1>3, SavesAre
<1>5. /\ Open' = {t} /\ OneTask' /\ tasks'[t].at = "save" /\ tasks'[t].then = task.then
      /\ tasks'[t].saves = SavesOf(1) /\ tasks'[t].last = task.last
  <2> DEFINE saves == SavesOf(task.set)
  <2>1. saves = SavesOf(1) /\ saves \in Writes
    BY <1>3, <1>4
  <2> HIDE DEF task, saves
  <2>2. /\ to \in TaskShape /\ to.at = "save" /\ to.saves = saves /\ to.then = task.then
        /\ to.last = task.last
    BY <1>3, <2>1, SavingTask DEF saves
  <2> HIDE DEF to
  <2> QED
    BY <1>1, <1>2, <2>1, <2>2, OneTaskSteps, NotAbsent DEF task
<1>6. maps' = maps /\ sets' = sets /\ beatmapset' = beatmapset
  BY <1>1 DEF objects, caches
<1>7. OneSet'
  <2>1. Due(tasks[t])'
    BY <1>4, <1>5, <1>6 DEF Due
  <2>2. task.last = "replace set" \/ beatmapset = 0
    BY <1>2 DEF Placed
  <2> QED
    BY <1>1, <1>2, <1>5, <1>6, <2>1, <2>2, SavesOn DEF Saves
<1>8. ASSUME NEW b \in Bids \ missed, rows[b] # Absent
      PROVE  RowSound(tasks[t], b)'
  <2>1. RowSound(task, b)
    BY <1>2, <1>3, <1>8, RowsAt
  <2>2. Replaced(rows[b]) /\ rows[b].id = b
    BY <1>2, <1>8, <2>1 DEF RowSound, TablesShape, MapRow
  <2>3. b \in DOMAIN SavesOf(1)
    BY <1>4, <2>2 DEF Replaced
  <2>4. Replaced(rows[b])'
    BY <1>1, <1>6, <2>2 DEF Replaced
  <2> QED
    BY <1>5, <2>3, <2>4 DEF RowSound
<1>9. rows' = rows /\ mapset' /\ missed' = missed /\ ruled' = ruled
  BY <1>1
<1>10. RowsSound'
  BY <1>2, <1>5, <1>8, <1>9, RulingsAre, RowsAfter
<1> QED
  BY <1>5, <1>7, <1>10 DEF SerialState

\* A row becomes what its map in the set is.
LEMMA SaveMapSerial ==
    ASSUME BeatmapsIInv, SerialState, NEW t \in Tasks, NEW b \in Bids, SaveMap(t, b)
    PROVE  SerialState'
<1> DEFINE task == tasks[t]
           left == Unsaved(task.saves, b)
           to == [task EXCEPT !.saves = left]
<1>1. /\ UNCHANGED <<external, control, mapset, scores, objects, caches, ruled, missed>>
      /\ Is(t, "save") /\ b \in DOMAIN task.saves /\ Becomes(t, to)
      /\ rows' = [rows EXCEPT ![b] = task.saves[b]]
  BY SaveMapIs
<1>2. /\ t \in Open /\ Open = {t} /\ task.at = "save" /\ TasksSound /\ SetsSound /\ TablesShape
      /\ OneTask /\ OneSet /\ RowsSound /\ TaskSound(task, Len(sets), Len(maps)) /\ Placed(task)
  BY <1>1, TheTask
<1>3. sets # <<>> /\ Len(sets) = 1 /\ 1 \in 1..Len(sets) /\ mapset /\ task \in TaskShape /\ Due(task)
  <2>1. task.set \in 1..Len(sets) /\ task \in TaskShape
    BY <1>2 DEF TaskSound, Saves
  <2> QED
    BY <1>2, <2>1, TheSet DEF Placed
<1>4. /\ left \in Writes /\ DOMAIN left = DOMAIN task.saves \ {b}
      /\ \A c \in DOMAIN left : left[c] = task.saves[c]
  <2>1. DOMAIN task.saves \subseteq Bids /\ \A c \in DOMAIN task.saves : task.saves[c] \in MapRow(c)
    BY <1>2 DEF TaskSound
  <2> QED
    BY <2>1, UnsavedIs
<1>5. /\ Open' = {t} /\ OneTask' /\ tasks'[t].at = "save" /\ tasks'[t].then = task.then
      /\ tasks'[t].saves = left /\ tasks'[t].last = task.last
  <2> HIDE DEF left, task
  <2>1. /\ to \in TaskShape /\ to.at = "save" /\ to.saves = left /\ to.then = task.then
        /\ to.last = task.last
    BY <1>2, <1>3, <1>4, UnsavedTask
  <2> HIDE DEF to
  <2> QED
    BY <1>1, <1>2, <2>1, OneTaskSteps, NotAbsent DEF task
<1> HIDE DEF left
<1>6. maps' = maps /\ sets' = sets /\ beatmapset' = beatmapset /\ mapset' = mapset
  BY <1>1 DEF objects, caches
<1>7. OneSet'
  <2>1. Due(tasks[t])'
    BY <1>3, <1>4, <1>5, <1>6 DEF Due
  <2>2. task.last = "replace set" \/ beatmapset = 0
    BY <1>2 DEF Placed
  <2> QED
    BY <1>2, <1>3, <1>5, <1>6, <2>1, <2>2, SavesOn DEF Saves
<1>8. \A c \in Bids : rows[c] # Absent => rows[c].id = c
  BY <1>2 DEF TablesShape, MapRow
<1>9. \A c \in Bids : rows'[c] = IF c = b THEN task.saves[b] ELSE rows[c]
  BY <1>1, <1>2, RowsAre
<1>10. PICK j \in sets[1] : maps[j].id = b /\ task.saves[b] = Row(maps[j])
  BY <1>1, <1>3 DEF Due
<1>11. ASSUME NEW c \in Bids \ missed', rows'[c] # Absent
       PROVE  mapset' /\ RowSound(tasks[t], c)'
  <2>1. CASE c = b
    <3>1. c \notin DOMAIN left /\ Kept(rows[c])'
      BY <1>4, <1>6, <1>9, <1>10, <2>1 DEF Kept
    <3> QED
      BY <1>3, <1>5, <1>6, <3>1 DEF RowSound
  <2>2. CASE c # b
    <3>1. rows'[c] = rows[c] /\ c \notin missed
      BY <1>1, <1>9, <2>2
    <3>2. IF c \in DOMAIN task.saves THEN Replaced(rows[c]) ELSE Kept(rows[c])
      BY <1>2, <1>3, <1>11, <3>1, RowsAt DEF RowSound
    <3>3. IF c \in DOMAIN left THEN Replaced(rows[c])' ELSE Kept(rows[c])'
      BY <1>4, <1>6, <2>2, <3>1, <3>2 DEF Replaced, Kept
    <3> QED
      BY <1>3, <1>5, <1>6, <3>3 DEF RowSound
  <2> QED
    BY <2>1, <2>2
<1>12. ASSUME NEW c \in Bids \ missed', ruled'[c] # "none"
       PROVE  rows'[c] # Absent /\ rows'[c].frozen /\ rows'[c].status = ruled'[c]
  <2>1. rows[c] # Absent /\ rows[c].frozen /\ rows[c].status = ruled'[c] /\ c \notin missed
    BY <1>1, <1>2, <1>12, RulingsAre
  <2>2. CASE c = b
    <3>1. RowSound(task, b)
      BY <1>2, <1>3, <2>1, <2>2, RowsAt
    <3>2. Replaced(rows[b])
      BY <1>1, <1>2, <3>1 DEF RowSound
    <3>3. PICK i \in sets[1] : maps[i].id = b /\ maps[i].frozen /\ maps[i].status = rows[b].status
      BY <1>8, <2>1, <2>2, <3>2 DEF Replaced
    <3>4. i = j
      BY <1>2, <1>3, <1>10, <3>3 DEF SetsSound
    <3>5. maps[j] \in MapObject(1)
      BY <1>2, <1>3, <1>10 DEF SetsSound
    <3>6. /\ Row(maps[j]) # Absent /\ Row(maps[j]).frozen = maps[j].frozen
          /\ Row(maps[j]).status = maps[j].status
      BY <3>5, RowOf
    <3> QED
      BY <1>9, <1>10, <2>1, <2>2, <3>3, <3>4, <3>6
  <2>3. CASE c # b
    BY <1>9, <2>1, <2>3
  <2> QED
    BY <2>2, <2>3
<1>13. RowsSound'
  BY <1>5, <1>11, <1>12, RowsAfter
<1> QED
  BY <1>5, <1>7, <1>13 DEF SerialState

\* Every row has been written.
LEMMA SavedSerial ==
    ASSUME BeatmapsIInv, SerialState, NEW t \in Tasks, Saved(t)
    PROVE  SerialState'
<1>1. /\ UNCHANGED <<external, control, tables, objects, ruled, missed>>
      /\ Is(t, "save") /\ Finish(t) /\ DOMAIN tasks[t].saves = {}
  BY DEF Saved, Tables, Rest
<1>2. /\ t \in Open /\ Open = {t} /\ tasks[t].at = "save" /\ OneTask /\ OneSet /\ RowsSound
  BY <1>1, TheTask
<1>3. OneTask' /\ Over(t) /\ Len(sets') = 1 /\ beatmapset' = 1 /\ sets # <<>>
  BY <1>1, <1>2, FinishIs DEF Saves
<1>4. \A b \in Bids \ missed : rows[b] # Absent => mapset /\ Kept(rows[b])
  BY <1>1, <1>2, <1>3, RowsAt DEF RowSound
<1>5. /\ rows' = rows /\ mapset' = mapset /\ maps' = maps /\ sets' = sets
      /\ ruled' = ruled /\ missed' = missed
  BY <1>1 DEF tables, objects
<1>6. Open' \subseteq {t} /\ (t \in Open' => tasks'[t].at \notin Saves \cup {"commit"})
  BY <1>3 DEF Over, Saves
<1>7. RowsSound'
  BY <1>2, <1>4, <1>5, <1>6, RulingsAre, AllKept DEF Kept
<1> QED
  BY <1>3, <1>7, OverSet DEF SerialState

\* The objects in the set are changed as the rows will be.
LEMMA WriteStatusSerial ==
    ASSUME BeatmapsIInv, SerialState, NEW t \in Tasks, WriteStatus(t)
    PROVE  SerialState'
<1> DEFINE task == tasks[t]
           np == maps[task.np]
           ids == Chosen(task)
           touched == Touched(task)
           to == [task EXCEPT !.at = "commit", !.ids = ids]
<1>1. /\ Is(t, "write") /\ Becomes(t, to)
      /\ maps' = [i \in DOMAIN maps |-> IF i \in touched THEN Ruled(maps[i], task.status) ELSE maps[i]]
      /\ missed' = missed \cup (ids \ {maps[i].id : i \in touched \cap sets[beatmapset]})
      /\ UNCHANGED <<external, tables, control, sets, caches, forgotten, ruled>>
  BY WriteIs
<1>2. /\ t \in Open /\ Open = {t} /\ task.at = "write" /\ TasksSound /\ SetsSound /\ TablesShape
      /\ CachesSound /\ OneTask /\ OneSet /\ RowsSound /\ TaskSound(task, Len(sets), Len(maps))
      /\ Placed(task)
  BY <1>1, TheTask
<1>3. /\ task.do \in {"map", "set"} /\ task.np \in 1..Len(maps) /\ task.status \in Statuses
      /\ task \in TaskShape /\ beatmapset = 1 /\ ids \in SUBSET Bids
  BY <1>2, ChosenAreMaps DEF TaskSound, Placed
<1>4. Len(sets) = 1 /\ sets # <<>> /\ 1 \in 1..Len(sets)
  <2>1. beatmapset \in 0..Len(sets) /\ Len(sets) \in Nat
    BY <1>2, Lengths DEF CachesSound
  <2>2. beatmapset \in 1..Len(sets)
    BY <1>3, <2>1
  <2> QED
    BY <1>2, <1>3, <2>2, TheSet
<1>5. np \in MapObject(1) /\ np.set = 1 /\ Md5(np) \in Keys /\ Md5(np)[1] = np.id
  <2>1. np \in MapObject(1)
    BY <1>2, <1>3, <1>4 DEF SetsSound
  <2> HIDE DEF np
  <2>2. np.set = 1
    BY <2>1 DEF MapObject
  <2>3. Md5(np) \in Keys /\ Md5(np)[1] = np.id
    BY <2>1 DEF MapObject, Md5, Keys
  <2> QED
    BY <2>1, <2>2, <2>3
<1>6. /\ OneTask' /\ Open' = {t} /\ tasks'[t].at = "commit" /\ tasks'[t].ids = ids
      /\ tasks'[t].status = task.status
  <2>1. to \in TaskShape /\ to.at = "commit" /\ to.ids = ids /\ to.status = task.status
    <3> HIDE DEF task, ids
    <3> QED
      BY <1>3 DEF TaskShape
  <2> HIDE DEF to
  <2> QED
    BY <1>1, <1>2, <2>1, OneTaskSteps, NotAbsent
<1>7. OneSet'
  <2>1. beatmapset' = 1 /\ Len(sets') <= 1
    BY <1>1, <1>3, <1>4 DEF caches
  <2>2. Placed(tasks[t])'
    BY <1>6, <2>1 DEF Placed, Lookups, Loads
  <2> QED
    BY <1>6, <2>1, <2>2 DEF OneSet
<1>8. \A b \in Bids \ missed : rows[b] # Absent =>
        mapset /\ (sets # <<>> => \E i \in sets[1] : Row(maps[i]) = rows[b])
  BY <1>2, RowsKept DEF Saves
<1>9. rows' = rows /\ mapset' = mapset /\ ruled' = ruled /\ sets' = sets /\ missed \subseteq missed'
  BY <1>1 DEF tables
<1>10. \A i \in sets[1] : i \in 1..Len(maps) /\ i \in DOMAIN maps /\ maps[i] \in MapObject(1)
  BY <1>2, <1>4 DEF SetsSound
<1>11. ASSUME NEW b \in Bids \ missed', rows[b] # Absent
       PROVE  RowSound(tasks[t], b)'
  <2>1. PICK i \in sets[1] : Row(maps[i]) = rows[b]
    BY <1>4, <1>8, <1>9, <1>11
  <2>2. maps[i].id = b /\ maps[i] \in MapObject(1) /\ i \in DOMAIN maps
    <3>1. rows[b].id = b
      BY <1>2, <1>11 DEF TablesShape, MapRow
    <3> QED
      BY <1>10, <2>1, <3>1, RowOf
  <2>3. CASE b \in ids
    <3>1. PICK j \in touched \cap sets[1] : maps[j].id = b
      BY <1>1, <1>3, <1>11, <2>3
    <3>2. i = j
      BY <1>2, <1>4, <2>1, <2>2, <3>1 DEF SetsSound
    <3>3. maps'[i] = Ruled(maps[i], task.status)
      BY <1>1, <2>2, <3>1, <3>2
    <3>4. Row(maps'[i]) = RuledRow(rows[b], task.status)
      BY <1>3, <2>1, <2>2, <3>3, RuledMap
    <3>5. i \in sets'[1] /\ rows'[b] = rows[b] /\ b \in tasks'[t].ids /\ tasks'[t].status = task.status
      BY <1>6, <1>9, <2>1, <2>3
    <3>6. Kept(IF b \in tasks[t].ids THEN RuledRow(rows[b], tasks[t].status) ELSE rows[b])'
      BY <3>4, <3>5 DEF Kept
    <3> QED
      BY <1>6, <3>6 DEF RowSound
  <2>4. CASE b \notin ids
    <3>1. i \notin touched
      <4>1. CASE task.do = "map"
        <5>1. touched = {beatmap[Md5(np)]} /\ np.id \in ids
          BY <4>1 DEF Touched, Chosen
        <5>2. i # 0
          BY <1>10, <2>1
        <5>3. i = beatmap[Md5(np)] => maps[i].id = np.id
          BY <1>2, <1>5, <5>2 DEF CachesSound
        <5> QED
          BY <2>2, <2>4, <5>1, <5>3
      <4>2. CASE task.do = "set"
        <5>1. ids = {m.id : m \in MapsOf(1)}
          BY <1>5, <4>2 DEF Chosen
        <5>2. b \in ids
          BY <2>1, <2>2, <5>1 DEF MapsOf
        <5> QED
          BY <2>4, <5>2
      <4> QED
        BY <1>3, <4>1, <4>2
    <3>2. maps'[i] = maps[i]
      BY <1>1, <2>2, <3>1
    <3>3. Row(maps'[i]) = rows'[b] /\ i \in sets'[1] /\ b \notin tasks'[t].ids
      BY <1>6, <1>9, <2>1, <2>4, <3>2
    <3>4. Kept(IF b \in tasks[t].ids THEN RuledRow(rows[b], tasks[t].status) ELSE rows[b])'
      BY <3>3 DEF Kept
    <3> QED
      BY <1>6, <3>4 DEF RowSound
  <2> QED
    BY <2>3, <2>4
<1>12. \A b \in Bids \ missed' : rows'[b] # Absent => mapset' /\ RowSound(tasks[t], b)'
  BY <1>8, <1>9, <1>11
<1>13. \A b \in Bids \ missed' : ruled'[b] # "none" =>
             rows'[b] # Absent /\ rows'[b].frozen /\ rows'[b].status = ruled'[b]
  BY <1>2, <1>9, RulingsAre
<1>14. RowsSound'
  BY <1>6, <1>12, <1>13, RowsAfter
<1> QED
  BY <1>6, <1>7, <1>14 DEF SerialState

LEMMA CommitStatusSerial ==
    ASSUME BeatmapsIInv, SerialState, NEW t \in Tasks, CommitStatus(t)
    PROVE  SerialState'
<1> DEFINE task == tasks[t]
           hit == {b \in task.ids : rows[b] # Absent}
<1>1. /\ Is(t, "commit") /\ Becomes(t, Absent)
      /\ UNCHANGED <<external, control, missed, objects, caches, mapset, scores>>
      /\ rows' = [b \in Bids |-> IF b \in hit THEN RuledRow(rows[b], task.status) ELSE rows[b]]
      /\ ruled' = [b \in Bids |-> IF b \in hit THEN task.status ELSE ruled[b]]
  BY DEF CommitStatus, Memory, Rest, RuledRow
<1>2. /\ t \in Open /\ Open = {t} /\ task.at = "commit" /\ TasksSound /\ SetsSound /\ TablesShape
      /\ CachesSound /\ OneTask /\ OneSet /\ RowsSound /\ TaskSound(task, Len(sets), Len(maps))
      /\ Placed(task)
  BY <1>1, TheTask
<1>3. task.status \in Statuses /\ beatmapset = 1
  BY <1>2 DEF TaskSound, Placed
<1>4. Len(sets) = 1 /\ sets # <<>>
  <2>1. beatmapset \in 0..Len(sets) /\ Len(sets) \in Nat
    BY <1>2, Lengths DEF CachesSound
  <2>2. beatmapset \in 1..Len(sets)
    BY <1>3, <2>1
  <2> QED
    BY <1>2, <1>3, <2>2, TheSet
<1>5. Open' = {} /\ OneTask'
  BY <1>1, <1>2, OneTaskSteps
<1>6. maps' = maps /\ sets' = sets /\ beatmapset' = 1 /\ mapset' = mapset /\ missed' = missed
  BY <1>1, <1>3 DEF objects, caches
<1>7. OneSet'
  <2>1. Over(t) /\ Len(sets') = 1
    BY <1>4, <1>5, <1>6 DEF Over
  <2> QED
    BY <1>6, <2>1, OverSet
<1>8. \A b \in Bids : rows[b] = Absent \/ rows[b] \in MapRow(b)
  BY <1>2, RowsAre
<1>9. ASSUME NEW b \in Bids \ missed', rows'[b] # Absent
      PROVE  mapset' /\ \E i \in sets'[1] : Row(maps'[i]) = rows'[b]
  <2>1. rows[b] # Absent
    BY <1>1, <1>9
  <2>2. mapset /\ RowSound(task, b)
    BY <1>2, <1>4, <1>6, <2>1, RowsAt
  <2>3. Kept(IF b \in task.ids THEN RuledRow(rows[b], task.status) ELSE rows[b])
    BY <1>2, <2>2 DEF RowSound
  <2>4. rows'[b] = IF b \in task.ids THEN RuledRow(rows[b], task.status) ELSE rows[b]
    BY <1>1, <2>1
  <2> QED
    BY <1>6, <2>2, <2>3, <2>4 DEF Kept
<1>10. ASSUME NEW b \in Bids \ missed', ruled'[b] # "none"
       PROVE  rows'[b] # Absent /\ rows'[b].frozen /\ rows'[b].status = ruled'[b]
  <2>1. CASE b \in hit
    <3>1. rows[b] \in MapRow(b) /\ rows'[b] = RuledRow(rows[b], task.status) /\ ruled'[b] = task.status
      BY <1>1, <1>8, <2>1
    <3>2. IsRuling(RuledRow(rows[b], task.status), task.status)
      BY <1>3, <3>1, RulingIs, Zenon
    <3> QED
      BY <3>1, <3>2 DEF IsRuling
  <2>2. CASE b \notin hit
    BY <1>1, <1>2, <1>6, <1>10, <2>2, RulingsAre
  <2> QED
    BY <2>1, <2>2
<1>11. RowsSound'
  BY <1>5, <1>9, <1>10, AllKept
<1> QED
  BY <1>5, <1>7, <1>11 DEF SerialState

\* A query fails: what was changed in the set, and not in the table, is missed.
LEMMA DatabaseFailsSerial ==
    ASSUME BeatmapsIInv, SerialState, NEW t \in Tasks, DatabaseFails(t)
    PROVE  SerialState'
<1> DEFINE task == tasks[t]
<1>1. /\ t \in Open /\ task.at \in Queries /\ missed' = missed \cup Unwritten(t) /\ Raises(t)
      /\ UNCHANGED <<tables, ruled>>
  BY DEF DatabaseFails, Tables
<1>2. Is(t, task.at)
  BY <1>1 DEF Is, Open
<1>3. /\ Open = {t} /\ TasksSound /\ SetsSound /\ TablesShape /\ CachesSound
      /\ OneTask /\ OneSet /\ RowsSound /\ TaskSound(task, Len(sets), Len(maps)) /\ Placed(task)
  BY <1>2, TheTask
<1>4. ASSUME NEW b \in Bids \ missed', rows[b] # Absent, beatmapset # 0
      PROVE  Kept(rows[b])
  <2>1. b \notin missed /\ b \notin Unwritten(t) /\ rows[b].id = b
    BY <1>1, <1>3, <1>4 DEF TablesShape, MapRow
  <2>2. beatmapset = 1 /\ sets # <<>>
    <3>1. beatmapset \in 1..Len(sets)
      <4>1. beatmapset \in 0..Len(sets) /\ Len(sets) \in Nat
        BY <1>3, Lengths DEF CachesSound
      <4> QED
        BY <1>4, <4>1
    <3> QED
      BY <1>3, <3>1, TheSet
  <2>3. RowSound(task, b)
    BY <1>1, <1>3, <1>4, <2>1, <2>2, RowsAt
  <2>4. CASE task.at \notin Saves \cup {"commit"}
    BY <2>3, <2>4 DEF RowSound, Saves
  <2>5. CASE task.at = "commit"
    <3>1. Unwritten(t) = task.ids \cup (IF task.do = "set" THEN CachedIds ELSE {})
      BY <2>5 DEF Unwritten
    <3>3. b \notin task.ids
      BY <2>1, <3>1
    <3> QED
      BY <2>3, <2>5, <3>3 DEF RowSound
  <2>6. CASE task.at = "save" /\ b \notin DOMAIN task.saves
    BY <2>3, <2>6 DEF RowSound
  <2>7. CASE /\ task.at \in Saves /\ ~(task.at = "save" /\ b \notin DOMAIN task.saves)
    <3>1. CASE task.last # "replace set"
      <4>1. task.at \in {"delete maps", "delete scores"} => task.last = "delete set"
        BY <1>3, <3>1 DEF TaskSound
      <4>2. task.at \notin {"replace set", "save"}
        BY <1>3, <1>4, <3>1 DEF Placed
      <4> QED
        BY <2>3, <2>7, <4>1, <4>2 DEF RowSound, Saves
    <3>2. CASE task.last = "replace set"
      <4>1. task.set = 1
        <5>1. task.set \in 1..Len(sets)
          BY <1>3, <2>7 DEF TaskSound
        <5> QED
          BY <1>3, <5>1, TheSet
      <4>2. b \in IF task.at = "save" THEN DOMAIN task.saves ELSE CachedIds \cup {md5[1] : md5 \in task.md5s}
        <5>1. CASE task.at = "save"
          BY <2>7, <5>1
        <5>2. CASE task.at = "delete set"
          BY <2>3, <5>2 DEF RowSound
        <5>3. CASE task.at \in {"delete maps", "delete scores", "replace set"}
          <6>1. CASE Replaced(rows[b])
            <7>1. PICK i \in sets[1] : maps[i].id = b
              BY <2>1, <6>1 DEF Replaced
            <7>2. b \in CachedIds
              BY <2>2, <7>1 DEF CachedIds, MapsOf
            <7> QED
              BY <5>3, <7>2
          <6>2. CASE Md5(rows[b]) \in task.md5s
            <7>1. Md5(rows[b])[1] = b
              BY <2>1 DEF Md5
            <7> QED
              BY <5>3, <6>2, <7>1
          <6> QED
            BY <2>3, <3>2, <5>3, <6>1, <6>2 DEF RowSound
        <5> QED
          BY <2>7, <5>1, <5>2, <5>3 DEF Saves
      <4>3. b \in Unwritten(t)
        BY <1>4, <2>2, <2>7, <3>2, <4>1, <4>2 DEF Unwritten, Saves
      <4> QED
        BY <2>1, <4>3
    <3> QED
      BY <3>1, <3>2
  <2> QED
    BY <2>4, <2>5, <2>6, <2>7
<1> QED
  BY <1>1, <1>4, RaisesSerial

\* The api and the scores are no part of it.
LEMMA NothingSerial ==
    ASSUME SerialState, UNCHANGED <<rows, mapset, objects, beatmapset, tasks, ruled, missed>>
    PROVE  SerialState'
<1>1. Open' = Open /\ tasks' = tasks
  BY DEF Open
<1>2. OneTask'
  BY <1>1 DEF SerialState, OneTask
<1>3. OneSet'
  <2>1. maps' = maps /\ sets' = sets /\ mapset' = mapset /\ beatmapset' = beatmapset
    BY DEF objects
  <2>2. ASSUME NEW t \in Open, Due(tasks[t]) PROVE Due(tasks[t])'
    BY <1>1, <2>1, <2>2 DEF Due
  <2>3. ASSUME NEW t \in Open, Placed(tasks[t]) PROVE Placed(tasks[t])'
    <3>1. tasks'[t] = tasks[t]
      BY <1>1
    <3>2. tasks[t].at = "save" => Due(tasks[t])'
      BY <2>2, <2>3 DEF Placed
    <3>3. /\ tasks[t].at \in Loads => sets' = <<>>
          /\ tasks[t].at \in {"ask set", "frozen"} => ~mapset'
          /\ tasks[t].at = "save" => mapset'
          /\ tasks[t].at \in {"replace set", "save"} => tasks[t].last = "replace set" \/ beatmapset' = 0
          /\ tasks[t].at \in {"write", "commit"} => beatmapset' = 1
          /\ tasks[t].at \in Loads \cup (Lookups \ {"filename"}) => tasks[t].then = "cache"
      <4>0. mapset' <=> mapset
        BY <2>1
      <4>1. tasks[t].at \in Loads => sets' = <<>>
        BY <2>1, <2>3, Zenon DEF Placed
      <4>2. tasks[t].at \in {"ask set", "frozen"} => ~mapset'
        BY <4>0, <2>3, Zenon DEF Placed
      <4>3. tasks[t].at = "save" => mapset'
        BY <4>0, <2>3, Zenon DEF Placed
      <4>4. tasks[t].at \in {"replace set", "save"} => tasks[t].last = "replace set" \/ beatmapset' = 0
        BY <2>1, <2>3, Zenon DEF Placed
      <4>5. tasks[t].at \in {"write", "commit"} => beatmapset' = 1
        BY <2>1, <2>3, Zenon DEF Placed
      <4>6. tasks[t].at \in Loads \cup (Lookups \ {"filename"}) => tasks[t].then = "cache"
        BY <2>3, Zenon DEF Placed
      <4> QED
        BY <4>1, <4>2, <4>3, <4>4, <4>5, <4>6
    <3> QED
      BY <3>1, <3>2, <3>3, Zenon DEF Placed
  <2> QED
    BY <1>1, <2>1, <2>3 DEF SerialState, OneSet
<1>4. /\ rows' = rows /\ mapset' = mapset /\ ruled' = ruled /\ missed' = missed
      /\ maps' = maps /\ sets' = sets
  BY DEF objects
<1>5. \A b \in Bids : /\ Kept(rows[b])' = Kept(rows[b])
                     /\ \A t \in Open : RowSound(tasks[t], b)' = RowSound(tasks[t], b)
  BY <1>1, <1>4 DEF RowSound, Kept, Replaced
<1>6. RowsSound'
  BY <1>1, <1>4, <1>5 DEF SerialState, RowsSound
<1> QED
  BY <1>2, <1>3, <1>6 DEF SerialState

LEMMA RestartSerial ==
    ASSUME BeatmapsIInv, SerialState, Restart
    PROVE  SerialState'
<1>1. /\ sets' = <<>> /\ UNCHANGED <<rows, mapset, ruled, missed>>
  BY DEF Restart, tables
<1>2. Open' = {} /\ Len(sets') = 0
  BY RestartKeeps
<1>3. OneTask' /\ OneSet'
  BY <1>1, <1>2 DEF OneTask, OneSet
<1>4. RowsSound'
  BY <1>1, <1>2 DEF SerialState, RowsSound
<1> QED
  BY <1>3, <1>4 DEF SerialState

LEMMA HandleSerial ==
    ASSUME BeatmapsIInv, SerialInv, NEW t \in Tasks, Handle(t)
    PROVE  SerialInv'
<1>1. ASSUME NEW task, Begin(t, task),
             (task.at = "cached" /\ task.then = "cache") \/ (task.at = "write" /\ sets # <<>>)
      PROVE  SerialInv'
  <2>1. ~overlap' => ~overlap
    BY <1>1 DEF Begin
  <2> QED
    BY <1>1, <2>1, BeginSerial DEF SerialInv
<1>2. ASSUME overlap' = overlap, SerialState => SerialState'
      PROVE  SerialInv'
  BY <1>2 DEF SerialInv
<1>3. CASE \E md5 \in Md5s, claim \in BOOLEAN :
             FromMd5(t, md5, claim) \/ FetchLeaderboard(t, md5, claim)
  <2>1. PICK task : Begin(t, task) /\ task.at = "cached" /\ task.then = "cache"
    <3>1. PICK md5 \in Md5s, claim \in BOOLEAN :
             FromMd5(t, md5, claim) \/ FetchLeaderboard(t, md5, claim)
      BY <1>3
    <3>2. md5[1] \in Bids
      BY KeyOfMd5
    <3> QED
      BY <3>1, <3>2, RequestsKeep
  <2> QED
    BY <1>1, <2>1
<1>4. CASE \E bid \in Bids : FromBid(t, bid)
  <2>1. PICK task : Begin(t, task) /\ task.at = "cached" /\ task.then = "cache"
    <3>1. PICK bid \in Bids : FromBid(t, bid)
      BY <1>4
    <3>2. <<bid, 1>> \in Md5s /\ TRUE \in BOOLEAN
      BY BeatmapsAssumption DEF Md5s
    <3> QED
      BY <3>1, <3>2, RequestsKeep, Zenon
  <2> QED
    BY <1>1, <2>1
<1>5. CASE \E np \in ShownMaps, scope \in {"map", "set"}, s \in Statuses : MapCommand(t, np, scope, s)
  <2>1. PICK np \in ShownMaps, scope \in {"map", "set"}, s \in Statuses : MapCommand(t, np, scope, s)
    BY <1>5
  <2>2. PICK task : Begin(t, task) /\ task.at = "write"
    BY <2>1, MapCommandKeeps
  <2>3. sets # <<>>
    <3>1. np \in 1..Len(maps)
      <4>1. \A b \in Bids : beatmap[ById(b)] \in 0..Len(maps)
        BY KeyOfMd5 DEF BeatmapsIInv, CachesSound
      <4>2. Len(maps) \in Nat
        BY Lengths DEF BeatmapsIInv
      <4> QED
        BY <4>1, <4>2 DEF ShownMaps
    <3>2. maps[np] \in MapObject(Len(sets))
      BY <3>1 DEF BeatmapsIInv, SetsSound
    <3>3. maps[np].set \in 1..Len(sets)
      BY <3>2 DEF MapObject
    <3>4. Len(<<>>) = 0
      OBVIOUS
    <3> QED
      BY <3>3, <3>4
  <2> QED
    BY <1>1, <2>2, <2>3
<1>6. CASE LookInCache(t) \/ LookInTable(t) \/ AskForMap(t) \/ LookForFilename(t) \/ TakeSet(t)
  <2>1. overlap' = overlap
    BY <1>6 DEF LookInCache, LookInTable, AskForMap, LookForFilename, TakeSet, Rest, control
  <2> QED
    BY <1>2, <1>6, <2>1, LookInCacheSerial, LookInTableSerial, AskForMapSerial,
       LookForFilenameSerial, TakeSetSerial
<1>7. CASE LookForSet(t) \/ LoadRows(t) \/ AskForSet(t) \/ MakeFromApi(t) \/ Update(t)
  <2>1. overlap' = overlap
    BY <1>7 DEF LookForSet, LoadRows, AskForSet, MakeFromApi, Update, Rest, control
  <2> QED
    BY <1>2, <1>7, <2>1, LookForSetSerial, LoadRowsSerial, AskForSetSerial, MakeFromApiSerial, UpdateSerial
<1>8. CASE DeleteMaps(t) \/ DeleteScores(t) \/ DeleteSet(t) \/ ReplaceSet(t) \/ Saved(t)
             \/ \E b \in Bids : SaveMap(t, b)
  <2>1. overlap' = overlap
    BY <1>8 DEF DeleteMaps, DeleteScores, DeleteSet, ReplaceSet, SaveMap, Saved, Rest, control
  <2> QED
    BY <1>2, <1>8, <2>1, DeleteMapsSerial, DeleteScoresSerial, DeleteSetSerial, ReplaceSetSerial,
       SaveMapSerial, SavedSerial
<1>9. CASE WriteStatus(t) \/ CommitStatus(t) \/ DatabaseFails(t)
  <2>1. overlap' = overlap
    BY <1>9 DEF WriteStatus, CommitStatus, DatabaseFails, Rest, control
  <2> QED
    BY <1>2, <1>9, <2>1, WriteStatusSerial, CommitStatusSerial, DatabaseFailsSerial
<1> QED
  BY <1>3, <1>4, <1>5, <1>6, <1>7, <1>8, <1>9 DEF Handle, ShownMaps

LEMMA SerialInvStep == BeatmapsIInv /\ SerialInv /\ [BeatmapsNext]_beatmapsVars => SerialInv'
<1> SUFFICES ASSUME BeatmapsIInv, SerialInv, [BeatmapsNext]_beatmapsVars PROVE SerialInv'
  OBVIOUS
<1>1. CASE \/ \E b \in Bids : ApiChanges(b) \/ ScoreStored(b)
           \/ ApiUpDown \/ UNCHANGED beatmapsVars
  <2>1. UNCHANGED <<rows, mapset, objects, beatmapset, tasks, ruled, missed, overlap>>
    BY <1>1 DEF ApiChanges, ScoreStored, ApiUpDown, Outside, beatmapsVars, tables, objects, caches, control
  <2> QED
    BY <2>1, NothingSerial DEF SerialInv
<1>2. CASE Restart
  <2>1. overlap' = overlap
    BY <1>2 DEF Restart, control
  <2> QED
    BY <1>2, <2>1, RestartSerial DEF SerialInv
<1>3. CASE \E t \in Tasks : Handle(t)
  BY <1>3, HandleSerial
<1> QED
  BY <1>1, <1>2, <1>3 DEF BeatmapsNext

LEMMA SerialInvInit == BeatmapsInit => SerialInv
<1> SUFFICES ASSUME BeatmapsInit PROVE SerialState
  BY DEF SerialInv
<1>1. /\ sets = <<>> /\ rows = [b \in Bids |-> Absent] /\ ruled = [b \in Bids |-> "none"]
  BY DEF BeatmapsInit
<1>2. Open = {} /\ Len(sets) = 0
  BY BeatmapsIInvInit
<1>3. OneTask /\ OneSet
  BY <1>1, <1>2 DEF OneTask, OneSet
<1>4. RowsSound
  BY <1>1 DEF RowsSound
<1> QED
  BY <1>3, <1>4 DEF SerialState

LEMMA SerialAgrees == BeatmapsIInv /\ SerialInv => SerialMapsAgree
<1> SUFFICES ASSUME BeatmapsIInv, SerialInv, ~overlap, Open = {},
                    NEW b \in Bids \ missed, rows[b] # Absent
             PROVE  /\ beatmapset # 0 => \E i \in sets[beatmapset] : Row(maps[i]) = rows[b]
                    /\ ruled[b] # "none" => rows[b].status = ruled[b]
  BY DEF SerialMapsAgree
<1>1. SerialState
  BY DEF SerialInv
<1>2. ruled[b] # "none" => rows[b].status = ruled[b]
  BY <1>1, RulingsAre DEF SerialState
<1>3. ASSUME beatmapset # 0 PROVE \E i \in sets[beatmapset] : Row(maps[i]) = rows[b]
  <2>1. beatmapset \in 0..Len(sets) /\ Len(sets) \in Nat
    BY Lengths DEF BeatmapsIInv, CachesSound
  <2>2. beatmapset \in 1..Len(sets)
    BY <1>3, <2>1
  <2>3. beatmapset = 1 /\ sets # <<>>
    BY <1>1, <2>2, TheSet DEF BeatmapsIInv, SerialState
  <2> QED
    BY <1>1, <2>3, RowsKept DEF SerialState
<1> QED
  BY <1>2, <1>3

\* While no two tasks overlapped, between tasks every row of a map is what the cached set
\* has of it and keeps the status that !map gave it, except for the missed maps: those that
\* a !map did not reach, and those whose write a database error, or the rollback of a !map,
\* kept from the table; however often the api changed, failed or came back, and whenever
\* the server restarted.
THEOREM MapsAgree == BeatmapsSpec => []SerialMapsAgree
<1>1. BeatmapsSpec => []SerialInv
  BY BeatmapsIInvHolds, SerialInvInit, SerialInvStep, PTL DEF BeatmapsSpec
<1> QED
  BY <1>1, BeatmapsIInvHolds, SerialAgrees, PTL

-----------------------------------------------------------------------------
(***************************************************************************)
(* The parts together: they share no state, so that what is proved of each *)
(* is true of a behaviour that is about any of them.                       *)
(***************************************************************************)

\* A behaviour of the parts together is one of every part: the parts that it is not
\* about stay as they are at first.
THEOREM PlayImplements ==
    Spec => ChannelsSpec /\ ScrimSpec /\ SettingsSpec /\ WireSpec /\ BeatmapsSpec
<1>1. Init => ChannelsInit /\ ScrimInit /\ SettingsInit /\ WireInit /\ BeatmapsInit
  BY Zenon DEF Init
<1>2. [Next]_<<subject, channelsVars, scrimVars, settingsVars, wireVars, beatmapsVars>> =>
        /\ [ChannelsNext]_channelsVars /\ [ScrimNext]_scrimVars /\ [SettingsNext]_settingsVars
        /\ [WireNext]_wireVars /\ [BeatmapsNext]_beatmapsVars
  BY Zenon DEF Next
<1> QED
  BY <1>1, <1>2, PTL DEF Spec, ChannelsSpec, ScrimSpec, SettingsSpec, WireSpec, BeatmapsSpec

\* Every part keeps the types of its state.
THEOREM PlayTypes == Spec => []TypeOK
<1>1. Spec => [](subject \in {"channels", "scrim", "settings", "wire", "beatmaps", "sets"})
  <2> DEFINE SubjectIsOne == subject \in {"channels", "scrim", "settings", "wire", "beatmaps", "sets"}
  <2>1. Init => SubjectIsOne
    BY Zenon DEF Init
  <2>2. SubjectIsOne /\ [Next]_<<subject, channelsVars, scrimVars, settingsVars, wireVars, beatmapsVars>>
          => SubjectIsOne'
    BY Zenon DEF Next
  <2> QED
    BY <2>1, <2>2, PTL DEF Spec
<1>2. /\ subject \in {"channels", "scrim", "settings", "wire", "beatmaps", "sets"}
      /\ ChannelsTypeOK /\ ScrimTypeOK /\ SettingsTypeOK /\ WireTypeOK /\ BeatmapsTypeOK
      => TypeOK
  <2> SUFFICES ASSUME subject \in {"channels", "scrim", "settings", "wire", "beatmaps", "sets"},
                      ChannelsTypeOK, ScrimTypeOK, SettingsTypeOK, WireTypeOK, BeatmapsTypeOK
               PROVE  TypeOK
    OBVIOUS
  <2> QED
    BY DEF TypeOK
<1> QED
  BY <1>1, <1>2, PlayImplements, ChannelsTypeCorrect, ScrimTypeCorrect, SettingsTypeCorrect,
     WireTypes, BeatmapsTypesCorrect, PTL
=============================================================================
