# A verification development for eunga.py

eunga.py is an osu! game server (a descendant of bancho.py): game clients poll
one HTTP endpoint with packets ("bancho"), submit scores to another, and a web
site and bots use a JSON API.  This directory holds TLA+ models of the parts of
it whose correctness depends on the order of events, TLC configurations that
check them on small instances, and TLAPS proofs for all instances.

The modules are translated from `src/`; `PROJECT.json` maps every definition to
the lines it stands for, and lists the runs, the mutants that show that every
property can fail, the disagreements found between code and comments, the
hazards, and the theorems.

To repeat: `tlc -workers 2 -config MCRooms.cfg MCRooms.tla`,
`tlapm RoomsProofs.tla`.

## 1. How the program runs

One process, one asyncio event loop, no threads that touch shared state.  A
handler is therefore atomic between two `await`s that really suspend, and
anything may run while it is suspended.  What is shared lives in
`app.state.sessions`: the list of players with its three indexes, the list of
matches, the list of channels.  Timers (`loop.call_later`), background tasks
(`bg_loops.py`, `asyncio.create_task`) and requests interleave on the loop.
Nothing of this survives a restart of the process; what does is in MySQL and,
for leaderboards and the tokens of the website, in Redis.

A request carries a token; its packets are handled one after the other on the
`Player` object found under the token.  An exception in a handler ends the
request and keeps whatever was already assigned.

## 2. Inventory

| component | state | operations | what is hard | what makes it correct |
|---|---|---|---|---|
| session table: `objects/collections.py`, login in `api/domains/cho.py`, `Player.logout`, `bg_loops.py` | the list, `_by_token`, `_by_id`, `_by_name`, `token`, `last_recv_time` | login, replacement of a silent session, request, logout, !reconnect, sweep | a login awaits a dozen times between the check and the append; indexes shared by two sessions of an account; removal while iterating | the indexes lead to connected players; one session per account; a logged out token is dead; silent players leave |
| rooms: `objects/match.py`, `Player.join_match/leave_match`, match packets, `!mp` | match list, 16 slots, host id, referees, chat, tournament clients, `player.match` | create, join, leave, slot change, lock, host, referees, force; the match's chat entered and left by its name or by a tournament client | two ends of one relation kept by hand; `Match.host` raises when the host is gone, half way through `leave_match`; a kick is a lock followed by the client's own leave; a chat whose last player left is off the list | both ends agree; one seat per player; empty matches go, others stay; the host is seated and hears its match |
| round: the same, and `!mp start/abort` | statuses, loaded, skipped, `in_progress`, `starting` | start (three ways), timer, load, skip, complete, abort | barriers over whoever is in play while players leave, are locked or move; a timer that fires between any two handlers | a round begins and ends when the last one reports; no early begin; nothing outlives the round |
| scrim scoring: `await_submissions`, `update_matchpoints`, `!mp scrim`, `endscrim`, `rematch` | points, winners, points to win, teams | a task that sleeps and polls, then awards | players leave, the scrim ends or a new round starts while it sleeps | points equal won rounds; a scrim that goes on is undecided |
| match settings: `MatchChangeSettings`, `MatchChangeMods`, `!mp mods/freemods/map/loadpool/ban/unban/pick` | mods of match and slots, map, pool, bans | packets of the host, commands of referees, joins and leaves | a map or a pick is awaited in the middle | a mod is the match's or the slots', never both |
| tournament pools: `!pool`, `services/tourney_pools.py` | two tables | create, delete, add, remove, info | statements awaited one by one; a page that hides rows | every map has its pool; a pick names one map |
| channels and spectators: `objects/channel.py`, `Player.join_channel/add_spectator` ... | membership on both ends, who watches whom, instanced channels | join, part, spectate, can't spectate, logout, relogin | instanced channels vanish with their last member; assertions in the middle | both ends agree; spectators reach their host |
| friends, blocks, private messages: `services/relationships.py`, `Player.add_friend` ..., `SendPrivateMessage`, `repositories/mail.py` | rows of two tables, two sets of a session | packets, commands, requests of the website, login, osu-markasread | memory first in the game, tables first on the website; mail stored while its target logs in | sets and rows agree; what is read was shown |
| clans: `services/clans.py`, `!clan` | two tables, a copy in every session | create, disband, leave, transfer, info, login | check-then-act over awaits, three places to write | nobody is in a clan that is gone; one owner; copies agree |
| accounts: `services/accounts.py`, `account_settings.py`, `bancho.py`, `web_sessions.py` | rows, statistics, hashes verified before, index of names, web tokens | register, log in twice over, change password, change name | a cache of verified hashes next to the hashes; sessions that keep the hash they began with | an old password logs nobody in and, once evicted, opens no web request; an account has its statistics; a name finds its session |
| standing: `Player.restrict/unrestrict/silence/update_privs`, `!addpriv`, admin API, donor end | privileges, silence and country in row, session, client; leaderboards in Redis | commands, admin requests, sweeps, login, score submission | four places written one after the other | they agree; the restricted are on no board |
| beatmaps: `objects/beatmap.py`, `!map` | the osu!api, two tables, four caches of objects that refer to each other | lookup by md5, id and set, refresh, update, delete, rule on a status | objects changed in place between awaits while the cache goes by their old keys; a set saved map by map; a rollback that leaves the objects as they are | tables and caches agree; a ruling stays |
| score submission: `services/score_submission.py` | scores, stats in memory and SQL, plays of a map | submit under a lock per checksum, in a transaction, with a snapshot for rollback | two plays of one player at once; rollback of a snapshot others have moved on from | one best score per player and map; counters equal rows |
| reads: `api/v1`, `api/v2`, `services/visibility.py`, listings and leaderboards | none of their own | forty-one handlers: look up, ask whether the viewer may see (or do not), query, answer | a restriction between two awaits, in the session first and in the row later; a policy applied by hand, not everywhere | the handlers that ask show hidden players to staff and themselves only |
| wire format: `packets.py`, the loop of `bancho_handler` | the body of a request, the queue of a player | read, dispatch, enqueue, dequeue | hand-written widths, optional parts, a handler that raises half-way | both ends mean the same packet; nothing in the queue is lost |
| comments, favourites, screenshots; persistence; performance calculation; startup and utilities | | | single statements, clients of services, a numeric library | not modelled: see section 6 |

## 3. Modules

| module | what it is |
|---|---|
| `Sessions` | the table of players; `MCSessions` instantiates it |
| `SessionsProofs` | its types, its indexes and the serial logins, for all instances |
| `Rooms` | who sits where: two specifications, `Spec` (clients may send anything) and `CivilSpec` (clients as the game's own); `MCRooms`, `MCRoomsCivil` instantiate it |
| `RoomsProofs` | the safety of `Rooms!Spec` and of `Rooms!CivilSpec` for all instances |
| `RoundContract` | what a round promises, abstractly |
| `Round` | the round in detail, again with any clients (`Spec`) and the game's own (`CivilSpec`, `FairSpec`); `MCRound` instantiates it |
| `RoundProofs` | its safety, and that it implements `RoundContract`, for all instances |
| `Submission` | score submissions as processes over a lock, a judgement, a database transaction and counters in memory; `MCSubmission` instantiates it |
| `SubmissionProofs` | its safety, with and without overlap, for all instances |
| `Clans` | clan commands and logins over the awaits of the service |
| `Social` | one user's friends, blocks and private messages |
| `Accounts` | registration, passwords, names, logins |
| `Standing` | one player's privileges, silence, country and boards |
| `Pools` | the tables of map pools |
| `Visibility` | forty-one reads about players as gates, queries and awaits, those that ask nothing included |
| `CopiesProofs` | the safety of `Clans` and `Standing`, for all instances |
| `ServicesProofs` | the safety of `Social`, `Accounts`, `Pools` and `Visibility`, for all instances, and what follows of `MCServices` |
| `Channels` | chat channels and spectators |
| `Scrim` | match points and the tasks that award them |
| `MatchSettings` | mods, map, pool, bans and picks of a match |
| `Packets`, `Wire` | the binary format as operators; requests and answers of a client |
| `WireProofs` | that packets are read as they were written, and the safety of `Wire`, for all packets |
| `Beatmaps` | one set of maps between osu!api, tables and caches |
| `PlayProofs` | the safety of `Channels`, `Scrim`, `MatchSettings` and `Beatmaps`, for all instances, and what follows of `MCPlay` |
| `NoneValue` | the value None of several of these |
| `MCServices`, `MCPlay` | two sums of small instances: `Clans`, `Social`, `Accounts`, `Standing`, `Pools`, `Visibility`; and `Channels`, `Scrim`, `MatchSettings`, `Wire`, `Beatmaps` |

`Sessions` hands to `Rooms` the order in which objects enter and leave the
table; `Rooms` hands to `Round` who is inside one match.  They are separate
because their product is out of TLC's reach, and each states what it takes from
the other:

* A Player object, not an account, is the unit ("session") everywhere: an
  account may have several objects, one after the other or at once.  `byId`
  stands for `_by_id` and `_by_name`, which are written and popped together.
* `Sessions` takes it that what `logout` does before `Players.remove` returns.
  `Rooms` models when `leave_match` does not (`LeaveReturns`), and that the rest
  of the logout is then left undone.
* In `Rooms`, `issued` are the objects a token resolves to.  A logout does not
  shrink it, because the code clears `player.token` before it pops the index
  under it (`sessions_token` shows this), so a logged out client can go on
  sending packets.
* `Rooms` has three slot statuses, open, locked and taken; `Round` has all
  seven.  `Rooms!Start` is enabled for everybody a timer might have been left
  by, which over-approximates the timers that `Round` models.
* `Round` has one match and lets whoever is inside act as host or referee.  The
  host's forced move to slot 0 and a host that is gone are in `Rooms` only.

* The chat of a match is the one membership that others than the match change:
  `ChannelJoin` and `ChannelPart` are the packets that name it (`#multi_N`),
  `TourneyJoin` and `TourneyLeave` those of a tournament client, which finds it
  through the match.  `listed` are the chats in the list of channels; leaving one
  that is not raises after the player is out of it (channel.py:131), which leaves
  the session in `stuck` with a channel in its own list for ever.  Its logout is a
  loop without an end or an await, which the process does not survive; it is not a
  step of the model.

Left out of `Rooms`: a tournament client's request for the state of a match (it
changes nothing), `#lobby`, teams, mods and settings, restricted and silenced
players (early returns that change nothing), lookup by localised names.

`Submission` shares no state with the others but the player that submits.  A
step of a request ends where the service awaits: the request waits for the lock
of its play (`score_submission_locks[checksum]`), looks for the checksum in the
table, is judged by the player's best row (`Score.calculate_status`), and runs
the transaction: demote the old best, insert, update the stats, update the map.
The row, the stats and the map's plays are committed together; `draft` holds
what the statements have been told to write, `stats` and `plays` are the
attributes in memory, which change at once and are set back from `saved` when
the transaction fails.  `Raise` and `RollBack` are an exception at any await;
`Restart` loses the locks and the memory.  The database is external.  Of InnoDB
the module assumes: writes show at the commit; demoting locks the old best's row
or, if there is none, the gap where it would be; an insert into a gap that
another transaction has locked waits; an update waits for the row's writer; and
of two transactions that wait for each other one is rolled back.  Left out:
restricted players, maps without ranked pp, failed scores' details, the sums of
pp and accuracy, grades, achievements, global ranks, replays and messages.

### The services and the rest of the play

These modules share no variable with each other.  What ties them together is the
session: that logins of one account may overlap, that a session ends while
others still hold its object, and that a logout may stop half-way, which each
of them takes over as far as it matters to its state.  An action ends where the
code awaits something that may suspend; a handler that awaits nothing is one
action; a transaction is one action at its commit; a statement is one action
and atomic, which is what is assumed of the database.

* `Clans`: a command (`job`) goes through named steps ("create name", "disband
  commit", "leave sync" ...), one per query of `ClansService`.  `copy` is what
  the sessions carry, `connection` how far a login is, so that a login may read a
  row before a commit and appear after the copies were written.  The assertion
  in `!clan disband` (commands.py:2401) ends the command.
* `Social`: one user (its rows, its session) against `Others`.  Edits by packet
  or command write the sets first and leave a statement ("write"); the website
  looks, deletes, creates and then tells the session.  `LookUp` is
  `Players.from_cache_or_sql` of an offline target: the object made of the row has
  no blocks, refuses nobody and is "given" a message nobody reads.
* `Accounts`: a hash is a record of a password and a salt.  `retired` records, at
  the start of each request, the passwords that were already replaced then:
  requests that were in the midst of a check may still succeed.  A session keeps
  the `id` and the hash it was made with (`Player.pw_bcrypt`): the game's web
  requests (bancho.py:66-79) look a player up by name and are checked against that
  hash, by the cache alone if it has it (`AuthenticatesOnline`).  `replaced` are the hashes a
  change wrote over, `kept` those of them that its eviction did not reach or that
  a check which had begun before put back.  The three localised names are one,
  the `alias`, which fetch_one finds as well and no index keeps apart.
* `Standing`: a job changes the object it found, and the rest of it is the
  sequence `todo` of statements it has still to await.
* `Visibility`: an endpoint is a sequence of steps (`gate`, `found`, `rows`,
  `await`), `seen` and `unseen` are whom the viewer could and could not see at some
  moment of the request, `listed` who was not restricted at some moment of it.
  Endpoints that ask nothing are sequences like the others and answer what they
  find.  Fields, order and paging are left out.
* `Channels`: `chat` has both ends and the list.  An assertion that fails in
  `remove_spectator` ends the handler with what it has changed by then.  An account
  may have several sessions, which share one entry of the index.  Packets of a
  session that logged out are handled like any other (`Issued`); `lingering` are
  those that joined or watched something that way.  The channels of matches are in
  `Rooms`.
* `Scrim`: the task is a process that polls (`await_submissions`), asserts that
  its slots have players, and then awards.  Who wins is any side that played: the
  scores and the win conditions are left out.
* `MatchSettings`: a slot is named by its player.  The packet that creates a match
  brings free mods and mods as it likes; `asMade` says that the match's own mods are
  still those.  Name, password, seed and win
  condition of the match are left out, teams are in `Scrim`.
* `Packets` has the readers and writers over sequences of bytes, `Wire` the ids
  with the fields of every packet in either direction, the loop that reads a
  request, handlers that raise, and the queue.  Strings and floats are their
  bytes, numbers have at most 31 bits and are written with the sign and width
  of the code, in its byte order.  `Holds` says which values the field of a type
  is for; `IsMatch` is narrower, because `read_match` reads signed what
  `write_match` writes unsigned, so that the two agree below the sign only: an id
  under 32768, mods and seed under 2^31, status and team under 128.  Lists of ids,
  which are read unsigned, may have any id that is not negative.
* `Beatmaps`: Beatmap and BeatmapSet objects are numbered, because caches, sets
  and tasks share them and change them in place.  Of a map it keeps version
  (the md5), status and frozen.  A request to the api that gets no answer at all
  ends the task with an exception, one that gets an error is taken for "there is
  nothing"; one that cannot be decoded ends the task as well.  A set is saved with one
  committed statement per map, `!map` writes in a transaction, and any statement may
  fail (`DatabaseFails`): rows roll back, objects do not.  `Restart` loses objects,
  caches and open tasks, wherever these are.

### Any client, and the game's own

Handlers trust the client a great deal: that it creates a match only when it is
in none, leaves when its slot is locked, and is quiet after logout.  Each model
therefore has two next-state relations.  `Next` lets every packet arrive at any
time; what holds of it rests on the server alone.  `CivilNext` restricts the
packets to what the game's client sends:

* `Rooms`: silence after logout; a new login only when the account is not in
  the table; create and join only when in no match; a host does not unlock a
  slot whose player was kicked and has not left yet; the chat of a match is not
  entered or left by its name, which the server never tells the client (it calls
  the chat `#multiplayer`).  Tournament clients follow matches as they like.
* `Round`: a client in play loads once, waits for the signal, may ask once to
  skip, completes, and otherwise only leaves; nobody starts a round over that is
  going on unless it is stranded; reports for an aborted round do not arrive
  late.

The rest of the properties hold of `CivilSpec` only, and each clause was
introduced because TLC showed a behaviour without it that breaks one of them.

## 4. Runs

| run | specification | instance | checks |
|---|---|---|---|
| `sessions` | `Sessions!FairSpec` | 2 accounts, 3 objects, two of one account | `TypeOK`, `IndexesResolve`, `SerialLoginsAreFindable`, `GhostsLeave` |
| `sessions_single` | `Spec` | same | finds `OneSessionPerUser` violated |
| `sessions_token` | `Spec` | same | finds `LogoutInvalidatesToken` violated |
| `rooms` | `Rooms!Spec` | 2 accounts, 3 objects, 2 Match objects, 1 index, 2 slots | `TakenHasPlayer`, `SeatPointsBack`, `OneSeat`, `RegistrySound`, `RemovedWhenEmpty`, `NewHostIsSeated` |
| `rooms_civil` | `CivilSpec` | 3 accounts, 4 objects, 1 index, 3 slots | `MatchMeansSeat`, `FreeSlotIsUnoccupied`, `HostIsSeated`, `SeatedHears`, `NoTakeover` |
| `rooms_free` | `Spec` | as `rooms` | finds `FreeSlotIsUnoccupied` violated |
| `round` | `Round!FairSpec` | 3 players, 2 slots | `PlayingInProgress`, `FlagsInRound`, `TimerNeedsPlayers`, `ImplementsContract`, `RoundBegins`, `RoundEnds` |
| `round_begin` | `CivilSpec` | same | finds `BeginTogether` violated |
| `submission` | `Submission!FairSpec` | 4 requests, 3 plays, 2 players, 1 map | `OneRowPerPlay`, `OneBest`, `SerialBestIsHighest`, `SerialCountersExact`, `RequestsEnd` |
| `submission_best` | `Spec` | same | finds `BestIsBest` violated |
| `services` | `MCServices!Spec` | below | `TypeOK`, `ClansSound`, `ReadWasShown`, `SerialRowsHonoured`, `AccountsSound`, `SerialStanding`, `SerialPools`, `AnswersRespectVisibility` |
| `play` | `MCPlay!Spec` | below | `TypeOK`, `ChannelsAgree`, `ScrimSound`, `FreemodsSplit`, `PacketsArrive`, `SerialMapsAgree` |

The types of `Rooms`, `Round` and `Submission` are proved (section 5) and not
checked again.  `services` and `play` choose a `subject` at first and move only its
module, so their states are the sum of the modules' and a counterexample is
about one of them; `TypeOK` is that of the subject.

`SeatedHears` is a property of the game's own clients since any other may leave
the chat of the match it sits in: with them, who has a slot is in the chat, who is in
the chat has not left the match or follows it as a tournament client, and no
logout is caught in a chat that is off the list.

What the properties of `services` and `play` say, module by module:

* `ClansSound`: however commands interleave, nobody's row names a clan that is
  gone; and as long as nothing overlapped (`crossed`), one owner, distinct
  names, and sessions that carry their row.
* `ReadWasShown`: a message is marked read only if the client was given it, but
  for one that overtook a login (`overtaken`).  `SerialRowsHonoured`: without
  overlap a session honours every row (not conversely, see below).
* `AccountsSound`: a password that was changed before a login or another change
  began does not get past its check, whatever the cache of verified hashes holds
  (`OldPasswordRefused`); the game's web requests, which are checked against the hash
  of the session, refuse it once the change has evicted that hash, but for those that
  are `kept` (`OldPasswordForgotten`); every account has its statistics; names find
  their sessions, except of who was `renamed` in game.
* `SerialStanding`: one job at a time, row, session, client and boards agree.
* `SerialPools`: one command at a time, every map has its pool and a pick names
  one map of a pool that fits a page.
* `AnswersRespectVisibility`: while a player is restricted and logs in and out
  between the steps of a handler that asks, the answer shows whom the viewer could
  see at some moment of the request (or, in `ByRestriction`, who was not restricted),
  and calls hidden whom he could not.  Nothing is said of what the handlers of
  `Unfiltered` show.
* `ChannelsAgree`: both ends of membership and spectating, and spectators in their
  host's channel, except of accounts in `parted` or `apart`; who logged out is in no
  channel and watches nobody, unless its packets went on (`lingering`).
* `ScrimSound`: points are won rounds, a scrim nobody meddled with goes on only
  while nobody has the points to win, and players in a match of teams have one.
* `FreemodsSplit`: under free mods the match has the speed changing mods only, once
  the mods it was made with were changed, and the slots none of them; otherwise the
  slots have none at all.
* `PacketsArrive`: handlers are handed what was sent, in order; what was put in
  the queue is read by the client once, in order, and with the values written.
* `SerialMapsAgree`: one task at a time, tables, cached set and rulings agree, except
  of maps in `missed`.

**Bounds.** In `Sessions` the age of a session has the three values the code
tells apart (under 10 s, up to the ping interval, over it), and every object
logs in once, so the number of objects bounds the logins; three are enough for
an overlap, a replacement, and a third party in the list next to a removed one
(the sweep skips a neighbour).  In `Rooms` two Match objects are what it takes to be
in the wrong one, and one index is enough for a full list; a Match object that nobody refers to is reused, and the VIEW
hides what it still holds because `CreateMatch` overwrites it.  Two slots
(`rooms`) make a full match, three (`rooms_civil`) a third player besides a host
and a kicked one.  One account has the privilege to follow a match (`Donors`).
In `rooms` every client may enter and leave every chat, which multiplies the states:
`MCStraysBound` explores all of it while one Match object is in use, and, while both
are, the states in which chats and matches agree and what these lead to; no property
of this run is about the chat.  Neither run checks deadlock, because logins are bounded: once all objects
have logged out (`rooms_civil`), or all of them point at a match they have no
slot in and fail their handlers' assertions (`rooms`), nothing more can happen
until somebody else logs in.  `Round` with two slots has somebody to wait
for, and the third player takes a seat that becomes free during a round.  The
Match objects are symmetric, and so are the two Player objects of one account in
the runs of `Rooms`; no run with a liveness property uses symmetry.
`Submission` needs two plays of one player on one map (judged by each other), one
of them sent twice (the lock), and another player on the map (its counter is
shared, and the play is a failed one); it checks no deadlock because a run is over when the requests are.

`services`: two commands at once are what an overlap takes, and a third user, a
clan of three.  *Clans*: 3 users (a founder, two members, one of them hidden, one
staff), 1 name, 2 tags, 2 commands (`MaxClanCommands`), so the ids are the old clan
and two new ones.  *Social*: one other user, since rows of different users do
not meet; 2 edits, 2 messages (one before, one during a login).  *Accounts*: 2
ids, 2 names, 2 passwords, 4 requests of which 2 are open at once: a login that
fills the cache, another that is verified before the change and caches after it, the
change, and a request after these.  *Standing*: 2 countries, 2 jobs.
*Pools*: 1 name, 3 maps, 2 picks and 4 commands (create, two adds and one more) with
`PageSize` 1, so that a pool outgrows its page (50 in the code).  *Visibility*: a
player and a moderator, an anonymous viewer, 1 request (requests share
nothing), 2 changes of standing or session.

`play`: *Channels*: 3 accounts of which one is watched and may log in twice, so
that there is a former object or a second one in game, and two spectators; at most
3 sessions in all, of which one may be in the lobby and one be restricted
(`FewInLobby`).  *Scrim*: 2 slots, 2 players, 2
tasks, 2 rounds.  *MatchSettings*: 2 players, a speed changing mod and another, 1
map, 1 pool, 2 packets or commands that wait.  *Wire*: requests of at most 2 packets out of
a sample with one packet for every way a body is read (`MCClientSends`), and one
of each way one is written (`MCServerSends`), with values at the edges of
their widths.  *Beatmaps*: 1 map with 2 versions, 2 tasks at once and 3 in all,
one change or outage of the api, error of the database or restart, one expiry (`TwoTasks`); and, as a subject of its own,
2 maps with 1 version of which one may have scores, 4 tasks one after the other, 2
changes, outages, errors or restarts and 2 expiries (`TwoMaps`), which is what it takes for a map to leave the set, come back and be ruled
on.  Neither run checks deadlock: the operations
are counted, and a behaviour is over when they are.

**Fairness.** `Sessions!FairSpec` assumes the sweep runs again and again
(`_disconnect_ghosts` is a task that sleeps a fixed time) and nothing of the
clients.  `Round!FairSpec` assumes that a client in play loads and completes if
it stays: this is about the game's client, the server only reacts.  No fairness
is assumed of starts, timers or leaves.  `Submission!FairSpec` assumes that the
event loop resumes a request whose lock is free or whose statement is answered
(asyncio's lock is handed on in turn), and that the database answers.

**History variables.** `overlapped` (accounts that had a tournament client or
two logins in flight), `told` and `reports` (what was sent and reported since
the last start), and `stranded` (a departure left a round nobody can move on).  `Submission`'s
`overlapped` holds the players and maps of which two submissions were handled
at once.  `crossed` (Clans), `editsOverlap` (Social), `jobsOverlap` (Standing),
`poolsOverlap` (Pools) and `overlap` (Beatmaps) say that two operations, or one
and a login, were open at once; `meddled` (Scrim) that the scrim was changed
while a task waited; `overtaken`, `renamed`, `abroad`, `patched`, `crowded`, `missed`,
`kept`, `asMade`, `lingering`, `parted` and `apart` name the exceptions of single properties, each a behaviour of
the code described below; `shown`, `former`, `retired`, `replaced`, `ruled`, `sent`,
`handled`, `enqueued` and `received` record what happened for the properties to
compare with.
No guard of a server action reads them; the guards of `CivilNext` do.

### What the violations show

1. Two overlapping logins of one account both pass the check at cho.py:695.
   What does hold is `SerialLoginsAreFindable`: without overlap and tournament
   clients there is one session and it can be found.
2. A logged out token goes on resolving (player.py:403, collections.py:278).
3. A slot locked with its player in it and unlocked again is "free"
   (match.py:259); the join that follows evicts the player, whose
   `leave_match` then fails its assertion for good.
4. `Match.start` keeps the loaded flags of an earlier start, so "all players
   loaded" can be sent before everybody in play has loaded.

5. Two plays of one player on one map are judged by the same previous best,
   because the lock belongs to the play; the one committed last demotes the
   other, whichever is better.  What does hold is `OneBest` (the demotion is part
   of the transaction) and, without overlap, `SerialBestIsHighest`.

### What the exceptions stand for

Behaviours that are part of the models; each is why a property has the exception it
has.  Two of them are against a text of the repository, and are stated here and not as
runs: those of *Visibility*, against the docstring of `services/visibility.py` (1-11),
and the hashes that are `kept`, against the comment at account_settings.py:190.

* *Social.*  `RelationshipsService.add_friend` of a blocked user replaces the row
  and leaves the block in the session; `remove_block` deletes the row whatever its
  type.  The object made of an offline player's row has no blocks.
* *Rooms.*  Whatever clients send, a seated player may part from the chat of its
  match and others may enter it (cho.py:1893-1906, 2059-2079); and a tournament client
  that enters a chat which all players have left that way (cho.py:1966) can neither leave it nor
  log out, as channel.py:131 raises before its own list is shortened.  A match whose
  creator could not join it stays in the list (cho.py:1424).
* *Accounts.*  A change of name by the website leaves `Players._by_name` keyed by
  the old one.  `change_password` evicts the hash it has read before it writes, so that
  one which an overlapping change wrote in between stays; and a check that read the old
  hash before may put it into the cache after it was evicted.  Then the game's web requests of
  sessions made with that hash accept the old password on (`kept`).  A new login or change reads the new hash and refuses it.
* *Clans.*  Two transfers that overlap leave two owners, a disband that overlaps a
  create by its owner resets the row of the new owner's.  Names and tags are tested
  first and unique in the indexes besides (base.sql:44-45; the repository's own table
  declares the latter only), so of two creations one fails at its insert.
* *Standing.*  `is_online` (player.py:322) is true of every object made by
  `get_sql`, so the branches of cho.py:1199-1201 are not reached, and an offline
  player's unrestriction does not restore its boards.  A login takes its country
  from the address (`abroad`); `admin_update_player` skips the boards and the
  packet (`patched`); overlapping changes of a country leave two boards.
* *Channels.*  A spectator channel is named by account: a host that logs in again is
  not in it, and with two sessions in game the index has one of them; a host's logout
  leaves those who watch it; a restricted host is not in its own (`apart`).  Joining or
  leaving by the real name, or watching another session of one's own account, makes
  later assertions fail (`parted`).  Who logged out may join and watch again with its old token
  and stays there (`lingering`).
* *Scrim.*  A point that arrives after `!mp endscrim`, or after the teams were
  changed, passes `winning_pts`, and the comparison by `==` never holds again
  (`meddled`).  An assertion fails and the point is lost when a player that is
  waited for leaves.
* *MatchSettings.*  `!mp freemods on` under free mods clears the slots' mods;
  `MatchChangeSettings` does not look at the host again after its await; `!mp pick`
  looks at the bans before one; bans outlive the pool.  A match may be created under free mods with mods that do not
  change the speed (cho.py:1416, 1419), and keeps them until they are changed (`asMade`).
* *Pools.*  An add that overlaps the pool's deletion leaves a map of no pool;
  beyond the 50 rows of a page a pick may be taken twice (`crowded`).
* *Visibility.*  The docstring says that hidden players are visible to staff and
  themselves only, and listings by the same rules in SQL.  These ask nothing
  (`Unfiltered`): friends, following and followers, the list of friends of the game's
  web request, who is online (api/v2/server.py:100-143 and the page of `bancho_view_online_users`),
  who is in a match (api/v1/api.py:824-869 and `bancho_view_matches`), the owners in clans, and
  the banner of a player.  These go by the privilege UNRESTRICTED alone and show who is
  not verified (`ByRestriction`): the scores of a map in both APIs
  (scores.py:638-641), the leaderboard in game, and the counts of
  api/v2/server.py:29-43.
* *Wire.*  An id without a member in `ClientPackets` raises, and the rest of the
  request is lost; handlers that ran keep their effect.
* *Beatmaps.*  An update in place leaves the old md5 as a key of the cache and the
  new one none, so a `!map` that follows misses the object and the next save of the
  set undoes it.  An exception in `!map` after the objects were changed rolls the rows
  back and leaves the objects, and an error between two maps of a set that is saved leaves
  the later ones unsaved, until the set is saved again (`missed`).  Maps the api has deleted stay in the cache; one that comes back has
  a new object in the set, and a `!map` may change the old one (`missed` has the maps of
  all these).  Two loads at once make two families of objects.

Two more belong to `Submission` and `Round`.
A failed submission sets the counters back to a snapshot, and successful ones
write absolute values computed before they waited for the row: submissions of one
player or one map that overlap lose counts, in memory or in the tables, which is
why `SerialCountersExact` excludes what `overlapped` names.  In `Round`, when the
last one a round waits for departs (leaves, is locked out), no handler
looks at the round again; it stays in progress until a new start or an abort.
`RoundBegins` and `RoundEnds` name this exception as `stranded`.

## 5. Proofs

Every theorem is about a specification of its module, for all values of the
constants that the module's ASSUME admits: bounds are numbers, distinguished
elements belong to their sets, None is none of the values it is an alternative
to.  Nothing else is assumed.  The bounds (`MaxEdits`, `MaxJobs`, ...) are any
numbers, so what is proved holds for any number of operations.

A property is rarely inductive.  Each part of a proof module begins with the
invariant that is, and says what it adds; that it is preserved is one lemma per
action (or per kind of action), and the theorems follow from the last few lines.
Before a proof was tried the invariant was checked by TLC on the runs' instances.

| module | theorem | property |
|---|---|---|
| `SessionsProofs` | `SessionsTypeCorrect`, `IndexesAlwaysResolve`, `SerialSessionsAreFindable` | all safety of run `sessions` |
| `RoomsProofs` | one per property of runs `rooms` and `rooms_civil` | all of them |
| `RoundProofs` | `PlayingInProgress`, `FlagsInRound`, `TimerNeedsPlayers`, `ImplementsContract` and the types | all safety of run `round` |
| `SubmissionProofs` | `PlaysAreCountedOnce`, `OneBestEach`, `SerialBestsAreHighest`, `SerialCountersAreExact`, `DemotionIsCurrent` and the types | all safety of run `submission` |
| `CopiesProofs` | `ClansAreSound`, `StandingIsSerial` and the types | `ClansSound`, `SerialStanding` |
| `ServicesProofs` | `ReadMailWasShown`, `RowsAreHonoured`, `AccountsAreSound`, `PoolsAreSerial`, `AnswersAlwaysRespectVisibility` and types | the rest of run `services` |
|  | `ServicesTypes` | `TypeOK` of `services` |
| `PlayProofs` | `ChannelsAlwaysAgree`, `ModsAreSplit`, `ScrimsAreSound`, `MapsAgree` and the types | `ChannelsAgree`, `FreemodsSplit`, `ScrimSound`, `SerialMapsAgree` |
|  | `PlayTypes` | `TypeOK` of `play` |
| `WireProofs` | `PacketsAgree`, `WireTypes` | `PacketsArrive` |
|  | `MatchRead`, `BundleRead`, `ClientPacketsRead`, `ServerPacketsRead`, `ActionModes` | what `PacketsArrive` rests on |

**`Sessions`.**  The indexes are popped under what a player carries when it is
removed, and logout has cleared its token by then.  The indexes stay right
because an object gets a token of its own and is listed once (`TokensSound`).
`SerialLogins` says what the look at the table at the start of a login is worth at
its end: without overlap the account is still not there, or is the one that
will be replaced.  The sweep removes while it iterates, so the model's list loses
several players in one step: `Without`, a recursive function, removes them, and
`WithoutKeepsTheRest` says that it loses them and nobody else, for a list of any
length.  Its proof needs induction, and the library's induction theorems take an
operator, which no installed prover instantiates; `Induction` states the
principle about a set instead and follows from a fact about finite sets that
the library has without one.

**`Rooms`, any client.**  None of the invariants is inductive alone: that a
slot change does not put somebody in two seats needs that slots point back at
the match; that leaving resets the right slot needs one seat per player.  `Seating` is their conjunction and is inductive; `FiledByAccount` (the
object found under an account belongs to it) is needed for `NewHostIsSeated`.

**`Rooms`, the game's own clients.**  `Civil` adds `Manners`: what a client that is
silent after logout and creates only when it is in no match keeps true.  With
`TableIsExact` and `PlayersAreConnected` the property `Match.host` always finds
somebody when a match is left, so that `leave_match` never stops half way, which
is what `HostIsSeated` and `MatchMeansSeat` depend on; `OpenIsEmpty` is why nobody
is displaced (`NoTakeover`), and only `HostIsSeated` rules out the branch of
`join_match` that writes slot 0 without looking at it.  `SeatedHears` is inductive as
`Hearing`: a tournament client that follows a match does not play in it, so that what
it leaves is not a player's place in the chat (`FollowersDoNotPlay`), and who is in a chat is
connected, so that an account has one object there (`ListenersAreConnected`).

**`Round`.**  `IInv` adds to the types and `PlayingInProgress` that a player has one
seat, that seated players are inside and that a slot in play has a player:
without these a completion or a slot change could map to a step that removes
nobody, or somebody else, from play.  `Tidy` adds for the civil clients that
everybody inside is seated and that an open slot is vacant.  For the refinement
each action is shown to be a step of `RoundContract` or to leave `in_progress` and
the set of players in play as they are.

**`Submission`, whatever overlaps.**  `IInv` says who holds which lock, that the
table's answer "not submitted yet" stays true while the lock is held (`Fresh`),
and that a score judged not to be the best has a best row behind it until it
commits (`BehindABest`).  None of these uses what is assumed of the database's
locks, only that a transaction is atomic.  `DemotionIsCurrent` does use it: the
rows demoted at the commit are those that were there when the statement ran.

**`Submission`, without overlap.**  `Serial` adds that such a player has one
request in the works (`Alone`), that its verdict is still right (`SoundVerdict`),
and that the counters in memory, the snapshot and the draft differ from the
tables by exactly what the step in progress explains (`StatsSound`, `PlaysSound`);
the counters are cardinalities of sets of rows, which a commit makes larger by
one.  What other players do, errors and restarts are all included.

**`Clans`.**  A command deletes a clan with a list of members that is some awaits
old.  That is safe, overlap or not, because nobody enters a clan after it was made:
only the transaction that makes a clan writes its id (`Known` bounds what
commands can name, `Fetched` says that whoever is in the clan is in the list).
Without overlap, `StageSound` says what each step of a command relies on of what it
found before, and `Untold` whose copy is yet to be written.

**`Standing`.**  Session, row, boards and client disagree while a job is open.
`JobSound` says how, by the kind of job and what it has left to await; `Settled`
is what the last step of every plan restores.

**`Social`.**  A client marks a conversation, not a message, so `ReadWasShown` is
inductive only with `Delivered`: once a login has fetched the mail, every message
there is was shown or is one that overtook it.  `SerialRowsHonoured` holds between
edits; `EditSound` says what an edit that nothing overlaps still has to write, in
either order (memory first in the game, tables first on the website).  For the
types, `MailFits` counts the message that is being handled with the rows, which is
what bounds the ids.

**`Accounts`.**  That a login or a change refuses a replaced password rests on what an open
request knows: the password it got past was the account's at some moment since
it began (`RequestSound`), although it was verified against a cached hash some
awaits ago.  That accounts have statistics and names are unique rests on
`InsertsApart`: of two registrations that both found a name free, one waits for the
other's transaction and fails.  That the game's web requests refuse it is a second
invariant on top of this one: a session, the index and a login about to appear have the
account's hash or one that was replaced (`HashesSince`), and of the replaced ones the
cache has those that are `kept` and the one that a change is about to evict
(`CacheForgets`).  The proof attempt corrected the model here: an
update of a name has to wait for a transaction that is inserting that name,
and one may be renamed in game to a name another was renamed from, so `renamed` is
the set of the names and no longer of the accounts.

**`Pools`.**  `SerialPools` needs that what a command found in an earlier step is
still so when none came between (`OneAtATime`), that no later pool gets the id of
one that an open addition saw (`FoundPools`), and that a pool fits on one page
until one outgrew it (`PagesSuffice`).

**`Visibility`.**  One half is about the handlers and no state: in each of the 41
sequences but those of `Unfiltered` a step that shows the target comes after a gate, a
session that is tried is followed by a gate, and a query that filters by restriction
alone belongs to `ByRestriction` (`HandlersAreSound`, from a few lemmas about sequences of
harmless steps and what is put behind them).  The other half is the invariant:
what row and session are now, every open request has seen (`WorldSeen`), so that
who is past a gate could see the target when it passed it (`AnswerSound`), also
when the gate looked at an owner that was loaded some awaits earlier.

**`Channels`.**  `Sound` is kept by each change of the chat (join, open an
instanced channel, leave, leave all) and the handlers are compositions of these,
whichever assertion ends them.  That spectators reach their host is not
inductive by itself: when the last one stops, the channel must go with the
host, or the next one finds a channel without it.  It does, because nobody
else is in it (`OnlySpectatorsAreIn`), unless the history tells that the account had two
sessions in game (`OneEach`) or that one of its sessions watched another
(`WatchesItself`).  These hold with packets after logout: both ends are kept for
whoever acts, and who lingers is told from who is in game (`ReachIInv`).

**`MatchSettings`, `Scrim`.**  `FreemodsSplit` is inductive together with what the
waiting jobs hold: a match that was made keeps its mods until something writes them, and a
pick that has waited writes mods from what it found, in
whatever mode the match is by then.  In a scrim an award gives its point later, to
the winner it was made for: `RoundsSpent` counts the wins in the list and the awards
that wait against the rounds completed, and `Undisturbed` says that in a scrim nobody
meddled with awards come one at a time and meet the teams they were made for.

**`Beatmaps`.**  `BeatmapsIInv` holds however tasks overlap: caches, sets and
tasks refer to objects that are there, a set has one object of an id, and the cache has
an object only under keys of its id, which is what makes it harmless that an update
changes the md5 of an object and leaves the old key.  `SerialMapsAgree` is about
the time between tasks, and in between a task changes the set first and the
tables statement by statement after it.  `SerialInv` says that such a task is alone,
that the one set is in the cache or will be when the task ends, and, by the stage
(`RowSound`), why each row will agree again: it is still what the set has, or
the next statement deletes it by its md5, or a map of the set that keeps what was
ruled on it replaces it in one of the statements that are left, or `!map` writes it as it
has changed the objects; a map whose statement fails is in `missed`.  The proof
is of any number of maps and versions, of an update that moves, adds and drops any of
them, and of restarts between any two of these steps, after which the set is
made of rows some of which the task had not yet written.  It corrected the model:
a `!map` misses the object of a map that left the set and came back, which needs two
maps to show (`TwoMaps`), and restarts were left out.

**`Packets`.**  That a number, a length in base 128, a string and a list of ids
are read back is proved of all values `Holds` admits (`FieldRead`); of the code it is
the agreement of two hand-written lists, the widths and signs of the readers and
of the writers.  `FieldsJoin` and `PartRead` carry that over to fields one after the other,
with any bytes after them: what is read ends exactly where what was written did.
`MatchRead` goes through a match in the ten parts of `read_match`.  The one that is
not a list of fields is who sits where: the number of ids is found from the statuses
that were just read (`StatusesFound`), and the writer must have chosen the same slots
(`SeatsAppend`, `SeatsWrittenAppend`), slot by slot.  A password that is not sent is
two bytes, which are read as an empty string.  In `BundleRead` the length of the list of
frames was read before it, and the last byte of the score says whether the portions
of score v2 follow.  `ClientPacketsRead` and `ServerPacketsRead` go through all ids.

**`Wire`.**  `PacketsArrive` compares histories, and `WireIInv` says how far each has got:
for some number of packets, what is left of the body is what was written of the
packets after it and what was handed to handlers is what is known of those before it; and
what was received with what waits in the queue is what was written of the packets put
there.  A packet that is read or skipped moves the number by one, whether the
reader went by the fields or by the length in the header (`AtHeader`), and
an exception leaves the queue alone.  That the client finds the answers in their
bytes (`AnswersAgree`) is by `Induction` over the number of packets, as `ReadAnswers`
is a recursive function of it.

**Recursive functions.**  The readers loop, and a theorem must be about what a
loop computes for every input.  They are recursive functions of a LET, which TLA+
defines by CHOOSE.  For each there is a lemma that a function with this
equation exists (`FlatExists`, `UlebExists`, `OnExists`), or the function is written down
(`AnswersAgree`, from the packets that were written), and one that any two
of them agree (`UlebAgree`, `LengthAgree`, `OnAgree`), both by `Induction`, which is a fact about finite
sets here as in `Sessions`.

**The compositions.**  `MCPlay` and `MCServices` move one module at a time.
`PlayImplements` and `ServicesImplement` show that each step of theirs is a step of every
module or leaves its variables alone, so each implements all the
specifications it is made of, for all constants; `PlayTypes` and `ServicesTypes`
collect the types.

**Only model-checked.**  The liveness properties `GhostsLeave`, `RoundBegins`,
`RoundEnds` and `RequestsEnd`, since fairness and ENABLED are beyond the prover.
Every safety property that a passing run checks is a theorem.

## 6. Not modelled

* Comments, favourites, ratings, screenshots, replay files: single statements and
  files.  Who may fetch a replay is in `Visibility`.
* `adapters/database.py`, `state/services.py`: clients of MySQL, Redis and HTTP.
  What the modules take from them is stated where they use it.
* `services/performance.py`: a numeric library call.
* Start-up, middleware, logging, settings, Discord hooks: configuration and I/O.
* Of the modelled parts: text of messages and answers, parsing of commands, order
  and paging of listings, sums of pp and accuracy, achievements, log rows, clocks.
  `components` in PROJECT.json says for each component what is left out.

## 7. Plan

1. (done) `Sessions`, `Rooms`, `Round`, with `RoomsProofs`, `RoundProofs`.
2. (done) `Submission`, with `SubmissionProofs`; still to add: the pp sums, which
   are read inside the transaction, and the announcement of the first place.
3. (done) `Scrim`, `MatchSettings`, `Channels`, `Wire`, `Beatmaps`; `Clans`,
   `Social`, `Accounts`, `Standing`, `Pools`, `Visibility`.
4. (done) Proofs of every safety property the runs check, `PacketsArrive` and the
   types of the compositions included.
5. A login during a submission: `Submission` with two Player objects of a player
   (the hazard at player.py:973).
