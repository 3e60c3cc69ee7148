------------------------------ MODULE Visibility ------------------------------
(***************************************************************************)
(* Who an answer of the read APIs shows to whom.  The policy of            *)
(* services/visibility.py shows a hidden player (restricted or unverified) *)
(* to staff and to himself only; not every handler follows it.  One that   *)
(* does asks for the privileges of a player in one of three ways: of the   *)
(* row, of the session, or of the session if there is one and of the row   *)
(* otherwise; a listing filters in its query.  A restriction changes the   *)
(* session, then the row, then ends the session, each in its own step, and *)
(* a handler awaits between its own.                                       *)
(*                                                                         *)
(* A handler is a sequence of steps: a gate answers 404 unless the viewer  *)
(* may see the target, found may miss what it looks for and answers 404,   *)
(* rows puts what a query returns into the answer, await is a call whose   *)
(* result does not say whom the answer is about.                           *)
(***************************************************************************)
EXTENDS Naturals, Sequences, FiniteSets

CONSTANTS People, Moderators,
          Anonymous,  \* a viewer without a session cookie
          BestOnMap,  \* who holds the highest pp, of the map and of all
          Requests, MaxRequests, MaxChanges

ASSUME VisibilityAssumption ==
    /\ Moderators \subseteq People /\ BestOnMap \in People /\ Anonymous \notin People
    /\ MaxRequests \in Nat /\ MaxChanges \in Nat

VARIABLES
    userPriv,        \* users.priv
    sessionPriv,  \* Player.priv of who is online
    writing,           \* the update_privs under way: what it will write
    requests,
    requestsBegun,     \* counts the requests
    changed            \* counts changes and logins

visibilityVars == <<userPriv, sessionPriv, writing, requests, requestsBegun, changed>>

Levels == {"public", "restricted", "unverified"}
Unserved == [endpoint |-> "none"]

-----------------------------------------------------------------------------
(* The policy and the queries *)

\* can_view_player
CanView(viewer, target, level) ==
    level = "public" \/ viewer = target \/ viewer \in Moderators

\* UsersRepository._visibility_clause, with whom the viewer may always see
PublicOr(viewer) == {u \in People : userPriv[u] = "public" \/ u = viewer}

\* fetch_many, search_public of the users; include_hidden for staff
UserRows(viewer) == IF viewer \in Moderators THEN People ELSE PublicOr(viewer)

\* fetch_many of the scores, which joins the users
ScoreRows(viewer) == IF viewer \in Moderators THEN People ELSE PublicOr(viewer)

\* fetch_leaderboard_stats_rows
LeaderboardRows == {u \in People : userPriv[u] = "public"}

\* fetch_many of a clan's members: nobody is always visible
MemberRows == {u \in People : userPriv[u] = "public"}

\* fetch_map_score_listing_rows: the verified bit is not asked for
MapScoreRows == {u \in People : userPriv[u] # "restricted"}

\* fetch_beatmap_leaderboard_scores
BeatmapLeaderboardRows(viewer) == {u \in People : userPriv[u] # "restricted" \/ u = viewer}

\* The first places: the highest pp of the map, whoever holds it.
FirstPlaceRows(target) == {target} \cap {BestOnMap}

\* get_server_stats: the best score of whoever is not restricted
BestRows == IF BestOnMap \in MapScoreRows THEN {BestOnMap} ELSE MapScoreRows

\* fetch_many(ids, include_hidden=True): everyone is everyone's friend here.
RelatedRows(target) == People \ {target}

\* app.state.sessions.players, all of them
OnlinePlayers == {u \in People : sessionPriv[u] # "offline"}

Rows(of, viewer, target) ==
    CASE of = "users"       -> UserRows(viewer)
      [] of = "scores"      -> ScoreRows(viewer)
      [] of = "ranking"     -> LeaderboardRows
      [] of = "members"     -> MemberRows
      [] of = "map"         -> MapScoreRows
      [] of = "leaderboard" -> BeatmapLeaderboardRows(viewer)
      [] of = "firsts"      -> FirstPlaceRows(target)
      [] of = "best"        -> BestRows
      [] of = "related"     -> RelatedRows(target)
      [] of = "friends"     -> RelatedRows(viewer)
      [] of = "online"      -> OnlinePlayers
      [] of = "target"      -> {target}

-----------------------------------------------------------------------------
(* The handlers *)

Gate(by) == [do |-> "gate", by |-> by]
Found == [do |-> "found", by |-> "row"]
RowsOf(of) == [do |-> "rows", by |-> of]
Show == RowsOf("target")
AwaitOther == [do |-> "await", by |-> "row"]      \* a count, a rank, a clan
Own == [do |-> "own", by |-> "session"]       \* 403 unless the viewer's own

FetchPlayers == <<RowsOf("users"), AwaitOther>>
FetchScores == <<RowsOf("scores"), AwaitOther>>
FetchMapScores == <<RowsOf("map")>>
FetchGlobalLeaderboard == <<RowsOf("ranking")>>
FetchPlayerModeRanks == <<AwaitOther, AwaitOther>>
FetchPlayerStatsWithRanks == <<AwaitOther, AwaitOther>> \o FetchPlayerModeRanks
FetchScoreWithContext == <<Found, Gate("row"), Found, AwaitOther>>
BuildFullReplay == <<Found, Gate("row")>>
FetchRawReplay == <<Gate("row"), Found>>
FetchReplayFile == <<Found, [do |-> "owner", by |-> "row"], AwaitOther, Found, Gate("owner")>>

GetPlayers == FetchPlayers
SearchPlayers == <<RowsOf("users")>>
GetPlayer == <<Gate("row"), Show>>
GetPlayerFriends == <<Own, AwaitOther, RowsOf("related")>>
GetPlayerFollowing == <<AwaitOther, RowsOf("related")>>
GetPlayerFollowers == <<AwaitOther, RowsOf("related")>>
GetPlayerFavourites == <<Gate("row"), AwaitOther, Show>>
GetPlayerStatus == <<Gate("row of who is online"), Show>>
GetPlayerModeStats == <<Gate("row"), Found>> \o FetchPlayerModeRanks \o <<Show>>
GetPlayerStats == <<Gate("row")>> \o FetchPlayerStatsWithRanks \o <<Show>>
GetPlayerScores == <<Gate("row"), AwaitOther, Show>>
GetPlayerMostPlayed == <<Gate("row"), AwaitOther, Show>>
GetPlayerFirstPlaces == <<Gate("row"), RowsOf("firsts")>>
GetAllScores == FetchScores
GetScore == FetchScoreWithContext \o <<Show>>
DownloadScoreReplay == BuildFullReplay \o <<Show>>
GetMapScores == <<Found>> \o FetchMapScores
GetLeaderboard == FetchGlobalLeaderboard

ApiSearchPlayers == <<RowsOf("users")>>
ApiGetPlayerInfo == <<Gate("row"), AwaitOther>> \o FetchPlayerModeRanks \o <<Show>>
ApiGetPlayerStatus == <<[do |-> "try session", by |-> "session"], Gate("row"), AwaitOther, Show>>
ApiGetPlayerScores == <<Gate("session or row"), AwaitOther, AwaitOther, Show>>
ApiGetPlayerMostPlayed == <<Gate("session or row"), AwaitOther, Show>>
ApiGetMapScores == <<Found>> \o FetchMapScores
ApiGetScoreInfo == <<Found, Gate("row"), Show>>
ApiGetReplay == FetchRawReplay \o <<Show>>
ApiGetFullReplay == BuildFullReplay \o <<Show>>
ApiGetGlobalLeaderboard == FetchGlobalLeaderboard
\* Mutant: the owner is shown whoever he is.
ApiGetClanShowsOwner == <<Found, RowsOf("members"), Show>>
ApiGetClan == <<Found, RowsOf("members"), [do |-> "show if visible", by |-> "session or row"]>>
ApiGetPool == <<Found, AwaitOther, Gate("session"), AwaitOther, AwaitOther, Show>>

GetPlayerBanner == <<Found, Show>>
GetClans == <<AwaitOther, Show>>                    \* the target is an owner
GetClanById == <<Found, Show>>
GetServerStats == <<RowsOf("best"), AwaitOther, AwaitOther>>
GetOnlinePlayers == <<RowsOf("online")>>
ApiGetMatch == <<Found, Show>>                      \* the target is host, referee or plays
BanchoViewOnlineUsers == <<RowsOf("online")>>
BanchoViewMatches == <<Found, Show>>

OsuGetFriends == <<RowsOf("friends")>>
OsuGetReplay == FetchReplayFile \o <<Show>>
OsuGetScores == <<Found, RowsOf("leaderboard"), AwaitOther, AwaitOther>>

\* The web client of the APIs sends a cookie or none; v1, some of v2 and the pages of
\* cho.py have no viewer; the game client is a session.
WebHandlers ==
    [get_players |-> GetPlayers, search_players |-> SearchPlayers, get_player |-> GetPlayer,
     get_player_friends |-> GetPlayerFriends, get_player_following |-> GetPlayerFollowing,
     get_player_followers |-> GetPlayerFollowers,
     get_player_favourites |-> GetPlayerFavourites, get_player_status |-> GetPlayerStatus,
     get_player_mode_stats |-> GetPlayerModeStats, get_player_stats |-> GetPlayerStats,
     get_player_scores |-> GetPlayerScores, get_player_most_played |-> GetPlayerMostPlayed,
     get_player_first_places |-> GetPlayerFirstPlaces, get_all_scores |-> GetAllScores,
     get_score |-> GetScore, download_score_replay |-> DownloadScoreReplay,
     get_map_scores |-> GetMapScores, get_leaderboard |-> GetLeaderboard]
ApiHandlers ==
    [api_search_players |-> ApiSearchPlayers, api_get_player_info |-> ApiGetPlayerInfo,
     api_get_player_status |-> ApiGetPlayerStatus, api_get_player_scores |-> ApiGetPlayerScores,
     api_get_player_most_played |-> ApiGetPlayerMostPlayed,
     api_get_map_scores |-> ApiGetMapScores, api_get_score_info |-> ApiGetScoreInfo,
     api_get_replay |-> ApiGetReplay, api_get_full_replay |-> ApiGetFullReplay,
     api_get_global_leaderboard |-> ApiGetGlobalLeaderboard, api_get_clan |-> ApiGetClan,
     api_get_pool |-> ApiGetPool]
OpenHandlers ==
    [get_player_banner |-> GetPlayerBanner, get_clans |-> GetClans, get_clan |-> GetClanById,
     get_server_stats |-> GetServerStats, get_online_players |-> GetOnlinePlayers,
     api_get_match |-> ApiGetMatch, bancho_view_online_users |-> BanchoViewOnlineUsers,
     bancho_view_matches |-> BanchoViewMatches]
OsuHandlers ==
    [osu_get_friends |-> OsuGetFriends, osu_get_replay |-> OsuGetReplay,
     osu_get_scores |-> OsuGetScores]

Endpoints ==
    DOMAIN WebHandlers \cup DOMAIN ApiHandlers \cup DOMAIN OpenHandlers \cup DOMAIN OsuHandlers
Handler(endpoint) ==
    IF endpoint \in DOMAIN WebHandlers THEN WebHandlers[endpoint]
    ELSE IF endpoint \in DOMAIN ApiHandlers THEN ApiHandlers[endpoint]
    ELSE IF endpoint \in DOMAIN OpenHandlers THEN OpenHandlers[endpoint]
    ELSE OsuHandlers[endpoint]

\* get_optional_actor; no viewer; the game client logs in for each request.
Viewers(endpoint) ==
    IF endpoint \in DOMAIN WebHandlers THEN People \cup {Anonymous}
    ELSE IF endpoint \in DOMAIN ApiHandlers \cup DOMAIN OpenHandlers THEN {Anonymous}
    ELSE {u \in People : sessionPriv[u] # "offline"}

-----------------------------------------------------------------------------
(* The players' privileges *)

Views(levels, viewer) ==
    {u \in People : levels[u] # "offline" /\ CanView(viewer, u, levels[u])}
Hides(levels, viewer) ==
    {u \in People : levels[u] # "offline" /\ ~CanView(viewer, u, levels[u])}

\* History of a request: whom its viewer could see, could not see, and who was not
\* restricted, at some moment of it.
Witnessed(q, rows, sessions) ==
    [q EXCEPT !.seen = @ \cup Views(rows, q.viewer) \cup Views(sessions, q.viewer),
              !.unseen = @ \cup Hides(rows, q.viewer) \cup Hides(sessions, q.viewer),
              !.listed = @ \cup {u \in People : rows[u] # "restricted"}]
Witness ==
    requests' = [r \in Requests |->
                   IF requests[r] = Unserved THEN Unserved
                   ELSE Witnessed(requests[r], userPriv', sessionPriv')]

VisibilityInit ==
    /\ userPriv \in [People -> Levels]
    /\ sessionPriv = [u \in People |-> "offline"]
    /\ writing = [u \in People |-> "nothing"]
    /\ requests = [r \in Requests |-> Unserved]
    /\ requestsBegun = 0 /\ changed = 0

Changes == changed < MaxChanges /\ changed' = changed + 1

\* The login reads the row; a session that is unverified is verified by its login.
GoOnline(u) ==
    /\ sessionPriv[u] = "offline" /\ writing[u] = "nothing"
    /\ Changes
    /\ sessionPriv' = [sessionPriv EXCEPT ![u] =
                         IF userPriv[u] = "unverified" THEN "public" ELSE userPriv[u]]
    /\ writing' = [writing EXCEPT ![u] = IF userPriv[u] = "unverified" THEN "public" ELSE "nothing"]
    /\ UNCHANGED <<userPriv, requestsBegun>> /\ Witness

\* add_privs, remove_privs of somebody online: the session first
ChangeSession(u, level) ==
    /\ sessionPriv[u] \notin {"offline", level} /\ writing[u] = "nothing"
    /\ Changes
    /\ sessionPriv' = [sessionPriv EXCEPT ![u] = level]
    /\ writing' = [writing EXCEPT ![u] = level]
    /\ UNCHANGED <<userPriv, requestsBegun>> /\ Witness

\* of an object made from the row
ChangeOffline(u, level) ==
    /\ sessionPriv[u] = "offline" /\ userPriv[u] # level /\ writing[u] = "nothing"
    /\ Changes
    /\ writing' = [writing EXCEPT ![u] = level]
    /\ UNCHANGED <<userPriv, sessionPriv, requestsBegun>> /\ Witness

\* users.partial_update
UpdatePrivs(u) ==
    /\ writing[u] # "nothing"
    /\ userPriv' = [userPriv EXCEPT ![u] = writing[u]]
    /\ writing' = [writing EXCEPT ![u] = "nothing"]
    /\ UNCHANGED <<sessionPriv, requestsBegun, changed>> /\ Witness

\* Restrict and unrestrict end with it; a player leaves when he likes.
GoOffline(u) ==
    /\ sessionPriv[u] # "offline"
    /\ sessionPriv' = [sessionPriv EXCEPT ![u] = "offline"]
    /\ UNCHANGED <<userPriv, writing, requestsBegun, changed>> /\ Witness

-----------------------------------------------------------------------------
(* A request *)

BeginRequest(r, endpoint, viewer, target) ==
    /\ requests[r] = Unserved
    /\ requestsBegun < MaxRequests /\ requestsBegun' = requestsBegun + 1
    /\ requests' =
         [requests EXCEPT ![r] =
            Witnessed([endpoint |-> endpoint, viewer |-> viewer, target |-> target,
                       at |-> 1, status |-> "open", shown |-> {}, owner |-> "live",
                       seen |-> {}, unseen |-> {}, listed |-> {}],
                      userPriv, sessionPriv)]
    /\ UNCHANGED <<userPriv, sessionPriv, writing, changed>>

Step(r) == Handler(requests[r].endpoint)[requests[r].at]
Is(r, do) == requests[r] # Unserved /\ requests[r].status = "open" /\ Step(r).do = do
World == UNCHANGED <<userPriv, sessionPriv, writing, requestsBegun, changed>>

\* The answer goes out with the last step.
Moves(r, steps, shown) ==
    LET q == requests[r]
        at == q.at + steps
    IN requests' = [requests EXCEPT ![r].at = at, ![r].shown = @ \cup shown,
                      ![r].status = IF at > Len(Handler(q.endpoint)) THEN "success" ELSE "open"]
Fails(r, status) == requests' = [requests EXCEPT ![r].status = status, ![r].shown = {}]

\* The privileges the gate looks at, "offline" if it finds nobody.
LevelBy(by, r) ==
    LET u == requests[r].target IN
    CASE by = "row" -> userPriv[u]
      [] by = "session" -> sessionPriv[u]
      [] by = "row of who is online" -> IF sessionPriv[u] = "offline" THEN "offline"
                                      ELSE userPriv[u]
      [] by = "session or row" -> IF sessionPriv[u] = "offline" THEN userPriv[u] ELSE sessionPriv[u]
      [] by = "owner" ->
           IF requests[r].owner # "live" THEN requests[r].owner
           ELSE IF sessionPriv[u] = "offline" THEN userPriv[u] ELSE sessionPriv[u]

Passes(r) ==
    LET level == LevelBy(Step(r).by, r) IN
    level # "offline" /\ CanView(requests[r].viewer, requests[r].target, level)

PassGate(r) ==
    /\ Is(r, "gate")
    /\ IF Passes(r) THEN Moves(r, 1, {})
       ELSE Fails(r, IF LevelBy(Step(r).by, r) = "offline" THEN "missing" ELSE "hidden")
    /\ World

\* api_get_player_status: with a session, the row is not looked at.
TrySession(r) ==
    /\ Is(r, "try session")
    /\ IF sessionPriv[requests[r].target] = "offline" THEN Moves(r, 1, {})
       ELSE IF Passes(r) THEN Moves(r, 2, {}) ELSE Fails(r, "hidden")
    /\ World

\* from_cache_or_sql in Score.from_sql: a session, or an object with the row's privileges
TakeOwner(r) ==
    LET u == requests[r].target IN
    /\ Is(r, "owner")
    /\ requests' = [requests EXCEPT ![r].at = @ + 1,
                      ![r].owner = IF sessionPriv[u] = "offline" THEN userPriv[u] ELSE "live"]
    /\ World

LookUpTarget(r) == Is(r, "found") /\ (Moves(r, 1, {}) \/ Fails(r, "missing")) /\ World
PassAwait(r) == Is(r, "await") /\ Moves(r, 1, {}) /\ World

Query(r) ==
    /\ Is(r, "rows")
    /\ Moves(r, 1, Rows(Step(r).by, requests[r].viewer, requests[r].target))
    /\ World

\* api_get_clan
ShowIfVisible(r) ==
    /\ Is(r, "show if visible")
    /\ Moves(r, 1, IF Passes(r) THEN {requests[r].target} ELSE {})
    /\ World

RefuseOthers(r) ==
    /\ Is(r, "own")
    /\ IF requests[r].viewer = requests[r].target THEN Moves(r, 1, {}) ELSE Fails(r, "refused")
    /\ World

Serve(r) ==
    \/ \E endpoint \in Endpoints, target \in People :
         \E viewer \in Viewers(endpoint) : BeginRequest(r, endpoint, viewer, target)
    \/ PassGate(r) \/ TrySession(r) \/ TakeOwner(r) \/ LookUpTarget(r) \/ PassAwait(r)
    \/ Query(r) \/ ShowIfVisible(r) \/ RefuseOthers(r)

VisibilityNext ==
    \/ \E u \in People :
         \/ GoOnline(u) \/ UpdatePrivs(u) \/ GoOffline(u)
         \/ \E level \in Levels : ChangeSession(u, level) \/ ChangeOffline(u, level)
    \/ \E r \in Requests : Serve(r)

VisibilitySpec == VisibilityInit /\ [][VisibilityNext]_visibilityVars

-----------------------------------------------------------------------------
(* Properties *)

VisibilityTypeOK ==
    /\ userPriv \in [People -> Levels]
    /\ sessionPriv \in [People -> Levels \cup {"offline"}]
    /\ writing \in [People -> Levels \cup {"nothing"}]
    /\ \A r \in Requests :
         requests[r] # Unserved =>
           /\ requests[r].endpoint \in Endpoints
           /\ requests[r].target \in People /\ requests[r].viewer \in People \cup {Anonymous}
           /\ requests[r].shown \subseteq People
           /\ requests[r].status \in {"open", "success", "hidden", "missing", "refused"}
    /\ requestsBegun \in 0..MaxRequests /\ changed \in 0..MaxChanges

\* The policy's docstring makes no exceptions, the code does. These endpoints do not ask
\* who is hidden: lists of friends and followers, who is online, who is in a match, who
\* owns a clan, a banner.
Unfiltered ==
    {"get_player_friends", "get_player_following", "get_player_followers", "osu_get_friends",
     "get_online_players", "bancho_view_online_users", "api_get_match", "bancho_view_matches",
     "get_clans", "get_clan", "get_player_banner"}
\* These hide who is restricted, and not who is unverified.
ByRestriction == {"get_map_scores", "api_get_map_scores", "osu_get_scores", "get_server_stats"}

\* Every other endpoint keeps to the policy: however the requests interleave with a change
\* of privileges, an answer shows only players that the viewer could see, in the row or in
\* the session, at some moment of the request. Those of ByRestriction show who was not
\* restricted at some moment of it. A player is reported as hidden only if at some
\* moment he was.
AnswersRespectVisibility ==
    \A r \in Requests :
      LET q == requests[r] IN
      q # Unserved =>
        /\ q.endpoint \notin Unfiltered =>
             q.shown \subseteq q.seen \cup (IF q.endpoint \in ByRestriction THEN q.listed ELSE {})
        /\ q.status = "hidden" => q.target \in q.unseen
=============================================================================
