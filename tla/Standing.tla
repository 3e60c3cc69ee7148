------------------------------ MODULE Standing ------------------------------
(***************************************************************************)
(* The standing of one player: its privileges, its silence and its country *)
(* in the table users, the copy its session carries, and its places on the *)
(* leaderboards in redis, with the commands, requests and tasks that       *)
(* change them.                                                            *)
(*                                                                         *)
(* Whoever handles one changes the object it found at once, and the row    *)
(* and the boards by statements it awaits, one after the other: what is    *)
(* left to await is the "todo" of its job.  Rows of the table logs, the    *)
(* modes but one and the times at which silences and donations end are     *)
(* left out.                                                               *)
(***************************************************************************)
EXTENDS Naturals, Sequences

CONSTANTS Countries, Home,  \* what the row says at first
          Jobs,             \* commands, requests and tasks handled at once
          MaxJobs           \* bound: how many are started

ASSUME StandingAssumption == Home \in Countries /\ MaxJobs \in Nat

VARIABLES
    row,          \* users: priv, silence_end (whether it is to come) and country
    session,      \* "off", "login", "verifying" (not in the list of players yet), "on"
    player,       \* the object of the session; stats: whether its statistics are loaded
    told,         \* the privileges the client was last told of
    boards,       \* bancho:leaderboard:*, "global" or a country: those with this player
    jobs,         \* what is being handled
    started,      \* counts it
    jobsOverlap,  \* history: two jobs, or a job and a login, were open at once
    abroad,       \* history: a login came from another country than the row's
    patched       \* history: admin_update_player was called

standingVars == <<row, session, player, told, boards, jobs, started, jobsOverlap, abroad, patched>>

Bits == {"unrestricted", "verified", "donator"}
Idle == [todo |-> <<>>]
OpenJobs == {k \in Jobs : jobs[k] # Idle}
LoggingIn == session \in {"login", "verifying"}

\* Player(...) of a row: the object get_sql makes has no statistics.
FromRow(country, stats) ==
    [priv |-> row.priv, silenced |-> row.silenced, country |-> country, stats |-> stats]

StandingInit ==
    /\ row \in [priv : {{"unrestricted"}, {"unrestricted", "verified"}},
                silenced : {FALSE}, country : {Home}]
    /\ session = "off"
    /\ player = FromRow(Home, FALSE)
    /\ told = {}
    /\ boards = {}
    /\ jobs = [k \in Jobs |-> Idle]
    /\ started = 0
    /\ jobsOverlap = FALSE /\ abroad = FALSE /\ patched = FALSE

-----------------------------------------------------------------------------
(* The session *)

\* handle_osu_login_request: the row, and the country of the address.
Login(country) ==
    /\ session = "off"
    /\ session' = "login"
    /\ player' = FromRow(country, TRUE)
    /\ told' = row.priv
    /\ jobsOverlap' = (jobsOverlap \/ OpenJobs # {})
    /\ abroad' = (abroad \/ country # row.country)
    /\ UNCHANGED <<row, boards, jobs, started, patched>>

\* The first login: add_privs(VERIFIED), before the player is in the list.
AddVerified ==
    /\ session = "login"
    /\ "unrestricted" \in player.priv /\ "verified" \notin player.priv
    /\ session' = "verifying"
    /\ player' = [player EXCEPT !.priv = @ \cup {"verified"}]
    /\ UNCHANGED <<row, told, boards, jobs, started, jobsOverlap, abroad, patched>>

WriteVerified ==
    /\ session = "verifying"
    /\ session' = "login"
    /\ row' = [row EXCEPT !.priv = player.priv]
    /\ told' = player.priv
    /\ UNCHANGED <<player, boards, jobs, started, jobsOverlap, abroad, patched>>

Appear ==
    /\ session = "login"
    /\ "unrestricted" \in player.priv => "verified" \in player.priv
    /\ session' = "on"
    /\ UNCHANGED <<row, player, told, boards, jobs, started, jobsOverlap, abroad, patched>>

\* Whoever works on the object of the session keeps it.
Detached(k) ==
    IF jobs[k] # Idle /\ jobs[k].on = "session"
    THEN [jobs[k] EXCEPT !.on = "own", !.obj = player] ELSE jobs[k]

Logout ==
    /\ session = "on"
    /\ session' = "off"
    /\ jobs' = [k \in Jobs |-> Detached(k)]
    /\ UNCHANGED <<row, player, told, boards, started, jobsOverlap, abroad, patched>>

-----------------------------------------------------------------------------
(* What is started *)

\* from_cache_or_sql: the object of the session, or one of its own.
FoundPlayer == IF session = "on" THEN player ELSE FromRow(row.country, FALSE)

BeginJob(k, job) ==
    /\ jobs[k] = Idle
    /\ started < MaxJobs /\ started' = started + 1
    /\ jobs' = [jobs EXCEPT ![k] = job]
    /\ jobsOverlap' = (jobsOverlap \/ OpenJobs # {} \/ LoggingIn)
    /\ UNCHANGED <<row, session, told, boards, abroad>>

\* The object that was found becomes new; the statements write what it was then.
Change(k, new, todo) ==
    /\ BeginJob(k, [on |-> IF session = "on" THEN "session" ELSE "own",
                 obj |-> new, new |-> new, todo |-> todo])
    /\ player' = IF session = "on" THEN new ELSE player
    /\ UNCHANGED patched

\* Player.remove_privs and Player.add_privs, up to the await
Without(bits) == [FoundPlayer EXCEPT !.priv = @ \ bits]
With(bits) == [FoundPlayer EXCEPT !.priv = @ \cup bits]

\* The command restrict, and a score that is not to be believed.
RestrictUser(k) ==
    /\ "unrestricted" \in FoundPlayer.priv
    /\ Change(k, Without({"unrestricted"}), <<"priv", "global off", "country off", "logout">>)

\* The statistics are fetched only if the target is offline, which an object made
\* from a row, having a token, is never: nothing of it is put on the boards.
Unrestrict(k) ==
    /\ "unrestricted" \notin FoundPlayer.priv
    /\ Change(k, With({"unrestricted"}),
              IF FoundPlayer.stats THEN <<"priv", "global on", "country on", "logout">>
              ELSE <<"priv", "logout">>)

Silence(k) == Change(k, [FoundPlayer EXCEPT !.silenced = TRUE], <<"silence">>)

Unsilence(k) ==
    /\ FoundPlayer.silenced
    /\ Change(k, [FoundPlayer EXCEPT !.silenced = FALSE], <<"silence">>)

\* addpriv and givedonator; rmpriv and the task that ends donations.
AddPriv(k) == Change(k, With({"donator"}), <<"priv">>)
RemovePriv(k) == "donator" \in FoundPlayer.priv /\ Change(k, Without({"donator"}), <<"priv">>)

\* update_rank, of a score that was submitted in game; the country is read first.
UpdateRank(k) ==
    /\ session = "on" /\ "unrestricted" \in player.priv
    /\ Change(k, player, <<"global on", "former country on">>)

\* update_profile, a request of the website: the user is the row it began with.
UpdateCountry(k, country) ==
    LET user == FromRow(row.country, FALSE)
        todo == IF "unrestricted" \in row.priv
                THEN <<"country", "remember country", "former country off", "moved on">>
                ELSE <<"country", "remember country", "former country off">>
    IN
    /\ country # row.country
    /\ BeginJob(k, [on |-> "own", obj |-> [user EXCEPT !.country = country], new |-> user,
                 todo |-> todo])
    /\ UNCHANGED <<player, patched>>

\* admin_update_player: the row and the session, and nothing else.
AdminUpdate(k, priv, country) ==
    LET given == [priv |-> priv, silenced |-> row.silenced, country |-> country, stats |-> FALSE]
    IN
    /\ priv # row.priv \/ country # row.country
    /\ BeginJob(k, [on |-> "own", obj |-> given, new |-> given,
                    todo |-> <<"given", "remember given">>])
    /\ patched' = TRUE
    /\ UNCHANGED player

Start(k) ==
    \/ RestrictUser(k) \/ Unrestrict(k) \/ Silence(k) \/ Unsilence(k)
    \/ AddPriv(k) \/ RemovePriv(k) \/ UpdateRank(k)
    \/ \E country \in Countries : UpdateCountry(k, country)
    \/ \E toggled \in {{}, {"unrestricted"}}, country \in Countries :
         AdminUpdate(k, (row.priv \ toggled) \cup (toggled \ row.priv), country)

-----------------------------------------------------------------------------
(* What is awaited *)

Target(k) == IF jobs[k].on = "session" THEN player ELSE jobs[k].obj

Awaits(k, step) == jobs[k] # Idle /\ Head(jobs[k].todo) = step

Done(k) ==
    LET rest == Tail(jobs[k].todo) IN
    jobs' = [jobs EXCEPT ![k] = IF rest = <<>> THEN Idle ELSE [@ EXCEPT !.todo = rest]]

Rest == UNCHANGED <<started, jobsOverlap, abroad, patched>>

\* users.partial_update(priv=...); a target that is online is told of what it
\* may do by now.
WritePriv(k) ==
    /\ Awaits(k, "priv")
    /\ row' = [row EXCEPT !.priv = jobs[k].new.priv]
    /\ told' = IF jobs[k].on = "session" THEN player.priv ELSE told
    /\ Done(k) /\ Rest /\ UNCHANGED <<session, player, boards>>

WriteSilence(k) ==
    /\ Awaits(k, "silence")
    /\ row' = [row EXCEPT !.silenced = jobs[k].new.silenced]
    /\ Done(k) /\ Rest /\ UNCHANGED <<session, player, told, boards>>

\* zadd and zrem
Board(k, step, next) ==
    /\ Awaits(k, step)
    /\ boards' = next
    /\ Done(k) /\ Rest /\ UNCHANGED <<row, session, player, told>>

GlobalOff(k) == Board(k, "global off", boards \ {"global"})
GlobalOn(k) == Board(k, "global on", boards \cup {"global"})

\* Mutant: the country is taken from the object the job began with.
CountryAsBegun(k) == Board(k, "country off", boards \ {Home})

CountryOff(k) == Board(k, "country off", boards \ {Target(k).country})
CountryOn(k) == Board(k, "country on", boards \cup {Target(k).country})
FormerCountryOn(k) == Board(k, "former country on", boards \cup {jobs[k].new.country})
FormerCountryOff(k) == Board(k, "former country off", boards \ {jobs[k].new.country})
MovedOn(k) == Board(k, "moved on", boards \cup {jobs[k].obj.country})

\* restrict and unrestrict: the session they found is logged out.
LogoutTarget(k) ==
    /\ Awaits(k, "logout")
    /\ session' = IF jobs[k].on = "session" THEN "off" ELSE session
    /\ jobs' = [j \in Jobs |-> IF j = k THEN Idle
                               ELSE IF jobs[k].on = "session" THEN Detached(j) ELSE jobs[j]]
    /\ Rest /\ UNCHANGED <<row, player, told, boards>>

WriteCountry(k) ==
    /\ Awaits(k, "country")
    /\ row' = [row EXCEPT !.country = jobs[k].obj.country]
    /\ Done(k) /\ Rest /\ UNCHANGED <<session, player, told, boards>>

\* The session there is by now.
RememberCountry(k) ==
    /\ Awaits(k, "remember country")
    /\ player' = IF session = "on" THEN [player EXCEPT !.country = jobs[k].obj.country] ELSE player
    /\ Done(k) /\ Rest /\ UNCHANGED <<row, session, told, boards>>

WriteGiven(k) ==
    /\ Awaits(k, "given")
    /\ row' = [row EXCEPT !.priv = jobs[k].new.priv, !.country = jobs[k].new.country]
    /\ Done(k) /\ Rest /\ UNCHANGED <<session, player, told, boards>>

RememberGiven(k) ==
    LET given == jobs[k].new IN
    /\ Awaits(k, "remember given")
    /\ player' = IF session = "on"
                  THEN [player EXCEPT !.priv = given.priv, !.country = given.country]
                 ELSE player
    /\ Done(k) /\ Rest /\ UNCHANGED <<row, session, told, boards>>

Await(k) ==
    \/ WritePriv(k) \/ WriteSilence(k) \/ GlobalOff(k) \/ GlobalOn(k)
    \/ CountryOff(k) \/ CountryOn(k) \/ FormerCountryOn(k) \/ FormerCountryOff(k) \/ MovedOn(k)
    \/ LogoutTarget(k) \/ WriteCountry(k) \/ RememberCountry(k) \/ WriteGiven(k) \/ RememberGiven(k)

-----------------------------------------------------------------------------
StandingNext ==
    \/ \E country \in Countries : Login(country)
    \/ AddVerified \/ WriteVerified \/ Appear \/ Logout
    \/ \E k \in Jobs : Start(k) \/ Await(k)

StandingSpec == StandingInit /\ [][StandingNext]_standingVars

-----------------------------------------------------------------------------
(* Properties *)

Persons == [priv : SUBSET Bits, silenced : BOOLEAN, country : Countries, stats : BOOLEAN]

StandingTypeOK ==
    /\ row \in [priv : SUBSET Bits, silenced : BOOLEAN, country : Countries]
    /\ session \in {"off", "login", "verifying", "on"}
    /\ player \in Persons
    /\ told \subseteq Bits
    /\ boards \subseteq {"global"} \cup Countries
    /\ \A k \in OpenJobs :
         jobs[k].on \in {"session", "own"} /\ jobs[k].obj \in Persons /\ jobs[k].new \in Persons
    /\ started \in 0..MaxJobs
    /\ jobsOverlap \in BOOLEAN /\ abroad \in BOOLEAN /\ patched \in BOOLEAN

\* While no two jobs and no job and login have overlapped and none is open, the
\* session in game has the privileges and the silence of the row, and its client
\* has been told of the privileges (unless an administrator patched them).
SerialSessionAgrees ==
    ~jobsOverlap /\ OpenJobs = {} /\ session = "on" =>
      /\ player.priv = row.priv /\ player.silenced = row.silenced
      /\ ~abroad => player.country = row.country
      /\ ~patched => told = player.priv

\* A restricted player is on no leaderboard, another on none but the global one and
\* that of its country, while jobs have not overlapped.  (A login from abroad ranks
\* the player there, an administrator's patch leaves the boards as they are.)
SerialBoards ==
    ~jobsOverlap /\ OpenJobs = {} /\ ~abroad /\ ~patched =>
      IF "unrestricted" \in row.priv THEN boards \subseteq {"global", row.country}
      ELSE boards = {}

\* With one job at a time, row, session and boards agree.
SerialStanding == SerialSessionAgrees /\ SerialBoards
=============================================================================
