------------------------------ MODULE Sessions ------------------------------
(***************************************************************************)
(* The table of connected players of the chat server ("bancho"): the       *)
(* login handler, the logout path and the periodic ghost sweep.            *)
(*                                                                         *)
(* The server runs one asyncio loop, so a handler is atomic between two    *)
(* awaits.  The login handler looks the account up, possibly logs an old   *)
(* session out, and only then starts awaiting (password check, database,   *)
(* geolocation, mail); the new player object is put in the table after the *)
(* last await.  Here these are the actions BeginLogin / ReplaceSession and *)
(* FinishLogin / RefuseLogin, and everything else may run in between.      *)
(*                                                                         *)
(* A session is one Player object.  It owns one token string, named like   *)
(* the session itself; the empty string is Empty.                          *)
(***************************************************************************)
EXTENDS Naturals, SequencesExt

CONSTANTS Users,      \* accounts
          Sessions,   \* Player objects; their number bounds the logins
          UserOf,     \* the account a Player object is for
          Empty,      \* the token ""
          None        \* Python's None

ASSUME SessionsAssumption ==
    /\ UserOf \in [Sessions -> Users]
    /\ None \notin Sessions \cup Users
    /\ Empty \notin Sessions

VARIABLES
    pc,        \* progress of the login that creates the object
    tourney,   \* objects whose is_tourney_client flag is set
    token,     \* Player.token
    idle,      \* age of last_recv_time: 0 is < 10 s, 1 is up to 300 s, 2 is more
    players,   \* the list itself, in order
    byToken,   \* Players._by_token
    byId,      \* Players._by_id; _by_name is written and popped with it
    overlapped \* history: accounts with a tournament client or two logins at once

vars == <<pc, tourney, token, idle, players, byToken, byId, overlapped>>

Tokens == Sessions \cup {Empty}
Listed == ToSet(players)
InFlight(u) == {s \in Sessions : pc[s] = "waiting" /\ UserOf[s] = u}

-----------------------------------------------------------------------------
Init ==
    /\ pc = [s \in Sessions |-> "new"]
    /\ tourney = {}
    /\ token = [s \in Sessions |-> s]
    /\ idle = [s \in Sessions |-> 0]
    /\ players = <<>>
    /\ byToken = [t \in Tokens |-> None]
    /\ byId = [u \in Users |-> None]
    /\ overlapped = {}

\* list.remove for every object of S
Without(list, S) ==
    LET kept[i \in 0 .. Len(list)] ==
          IF i = 0 THEN <<>>
          ELSE IF list[i] \in S THEN kept[i - 1] ELSE Append(kept[i - 1], list[i])
    IN  kept[Len(list)]

\* Mutant: the account keeps pointing at the removed player.
RemoveButKeepId(S, tokenNow) ==
    LET gone == S \cap Listed IN
    /\ players' = Without(players, S)
    /\ byToken' = [t \in Tokens |->
                     IF \E s \in gone : tokenNow[s] = t THEN None ELSE byToken[t]]
    /\ byId' = byId

\* Mutant: the indexes are popped for a player that is no longer in the list.
RemoveUnlisted(S, tokenNow) ==
    /\ players' = Without(players, S)
    /\ byToken' = [t \in Tokens |->
                     IF \E s \in S : tokenNow[s] = t THEN None ELSE byToken[t]]
    /\ byId' = [u \in Users |-> IF \E s \in S : UserOf[s] = u THEN None ELSE byId[u]]

\* Players.remove applied to every object of S: an object that is not in the
\* list is skipped, the others are popped under the token they have NOW.
RemovePlayers(S, tokenNow) ==
    LET gone == S \cap Listed IN
    /\ players' = Without(players, S)
    /\ byToken' = [t \in Tokens |->
                     IF \E s \in gone : tokenNow[s] = t THEN None ELSE byToken[t]]
    /\ byId' = [u \in Users |->
                     IF \E s \in gone : UserOf[s] = u THEN None ELSE byId[u]]

\* Player.logout for every object of S.  The token is cleared first, the object
\* is removed from the table last; the match, the spectated host and the
\* channels it leaves in between are other modules' business.  Nobody reads the
\* age of an object that is out of the table: it is kept at 0.
LogOut(S) ==
    LET cleared == [s \in Sessions |-> IF s \in S THEN Empty ELSE token[s]] IN
    /\ token' = cleared
    /\ idle' = [s \in Sessions |-> IF s \in S THEN 0 ELSE idle[s]]
    /\ RemovePlayers(S, cleared)

\* Players.append: a new object is listed, the three indexes are overwritten.
AppendPlayer(s) ==
    /\ s \notin Listed
    /\ players' = Append(players, s)
    /\ byToken' = [byToken EXCEPT ![token[s]] = s]
    /\ byId' = [byId EXCEPT ![UserOf[s]] = s]

\* Mutant: the flag goes to the account instead of the object.
EnterMarkingAccount(s, isTourney) ==
    /\ pc[s] = "new"
    /\ pc' = [pc EXCEPT ![s] = "waiting"]
    /\ tourney' = IF isTourney THEN tourney \cup {UserOf[s]} ELSE tourney
    /\ overlapped' = IF isTourney \/ InFlight(UserOf[s]) # {}
                       THEN overlapped \cup {UserOf[s]} ELSE overlapped

\* The start of a login of s, up to its first await.
Enter(s, isTourney) ==
    /\ pc[s] = "new"
    /\ pc' = [pc EXCEPT ![s] = "waiting"]
    /\ tourney' = IF isTourney THEN tourney \cup {s} ELSE tourney
    /\ overlapped' = IF isTourney \/ InFlight(UserOf[s]) # {}
                       THEN overlapped \cup {UserOf[s]} ELSE overlapped

\* No session is found under the name, or the client is a tournament client,
\* which may have as many sessions as it likes.
BeginLogin(s, isTourney) ==
    /\ Enter(s, isTourney)
    /\ isTourney \/ byId[UserOf[s]] = None
    /\ UNCHANGED <<token, idle, players, byToken, byId>>

\* A session is found and has been silent for 10 s: it is logged out at once,
\* before the password of the new login is looked at.  (A session heard from
\* more recently makes the login fail, which changes nothing.)
ReplaceSession(s) ==
    LET old == byId[UserOf[s]] IN
    /\ Enter(s, FALSE)
    /\ old # None
    /\ idle[old] > 0
    /\ LogOut({old})

\* Wrong password, missing privilege, banned hardware, no geolocation: the
\* handler returns without having touched the table.
RefuseLogin(s) ==
    /\ pc[s] = "waiting"
    /\ pc' = [pc EXCEPT ![s] = "new"]
    /\ tourney' = tourney \ {s}
    /\ UNCHANGED <<token, idle, players, byToken, byId, overlapped>>

\* The end of the login: the new object enters the table.  Its last_recv_time
\* is the time the login began, so it may look silent already.
FinishLogin(s) ==
    /\ pc[s] = "waiting"
    /\ pc' = [pc EXCEPT ![s] = "done"]
    /\ \E age \in 0 .. 2 : idle' = [idle EXCEPT ![s] = age]
    /\ AppendPlayer(s)
    /\ UNCHANGED <<tourney, token, overlapped>>

\* A request carrying token t: its packets are handled and the arrival noted.
\* A token that resolves to nobody gets "Server has restarted", a new login.
Request(t) ==
    /\ byToken[t] # None
    /\ idle' = [idle EXCEPT ![byToken[t]] = 0]
    /\ UNCHANGED <<pc, tourney, token, players, byToken, byId, overlapped>>

\* A request with a LOGOUT packet.  (Within a second of the login the packet is
\* ignored, and this is a Request.)
ClientLogout(t) ==
    LET s == byToken[t] IN
    /\ s # None
    /\ LogOut({s})
    /\ UNCHANGED <<pc, tourney, overlapped>>

\* !reconnect, !restrict and !unrestrict log a player found by name out.
KickOut(u) ==
    /\ byId[u] # None
    /\ LogOut({byId[u]})
    /\ UNCHANGED <<pc, tourney, overlapped>>

\* The sweep iterates over the list while logout removes from it, so the entry
\* that follows a removed one is never looked at.
Ghost(s) == idle[s] = 2

\* Mutant: the iteration starts one entry late.
SweptButFirst ==
    LET removed[i \in 0 .. Len(players)] ==
          i > 1 /\ Ghost(players[i]) /\ ~removed[i - 1]
    IN  {players[i] : i \in {j \in DOMAIN players : removed[j]}}

Swept ==
    LET removed[i \in 0 .. Len(players)] ==
          i > 0 /\ Ghost(players[i]) /\ ~removed[i - 1]
    IN  {players[i] : i \in {j \in DOMAIN players : removed[j]}}

DisconnectGhosts ==
    /\ Swept # {}
    /\ LogOut(Swept)
    /\ UNCHANGED <<pc, tourney, overlapped>>

\* Time passes without a request from s.
GrowIdle(s) ==
    /\ s \in Listed
    /\ idle[s] < 2
    /\ idle' = [idle EXCEPT ![s] = @ + 1]
    /\ UNCHANGED <<pc, tourney, token, players, byToken, byId, overlapped>>

Next ==
    \/ \E s \in Sessions :
         \/ \E isTourney \in BOOLEAN : BeginLogin(s, isTourney)
         \/ ReplaceSession(s)
         \/ RefuseLogin(s)
         \/ FinishLogin(s)
         \/ GrowIdle(s)
    \/ \E t \in Tokens : Request(t) \/ ClientLogout(t)
    \/ \E u \in Users : KickOut(u)
    \/ DisconnectGhosts

Spec == Init /\ [][Next]_vars

\* The sweep is a task of the event loop that sleeps for a fixed time and runs
\* again, so it is never postponed forever; nothing is assumed of the clients.
FairSpec == Spec /\ WF_vars(DisconnectGhosts)

-----------------------------------------------------------------------------
\* The variables hold what the Python attributes can hold.
TypeOK ==
    /\ pc \in [Sessions -> {"new", "waiting", "done"}]
    /\ tourney \in SUBSET Sessions
    /\ token \in [Sessions -> Tokens]
    /\ idle \in [Sessions -> 0 .. 2]
    /\ players \in Seq(Sessions)
    /\ byToken \in [Tokens -> Sessions \cup {None}]
    /\ byId \in [Users -> Sessions \cup {None}]
    /\ overlapped \in SUBSET Users

\* A player found by id or name is connected and is the account looked for, and a
\* connected player has a token, and requests carrying it reach that player: every
\* handler that resolves a target relies on it and enqueues packets to the object it
\* gets.  Two sessions of an account share one index entry, so a pop in the wrong
\* order could leave the entry pointing at a dead object, or a player without one.
IndexesResolve ==
    /\ \A u \in Users : byId[u] # None => byId[u] \in Listed /\ UserOf[byId[u]] = u
    /\ \A s \in Listed : token[s] # Empty /\ byToken[token[s]] = s

\* An account that never had two logins in flight nor a tournament client has
\* one connection, and it can be found: the intent of the check at the top of
\* the login handler, which looks at the table once and writes it much later.
SerialLoginsAreFindable ==
    \A s \in Listed :
      UserOf[s] \notin overlapped =>
        /\ byId[UserOf[s]] = s
        /\ \A r \in Listed : UserOf[r] = UserOf[s] => r = s

\* Whoever stays silent is eventually out of the table, although one sweep may
\* step over it.
GhostsLeave ==
    \A s \in Sessions :
      (s \in Listed /\ Ghost(s)) ~> (s \notin Listed \/ ~Ghost(s))

\* "disallow multiple sessions from a single user with the exception of tourney
\* spectator clients" (cho.py, login handler).
OneSessionPerUser ==
    \A r, s \in Listed \ tourney : UserOf[r] = UserOf[s] => r = s

\* "invalidate the user's token." (Player.logout): the token of a player that
\* was logged out resolves to nobody.
LogoutInvalidatesToken ==
    \A s \in Sessions : token[s] = Empty => byToken[s] = None
=============================================================================
