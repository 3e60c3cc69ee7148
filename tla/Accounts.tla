------------------------------ MODULE Accounts ------------------------------
(***************************************************************************)
(* Accounts: registration, changes of names and password, the logins of    *)
(* the game and of the website and the game's web requests, with the cache *)
(* of verified passwords and the index of the players in game by name.     *)
(*                                                                         *)
(* A request awaits every query; an action ends there.  A bcrypt hash is a *)
(* record of the password and of a salt that no other hash has.  The index *)
(* on names is unique; the one on e-mail addresses is like it and left out.*)
(* The localized names (name_ko, name_en, name_ja) are one, the alias, for *)
(* which there is no index and no check.                                   *)
(***************************************************************************)
EXTENDS Naturals, FiniteSets, NoneValue

CONSTANTS Ids, AccountNames, Passwords, First,  \* the account there is, and
          FirstName, FirstPassword,
          AccountRequests,                      \* requests that are handled at once
          MaxAccountRequests                    \* bound: requests

ASSUME AccountsAssumption ==
    /\ First \in Ids /\ FirstName \in AccountNames /\ FirstPassword \in Passwords
    /\ MaxAccountRequests \in Nat

\* The hash the account has is salted with 0, one made by a request with its number.
Hashes == [of : Passwords, salt : 0..MaxAccountRequests]
AccountRows == [name : AccountNames, alias : AccountNames \cup {None}, hash : Hashes]
Indexed == [id : Ids, hash : Hashes]

ASSUME NoneAssumption == None \notin Ids \cup AccountNames \cup AccountRows \cup Indexed

VARIABLES
    account,        \* users: name, localized name and pw_bcrypt
    statsOf,        \* stats: the accounts that have their rows
    passwordCache,  \* state.cache.bcrypt: hashes and the passwords they verified
    webSessions,    \* redis: the accounts that have a token
    inGame,         \* the session of an account: Player.name, .name_ko and .pw_bcrypt
    byName,         \* Players._by_name: the players, whose id and pw_bcrypt stay as they are
    request,        \* the requests that are being handled
    requested,      \* counts them
    former,         \* history: passwords an account has had and has no more
    retired,        \* history: those it already had no more when a request began
    renamed,        \* history: names that changed while a session, or a login, had them
    replaced,       \* history: hashes in whose place another was written
    kept            \* history: of these, what a change did not evict or a check cached again

accountsVars == <<account, statsOf, passwordCache, webSessions, inGame, byName,
                  request, requested, former, retired, renamed, replaced, kept>>

NoRequest == [at |-> "none"]
OpenRequests == {q \in AccountRequests : request[q] # NoRequest}
RequestAt(q, at) == request[q].at = at
Go(q, at) == request' = [request EXCEPT ![q].at = at]
End(q) == request' = [request EXCEPT ![q] = NoRequest]
tables == <<account, statsOf>>
signedIn == <<webSessions, inGame, byName>>
memory == <<passwordCache, signedIn, replaced, kept>>
history == <<requested, former, retired, renamed>>

AccountsInit ==
    LET hash == [of |-> FirstPassword, salt |-> 0] IN
    /\ account = [i \in Ids |-> IF i # First THEN None
                                ELSE [name |-> FirstName, alias |-> None, hash |-> hash]]
    /\ statsOf = {First}
    /\ passwordCache = {}
    /\ webSessions = {}
    /\ inGame = [i \in Ids |-> None]
    /\ byName = [n \in AccountNames |-> None]
    /\ request = [q \in AccountRequests |-> NoRequest]
    /\ requested = 0
    /\ former = {}
    /\ retired = [q \in AccountRequests |-> {}]
    /\ renamed = {} /\ replaced = {} /\ kept = {}

\* What the index on names knows: no two rows have the same.
Owners(n) == {i \in Ids : account[i] # None /\ account[i].name = n}

\* UsersRepository.fetch_one by name answers with one of the rows that have it as
\* their name or their alias.
Named(n) == {i \in Ids : account[i] # None /\ n \in {account[i].name, account[i].alias}}

\* A request for a name, of the user of a web session if there is one; the hash it
\* may make is salted with its number.
Accept(q, op, user, n, alias, given, new) ==
    /\ request[q] = NoRequest /\ requested < MaxAccountRequests
    /\ requested' = requested + 1
    /\ request' = [request EXCEPT ![q] =
                     [at |-> op[1], then |-> op[2], user |-> user, name |-> n, alias |-> alias,
                      given |-> given, id |-> None, hash |-> None, new |-> [of |-> new, salt |-> requested + 1]]]
    /\ retired' = [retired EXCEPT ![q] = former]
    /\ UNCHANGED <<tables, memory, former, renamed>>

\* A hash enters the cache.
Cache(cache, hash, password) ==
    /\ passwordCache' = cache \cup {<<hash, password>>}
    /\ kept' = kept \cup ({hash} \cap replaced)

-----------------------------------------------------------------------------
(* Registration *)

Register(q, n, p) == Accept(q, <<"validate", "insert">>, None, n, None, p, p)

\* validate_registration, and create_account up to its first await: the hash is
\* in the cache before there is an account.
ValidateRegistration(q) ==
    /\ RequestAt(q, "validate")
    /\ IF Named(request[q].name) # {} THEN End(q) /\ UNCHANGED <<passwordCache, kept>>
       ELSE Cache(passwordCache, request[q].new, request[q].given) /\ Go(q, request[q].then)
    /\ UNCHANGED <<tables, signedIn, replaced, history>>

\* UsersRepository.create in the transaction: it fails if the name was
\* registered since, and waits for another transaction that inserts it.
InsertUser(q) ==
    /\ RequestAt(q, "insert")
    /\ \A r \in OpenRequests : RequestAt(r, "stats") => request[r].name # request[q].name
    /\ IF Owners(request[q].name) # {} THEN End(q)
       ELSE \E i \in Ids :
              /\ account[i] = None
              /\ \A r \in OpenRequests : RequestAt(r, "stats") => request[r].id # i
              /\ request' = [request EXCEPT ![q].at = "stats", ![q].id = i]
    /\ UNCHANGED <<tables, memory, history>>

\* StatsRepository.create_all_modes and the commit; if the statement fails, the
\* user's row is rolled back.
CreateAccount(q) ==
    /\ RequestAt(q, "stats")
    /\ \/ /\ account' = [account EXCEPT ![request[q].id] =
                           [name |-> request[q].name, alias |-> None, hash |-> request[q].new]]
          /\ statsOf' = statsOf \cup {request[q].id}
       \/ UNCHANGED tables
    /\ End(q)
    /\ UNCHANGED <<memory, history>>

-----------------------------------------------------------------------------
(* Passwords *)

WebLogin(q, n, p) == Accept(q, <<"find", "token">>, None, n, None, p, p)
GameLogin(q, n, p) == Accept(q, <<"find", "enter">>, None, n, None, p, p)

ChangePassword(q, i, p, new) ==
    /\ i \in webSessions
    /\ Accept(q, <<"find", "evict">>, i, account[i].name, None, p, new)

\* authenticate_login_credentials: the row of the user, whose names count from here,
\* then its hash, then the cache or bcrypt.
FindUser(q) ==
    /\ RequestAt(q, "find")
    /\ \/ Named(request[q].name) = {} /\ End(q)
       \/ \E i \in Named(request[q].name) :
            request' = [request EXCEPT ![q].id = i, ![q].name = account[i].name,
                                       ![q].alias = account[i].alias, ![q].at = "fetch"]
    /\ UNCHANGED <<tables, memory, history>>

FetchHash(q) ==
    /\ RequestAt(q, "fetch")
    /\ request' = [request EXCEPT ![q].hash = account[request[q].id].hash, ![q].at = "check"]
    /\ UNCHANGED <<tables, memory, history>>

\* Mutant: a password that was verified for some hash is taken for any.
VerifiesByPassword(hash, given) ==
    given = hash.of \/ \E entry \in passwordCache : entry[2] = given

\* The cache if it has the hash, else bcrypt.
Verifies(hash, given) ==
    IF \E entry \in passwordCache : entry[1] = hash
    THEN <<hash, given>> \in passwordCache
    ELSE given = hash.of

Verify(q) ==
    LET r == request[q] IN
    /\ RequestAt(q, "check")
    /\ IF Verifies(r.hash, r.given)
       THEN Cache(passwordCache, r.hash, r.given) /\ Go(q, r.then)
       ELSE UNCHANGED <<passwordCache, kept>> /\ End(q)
    /\ UNCHANGED <<tables, signedIn, replaced, history>>

\* change_password: the hash that is to leave the cache is fetched, the new one
\* is written, both by the id of the web session's user, and then the cache is changed.
FetchOldHash(q) ==
    /\ RequestAt(q, "evict")
    /\ request' = [request EXCEPT ![q].hash = account[request[q].user].hash, ![q].at = "update"]
    /\ UNCHANGED <<tables, memory, history>>

UpdatePassword(q) ==
    LET i == request[q].user
        new == request[q].new
    IN
    /\ RequestAt(q, "update")
    /\ account' = [account EXCEPT ![i].hash = new]
    /\ former' = (former \cup {<<i, account[i].hash.of>>}) \ {<<i, new.of>>}
    /\ retired' = [r \in AccountRequests |-> retired[r] \ {<<i, new.of>>}]
    /\ replaced' = replaced \cup {account[i].hash}
    /\ kept' = kept \cup ({account[i].hash} \ {request[q].hash})
    /\ Go(q, "cache")
    /\ UNCHANGED <<statsOf, passwordCache, signedIn, requested, renamed>>

EvictOldHash(q) ==
    LET r == request[q] IN
    /\ RequestAt(q, "cache")
    /\ Cache({entry \in passwordCache : entry[1] # r.hash}, r.new, r.new.of)
    /\ End(q)
    /\ UNCHANGED <<tables, signedIn, replaced, history>>

-----------------------------------------------------------------------------
(* Sessions *)

CreateToken(q) ==
    /\ RequestAt(q, "token")
    /\ webSessions' = webSessions \cup {request[q].id}
    /\ End(q)
    /\ UNCHANGED <<tables, passwordCache, inGame, byName, replaced, kept, history>>

\* WebSessionsService.logout, or the token expires.
EndWebSession(i) ==
    /\ i \in webSessions
    /\ webSessions' = webSessions \ {i}
    /\ UNCHANGED <<tables, passwordCache, inGame, byName, replaced, kept, request, history>>

\* The rest of handle_osu_login_request: the hash is fetched once more; the names
\* are those of the row found at first.  A second session is Sessions' matter.
FetchSessionHash(q) ==
    /\ RequestAt(q, "enter")
    /\ request' = [request EXCEPT ![q].hash = account[request[q].id].hash, ![q].at = "appear"]
    /\ UNCHANGED <<tables, memory, history>>

EnterGame(q) ==
    LET r == request[q] IN
    /\ RequestAt(q, "appear")
    /\ IF inGame[r.id] # None THEN UNCHANGED <<inGame, byName>>
       ELSE /\ inGame' = [inGame EXCEPT ![r.id] =
                            [name |-> r.name, alias |-> r.alias, hash |-> r.hash]]
            /\ byName' = [byName EXCEPT ![r.name] = [id |-> r.id, hash |-> r.hash]]
    /\ End(q)
    /\ UNCHANGED <<tables, passwordCache, webSessions, replaced, kept, history>>

\* Players.remove pops the entry of the name the player has by now.
LeaveGame(i) ==
    /\ inGame[i] # None
    /\ byName' = [byName EXCEPT ![inGame[i].name] = None]
    /\ inGame' = [inGame EXCEPT ![i] = None]
    /\ UNCHANGED <<tables, passwordCache, webSessions, replaced, kept, request, history>>

\* Players.get by name: the player the index has, who may have logged out, else one
\* of those who have it as their alias.
Finds(n) ==
    IF byName[n] # None THEN {byName[n]}
    ELSE {[id |-> i, hash |-> inGame[i].hash] : i \in {j \in Ids : inGame[j] # None /\ inGame[j].alias = n}}

\* authenticate_online_player, as the game's web requests do: by the cache alone.
AuthenticatesOnline(player, p) == <<player.hash, p>> \in passwordCache

-----------------------------------------------------------------------------
(* Names *)

Rename(q, i, n) ==
    /\ i \in webSessions /\ account[i].name # n
    /\ Accept(q, <<"name", "rename">>, i, n, None, FirstPassword, FirstPassword)

\* The alias is not validated.
Localize(q, i, alias) ==
    /\ i \in webSessions
    /\ Accept(q, <<"localize", "localize">>, i, account[i].name, alias, FirstPassword, FirstPassword)

\* validate_profile_update
ValidateName(q) ==
    /\ RequestAt(q, "name")
    /\ IF Named(request[q].name) # {} THEN End(q) ELSE Go(q, request[q].then)
    /\ UNCHANGED <<tables, memory, history>>

\* update_profile: the row, unless the name was taken since, which waits for a
\* transaction that inserts it; the session is told when the statement is answered.
UpdateName(q) ==
    LET i == request[q].user IN
    /\ RequestAt(q, "rename")
    /\ \A r \in OpenRequests : RequestAt(r, "stats") => request[r].name # request[q].name
    /\ IF Owners(request[q].name) # {} THEN End(q) /\ UNCHANGED <<account, renamed>>
       ELSE /\ account' = [account EXCEPT ![i].name = request[q].name]
            /\ renamed' = IF inGame[i] # None \/ \E r \in OpenRequests :
                                 request[r].id = i /\ request[r].then = "enter"
                          THEN renamed \cup {account[i].name, request[q].name} ELSE renamed
            /\ Go(q, "tell name")
    /\ UNCHANGED <<statsOf, memory, requested, former, retired>>

UpdateAlias(q) ==
    /\ RequestAt(q, "localize")
    /\ account' = [account EXCEPT ![request[q].user].alias = request[q].alias]
    /\ Go(q, "tell alias")
    /\ UNCHANGED <<statsOf, memory, history>>

\* The player is given the names, the index is left as it was.
TellName(q) ==
    LET i == request[q].user IN
    /\ RequestAt(q, "tell name")
    /\ inGame' = IF inGame[i] = None THEN inGame ELSE [inGame EXCEPT ![i].name = request[q].name]
    /\ renamed' = IF inGame[i] = None \/ inGame[i].name = request[q].name THEN renamed
                  ELSE renamed \cup {inGame[i].name, request[q].name}
    /\ End(q)
    /\ UNCHANGED <<tables, passwordCache, webSessions, byName, replaced, kept, requested, former, retired>>

TellAlias(q) ==
    LET i == request[q].user IN
    /\ RequestAt(q, "tell alias")
    /\ inGame' = IF inGame[i] = None THEN inGame ELSE [inGame EXCEPT ![i].alias = request[q].alias]
    /\ End(q)
    /\ UNCHANGED <<tables, passwordCache, webSessions, byName, replaced, kept, history>>

-----------------------------------------------------------------------------
ProceedRequest(q) ==
    \/ ValidateRegistration(q) \/ InsertUser(q) \/ CreateAccount(q)
    \/ FindUser(q) \/ FetchHash(q) \/ Verify(q)
    \/ FetchOldHash(q) \/ UpdatePassword(q) \/ EvictOldHash(q)
    \/ CreateToken(q) \/ FetchSessionHash(q) \/ EnterGame(q)
    \/ ValidateName(q) \/ UpdateName(q) \/ UpdateAlias(q) \/ TellName(q) \/ TellAlias(q)

AccountsNext ==
    \/ \E q \in AccountRequests, n \in AccountNames, p \in Passwords :
         Register(q, n, p) \/ WebLogin(q, n, p) \/ GameLogin(q, n, p)
    \/ \E q \in AccountRequests, i \in Ids :
         \/ \E p, new \in Passwords : ChangePassword(q, i, p, new)
         \/ \E n \in AccountNames : Rename(q, i, n)
         \/ \E alias \in AccountNames \cup {None} : Localize(q, i, alias)
    \/ \E q \in AccountRequests : ProceedRequest(q)
    \/ \E i \in Ids : EndWebSession(i) \/ LeaveGame(i)

AccountsSpec == AccountsInit /\ [][AccountsNext]_accountsVars

-----------------------------------------------------------------------------
(* Properties *)

AccountsTypeOK ==
    /\ account \in [Ids -> AccountRows \cup {None}]
    /\ statsOf \subseteq Ids /\ webSessions \subseteq Ids /\ renamed \subseteq AccountNames
    /\ passwordCache \subseteq Hashes \X Passwords
    /\ inGame \in [Ids -> AccountRows \cup {None}]
    /\ byName \in [AccountNames -> Indexed \cup {None}]
    /\ \A q \in OpenRequests : request[q].name \in AccountNames /\ request[q].id \in Ids \cup {None}
    /\ replaced \cup kept \subseteq Hashes
    /\ requested \in 0..MaxAccountRequests

\* A login, or a change of password, that began after a password was changed does not
\* get past the check with it, whatever the cache kept of the checks before and of
\* those that overlapped the change.  The account is the one the name leads to, which
\* is another one's if that took the name as its alias.
OldPasswordRefused ==
    \A q \in OpenRequests :
      request[q].at \in {"token", "enter", "appear", "evict", "update", "cache"} =>
        <<request[q].id, request[q].given>> \notin retired[q]

\* The game's web requests go on to be checked against the hash that the session, which
\* may have logged out, began with: the old password opens them until the change has
\* evicted that hash (change_password, "keep the bcrypt verification cache consistent
\* with the change"), and no longer, unless a check or another change overlapped the
\* change and left the hash in the cache.
OldPasswordForgotten ==
    \A n \in AccountNames, p \in Passwords : \A player \in Finds(n) :
      AuthenticatesOnline(player, p) /\ <<player.id, p>> \in former =>
        \/ \E q \in OpenRequests : RequestAt(q, "cache") /\ request[q].hash = player.hash
        \/ player.hash \in kept

\* An account has its statistics: whichever statement of a registration fails,
\* and whoever registers the same name at once (create_account).
AccountsHaveStats == \A i \in Ids : account[i] # None => i \in statsOf

\* The index leads from a name to an account.
Leads(n, i) == byName[n] # None /\ byName[n].id = i

\* A player in game is found by its account's name and nobody else is.  The names
\* that changed while a session or a login had them are the exception:
\* update_profile leaves the index of names alone, and a login goes on with the old
\* name, so that either may hide another player who takes that name meanwhile.
NameFindsSession ==
    \A i \in Ids, n \in AccountNames \ renamed :
      (inGame[i] # None /\ n \in {inGame[i].name, account[i].name}) \/ Leads(n, i)
        => inGame[i] # None /\ inGame[i].name = n /\ account[i].name = n /\ Leads(n, i)

\* What registration, login, a new password and a new name promise together.
AccountsSound ==
    OldPasswordRefused /\ OldPasswordForgotten /\ AccountsHaveStats /\ NameFindsSession
=============================================================================
